---------------------------- MODULE StoreProofs -----------------------------
(***************************************************************************)
(* Proofs about the repositories on the two profiles: what a call writes   *)
(* the next one reads, what is listed can be taken, and both profiles      *)
(* answer alike.                                                           *)
(*                                                                         *)
(* StoreOK is inductive. SQLite keeps the book whatever the calls are,     *)
(* because the book records what SQLite's answers said was done.           *)
(* PostgreSQL always keeps some book, and it keeps this one as long as     *)
(* clear holds: it compares instants by their microseconds and SQLite by   *)
(* their milliseconds, so that they decide alike only about instants that  *)
(* are equal or a millisecond apart. What must be true of a database that  *)
(* keeps some book is what makes every call answer at all, and what must   *)
(* be true of two databases that keep the same book is that their answers  *)
(* agree.                                                                  *)
(*                                                                         *)
(* The proof of a step has two halves. A lemma per method says, for one    *)
(* profile, what it answers in terms of the book; a lemma per step then    *)
(* compares the two answers.                                               *)
(***************************************************************************)
EXTENDS StoreRowProofs

LEMMA RankIs ==
  ASSUME NEW p \in Profiles, NEW s \in Nat, NEW t \in Nat
  PROVE  /\ Rank(p, Moment(p, s)) \in Nat /\ Rank(p, Moment(p, t)) \in Nat
         /\ RowAtMost(p, Moment(p, s), Moment(p, t)) <=> Rank(p, Moment(p, s)) <= Rank(p, Moment(p, t))
         /\ s <= t => Rank(p, Moment(p, s)) <= Rank(p, Moment(p, t))
         /\ s = t \/ s + Milli <= t \/ t + Milli <= s =>
              /\ Rank(p, Moment(p, s)) > Rank(p, Moment(p, t)) <=> s > t
              /\ Rank(p, Moment(p, s)) <= Rank(p, Moment(p, t)) <=> s <= t
              /\ Rank(p, Moment(p, s)) < Rank(p, Moment(p, t)) <=> s < t
              /\ Rank(p, Moment(p, s)) = Rank(p, Moment(p, t)) <=> s = t
<1>1. /\ Rank(p, Moment(p, s)) \in Nat /\ Rank(p, Moment(p, t)) \in Nat
      /\ s <= t => Rank(p, Moment(p, s)) <= Rank(p, Moment(p, t))
      /\ s + Milli <= t => Rank(p, Moment(p, s)) < Rank(p, Moment(p, t))
      /\ t + Milli <= s => Rank(p, Moment(p, t)) < Rank(p, Moment(p, s))
  <2>0. s # Nothing /\ t # Nothing
    BY NatIsSome
  <2>1. CASE p = "lite"
    BY <2>0, <2>1, JulianOrder DEF Rank, Moment
  <2>2. CASE p = "pg"
    BY <2>0, <2>2, PgTimes DEF Rank, Moment
  <2>3. QED
    BY <2>1, <2>2 DEF Profiles
<1>2. RowAtMost(p, Moment(p, s), Moment(p, t)) <=> Rank(p, Moment(p, s)) <= Rank(p, Moment(p, t))
  BY DEF RowAtMost, Rank
<1>3. Milli \in Nat \ {0}
  BY Units DEF Milli
<1>4. QED
  BY <1>1, <1>2, <1>3

Consumed(e, at) == [e EXCEPT !.consumed_at = at]

CanConsume(p, e, hash, now) ==
  /\ e.token_hash = hash /\ e.consumed_at = Nothing
  /\ Rank(p, Moment(p, e.expires_at)) > Rank(p, Moment(p, now))

\* A token is consumed at most once, and what is returned is what is kept.
LEMMA Consuming ==
  ASSUME NEW p \in Profiles, NEW db, NEW bk, Inv(p, db, bk), NEW hash, NEW now \in Nat, NEW at \in Nat,
         NEW reply, reply = ConsumeCall(p, db, hash, now, at)
  PROVE  /\ reply.error = "none"
         /\ (\A e \in bk["agent_enrollment_tokens"] : ~ CanConsume(p, e, hash, now)) => reply.db = db /\
                reply.value = Nothing
         /\ \A e \in bk["agent_enrollment_tokens"] : CanConsume(p, e, hash, now) =>
              /\ reply.value = Back(p, Consumed(e, at))
              /\ Inv(p, reply.db, PutIn(bk, "agent_enrollment_tokens", Consumed(e, at)))
              /\ \A o \in bk["agent_enrollment_tokens"] : o.token_hash = hash => o = e
<1> DEFINE t == "agent_enrollment_tokens"
           hit == ConsumeHit(p, db, hash, now)
           new == ConsumeNew(p, hit, at)
<1>1. t \in TableNames /\ PrimaryKey(t) = {"id"} /\ {"token_hash"} \in KeysOf(t)
  BY DEF TableNames, PrimaryKey, KeysOf, Unique
<1>3. \A r \in db[t] : \A e \in bk[t] : Keeps(p, r, e) =>
         /\ r.token_hash = e.token_hash
         /\ r.consumed_at = Moment(p, e.consumed_at) /\ r.expires_at = Moment(p, e.expires_at)
  <2>1. /\ {"token_hash"} \subseteq (PlainColumns \ {"probe_json"}) \cap Columns(t)
        /\ {"consumed_at", "expires_at"} \subseteq TimeColumns \cap Columns(t)
    BY DEF PlainColumns, TimeColumns, Columns
  <2>2. QED
    BY <1>1, <2>1, ColumnsKept
<1>4. \A r \in db[t] : \A e \in bk[t] : Keeps(p, r, e) => (r \in hit <=> CanConsume(p, e, hash, now))
  <2>1. ASSUME NEW r \in db[t], NEW e \in bk[t], Keeps(p, r, e) PROVE r \in hit <=> CanConsume(p, e, hash, now)
    <3>1. e.consumed_at \in Maybe(Nat)
      BY <1>1, <2>1, RowOf DEF Entities
    <3>2. Moment(p, e.consumed_at) = Null <=> e.consumed_at = Nothing
      BY <3>1, SameMoment
    <3>3. QED
      BY <1>3, <2>1, <3>2 DEF ConsumeHit, CanConsume
  <2>2. QED
    BY <2>1
<1>5. \A a, b \in bk[t] : a.token_hash = b.token_hash => a = b
  <2>1. \A a, b \in bk[t] : a.token_hash = b.token_hash => SameKey(a, b, {"token_hash"})
    BY DEF SameKey, Equal
  <2>2. QED
    BY <1>1, <2>1, OneEntity
<1>6. hit \subseteq db[t]
  BY DEF ConsumeHit
<1> DEFINE Consumes(s) == [db |-> [db EXCEPT ![t] = (@ \ hit) \cup {s}], value |-> TokenRead(p, s), error |-> "none"]
<1>9. /\ new = {} => reply = [db |-> db, value |-> Nothing, error |-> "none"]
      /\ \A s : new = {s} => reply = Consumes(s)
  <2>1. hit = ConsumeHit(p, db, hash, now) /\ new = ConsumeNew(p, hit, at)
    OBVIOUS
  <2> HIDE DEF hit, new
  <2>2. /\ new = {} => ConsumeCall(p, db, hash, now, at) = [db |-> db, value |-> Nothing, error |-> "none"]
        /\ \A s : new = {s} =>
             ConsumeCall(p, db, hash, now, at)
               = [db |-> [db EXCEPT !["agent_enrollment_tokens"] = (@ \ hit) \cup {s}], value |-> TokenRead(p, s),
                  error |-> "none"]
    BY <2>1, ConsumeIs
  <2>3. QED
    BY <2>2
<1> HIDE DEF Consumes
<1>7. CASE \A e \in bk[t] : ~ CanConsume(p, e, hash, now)
  <2>1. hit = {}
    BY <1>1, <1>4, <1>6, <1>7, RowOf
  <2>2. new = {}
    BY <2>1 DEF ConsumeNew
  <2>3. reply = [db |-> db, value |-> Nothing, error |-> "none"]
    BY <2>2, <1>9
  <2>4. QED
    BY <1>7, <2>3
<1>8. ASSUME NEW e \in bk[t], CanConsume(p, e, hash, now)
      PROVE  /\ reply.error = "none" /\ reply.value = Back(p, Consumed(e, at))
             /\ Inv(p, reply.db, PutIn(bk, t, Consumed(e, at)))
             /\ \A o \in bk[t] : o.token_hash = hash => o = e
  <2>0. \A o \in bk[t] : o.token_hash = hash => o = e
    BY <1>5, <1>8 DEF CanConsume
  <2>1. PICK r \in db[t] : hit = {r} /\ Keeps(p, r, e)
    <3>1. \A r \in db[t] : \A o \in bk[t] : Keeps(p, r, o) => (r \in hit <=> o = e)
      BY <1>4, <1>8, <2>0 DEF CanConsume
    <3>2. QED
      BY <1>1, <1>6, <1>8, <3>1, OneRow
  <2> DEFINE s == [r EXCEPT !.consumed_at = Moment(p, at)]
             f == Consumed(e, at)
  <2>2. new = {s}
    BY <2>1 DEF ConsumeNew
  <2>3. /\ e \in Entities(t) /\ WellFormed(t, e) /\ Valid(t, e) /\ IsRecord(e) /\ DOMAIN e = Columns(t)
        /\ IsRecord(r) /\ DOMAIN r = Columns(t)
    BY <1>1, <1>8, <2>1, RowOf DEF Keeps
  <2>4. Keeps(p, s, f)
    <3>1. IsRecord(s) /\ DOMAIN s = DOMAIN r /\ DOMAIN f = DOMAIN e
      BY <2>3 DEF IsRecord, Columns, Consumed
    <3>2. \A c \in DOMAIN e \ {"consumed_at"} : s[c] = r[c] /\ f[c] = e[c]
      BY <2>3 DEF Consumed
    <3>3. In(p, "consumed_at", at) = Moment(p, at)
      BY InTime DEF TimeColumns
    <3>4. s["consumed_at"] = Moment(p, at) /\ f["consumed_at"] = at
      BY <2>3 DEF Columns, Consumed
    <3>5. \A c \in DOMAIN e : (s[c] = r[c] /\ f[c] = e[c]) \/ (c # "probe_json" /\ s[c] = In(p, c, f[c]))
      BY <3>2, <3>3, <3>4
    <3>6. QED
      BY <2>1, <3>1, <3>5, KeepsChanged
  <2>5. WellFormed(t, f) /\ Valid(t, f)
    BY <2>3 DEF WellFormed, Valid, Entities, Consumed, Maybe
  <2>6. \A key \in KeysOf(t) : \A c \in key : f[c] = e[c] \/ (c = "recovered_at" /\ f.recovered_at # Nothing)
    BY <2>3 DEF KeysOf, Unique, PrimaryKey, Consumed, Columns
  <2> HIDE DEF s, f
  <2>7. /\ Inv(p, PutRow(db, t, s), PutIn(bk, t, f)) /\ Equal(r, s, PrimaryKey(t))
        /\ Replied(db, t, {r}, {s}) = [db |-> PutRow(db, t, s), value |-> TRUE, error |-> "none"]
    <3>1. /\ Inv(p, db, bk) /\ t \in TableNames /\ r \in db[t] /\ e \in bk[t] /\ Keeps(p, r, e)
          /\ WellFormed(t, f) /\ Valid(t, f) /\ Keeps(p, s, f)
          /\ \A key \in KeysOf(t) : \A c \in key : f[c] = e[c] \/ (c = "recovered_at" /\ f.recovered_at # Nothing)
      BY <1>1, <1>8, <2>1, <2>4, <2>5, <2>6
    <3>2. QED
      BY <3>1, ReplacedOne
  <2>8. [db EXCEPT ![t] = (@ \ {r}) \cup {s}] = PutRow(db, t, s)
    BY <1>1, <2>1, <2>7, PutInstead DEF Inv
  <2>9. reply = [db |-> [db EXCEPT ![t] = (@ \ hit) \cup {s}], value |-> TokenRead(p, s), error |-> "none"]
    BY <2>2, <1>9 DEF Consumes
  <2>10. TokenRead(p, s) = Back(p, f)
    BY <2>4, <2>5, TokenBack DEF TokenRead, Profiles
  <2>11. reply.error = "none" /\ reply.value = Back(p, f) /\ reply.db = PutRow(db, t, s)
    BY <2>1, <2>8, <2>9, <2>10
  <2>12. QED
    BY <2>0, <2>7, <2>11 DEF f
<1>10. QED
  BY <1>7, <1>8

-----------------------------------------------------------------------------
\* Claiming a run.
FreeAgent(db, agent, location) ==
  \E a \in db["agents"] : a.id = agent /\ a.location_id = location /\ a.revoked_at = Null

ClaimOpen(p, db, agent, capabilities, now) ==
  {r \in db["check_runs"] :
     /\ FreeAgent(db, agent, r.location_id)
     /\ \/ r.status = "available"
        \/ r.status = "leased" /\ Rank(p, r.lease_expires_at) <= Rank(p, Moment(p, now))
     /\ Rank(p, r.scheduled_for) <= Rank(p, Moment(p, now))
     /\ r.probe_kind \in capabilities}

Earlier(p, r, s) ==
  \/ Rank(p, r.scheduled_for) < Rank(p, s.scheduled_for)
  \/ Rank(p, r.scheduled_for) = Rank(p, s.scheduled_for) /\ r.id < s.id

ClaimHit(p, db, agent, capabilities, now) ==
  {r \in db["check_runs"] : /\ r \in ClaimOpen(p, db, agent, capabilities, now)
                            /\ \A s \in ClaimOpen(p, db, agent, capabilities, now) : ~ Earlier(p, s, r)}

Lease(p, r, agent, hash, expires) ==
  [r EXCEPT !.status = "leased", !.lease_agent_id = agent, !.lease_token_hash = hash,
            !.lease_attempt = @ + 1, !.lease_expires_at = Moment(p, expires)]

ClaimNew(p, hit, agent, hash, expires) == {Lease(p, r, agent, hash, expires) : r \in hit}

ClaimParams(agent, hash, expires, now, capabilities) ==
  [agent_id |-> agent, lease_token_hash |-> hash, lease_expires_at |-> expires, now |-> now,
   capabilities |-> capabilities]

\* The database with some rows of a table in the place of others.
Replaced(db, t, hit, new) == [db EXCEPT ![t] = (@ \ hit) \cup new]

LEMMA ClaimIs ==
  ASSUME NEW p \in Profiles, NEW db, IsFiniteSet(db["check_runs"]), NEW agent \in Int, NEW hash, NEW capabilities,
         NEW now \in Nat, NEW expires \in Nat,
         NEW hit, hit = ClaimHit(p, db, agent, capabilities, now), NEW new, new = ClaimNew(p, hit, agent, hash, expires)
  PROVE  /\ new = {} => ClaimCall(p, db, ClaimParams(agent, hash, expires, now, capabilities))
              = [db |-> Replaced(db, "check_runs", hit, new), value |-> Nothing, error |-> "not_found"]
         /\ \A s : (\A x : x \in new <=> x = s) /\ Lite!RunReadable(s) /\ Pg!RunReadable(s) =>
              ClaimCall(p, db, ClaimParams(agent, hash, expires, now, capabilities))
                = [db |-> Replaced(db, "check_runs", hit, new), value |-> RunRead(p, s), error |-> "none"]
<1>1. now # Nothing /\ expires # Nothing /\ agent # Nothing
  BY NatIsSome, IntIsSome
<1>2. \A s : (CHOOSE x \in {s} : TRUE) = s
  OBVIOUS
<1> DEFINE open == ClaimOpen(p, db, agent, capabilities, now)
           after == [db EXCEPT !["check_runs"] = (@ \ hit) \cup new]
           params == ClaimParams(agent, hash, expires, now, capabilities)
<1>3. IsFiniteSet(open)
  BY FS_Subset DEF ClaimOpen
<1>4. \A S \in SUBSET open : Cardinality(S) < 1 <=> S = {}
  BY <1>3, FS_Subset, FS_EmptySet, FS_CardinalityType
<1>5. CASE p = "lite"
  <2> DEFINE q == [agent_id |-> agent, lease_token_hash |-> hash, lease_expires_at |-> Lite!FormatTime(expires),
                   now |-> Lite!FormatTime(now), capabilities |-> capabilities]
             answer == Lite!ClaimProbeRun(db, q)
             free == {r \in db["check_runs"] :
                        /\ \E a \in db["agents"] : a.id = q.agent_id /\ a.location_id = r.location_id /\
                               a.revoked_at = Null
                        /\ (r.status = "available" \/ (r.status = "leased" /\
                               Lite!Julian(r.lease_expires_at) <= Lite!Julian(q.now)))
                        /\ Lite!Julian(r.scheduled_for) <= Lite!Julian(q.now)
                        /\ r.probe_kind \in q.capabilities}
             before(r) == {s \in free : Lite!Lexicographic(<<Lite!Julian(s.scheduled_for), s.id>>,
                 <<Lite!Julian(r.scheduled_for), r.id>>)}
             first == {r \in free : Lite!Cardinality(before(r)) < 1}
             chosen == {r \in db["check_runs"] : r \in first}
             leased == {[r EXCEPT !.status = "leased", !.lease_agent_id = q.agent_id,
                                  !.lease_token_hash = q.lease_token_hash,
                                  !.lease_attempt = @ + 1, !.lease_expires_at = q.lease_expires_at] : r \in chosen}
  <2>0. /\ q.agent_id = agent /\ q.lease_token_hash = hash /\ q.capabilities = capabilities
        /\ q.lease_expires_at = Moment(p, expires) /\ Lite!Julian(q.now) = Rank(p, Moment(p, now))
        /\ \A x : Lite!Julian(x) = Rank(p, x)
    BY <1>1, <1>5 DEF Rank, Moment
  <2>1. answer = Lite!One(Lite!Answer([db EXCEPT !["check_runs"] = (@ \ chosen) \cup leased], leased))
    <3> HIDE DEF q
    <3>1. QED
      BY DEF Lite!ClaimProbeRun, Lite!Update, Lite!First
  <2>5. ClaimCall(p, db, params) = Lite!Found(answer, Lite!RunReadable, Lite!MapRun)
    <3> DEFINE f == [params EXCEPT !.agent_id = Lite!NullableString(@), !.lease_expires_at = Lite!NullableTimeValue(@),
                                  !.now = Lite!NullableTimeValue(@)]
    <3>1. IsRecord(f) /\ IsRecord(q) /\ DOMAIN f = DOMAIN q
      BY DEF IsRecord, ClaimParams
    <3>2. /\ f["agent_id"] = agent /\ f["lease_token_hash"] = hash /\ f["capabilities"] = capabilities
          /\ f["lease_expires_at"] = Lite!FormatTime(expires) /\ f["now"] = Lite!FormatTime(now)
      BY <1>1 DEF ClaimParams, Lite!NullableString, Lite!NullableTimeValue
    <3>3. /\ q["agent_id"] = agent /\ q["lease_token_hash"] = hash /\ q["capabilities"] = capabilities
          /\ q["lease_expires_at"] = Lite!FormatTime(expires) /\ q["now"] = Lite!FormatTime(now)
          /\ DOMAIN q = {"agent_id", "lease_token_hash", "capabilities", "lease_expires_at", "now"}
      OBVIOUS
    <3>4. ClaimCall(p, db, params) = Lite!Found(Lite!ClaimProbeRun(db, f), Lite!RunReadable, Lite!MapRun)
      BY <1>5 DEF ClaimCall, Lite!RunsClaimProbe
    <3> HIDE DEF f, q
    <3>5. f = q
      BY <3>1, <3>2, <3>3, SameRecord
    <3>6. QED
      BY <3>4, <3>5
  <2> HIDE DEF q, answer
  <2>2. free = open
    BY <2>0 DEF ClaimOpen, FreeAgent
  <2>3. chosen = hit
    <3>1. \A r, s : Lite!Lexicographic(<<Lite!Julian(s.scheduled_for), s.id>>, <<Lite!Julian(r.scheduled_for),
              r.id>>) <=> Earlier(p, s, r)
      BY <1>5, PairOrder DEF Earlier, Rank
    <3> HIDE DEF open, free
    <3>2. \A r : before(r) \in SUBSET open
      BY <2>2
    <3>3. \A r : Lite!Cardinality(before(r)) < 1 <=> before(r) = {}
      <4> HIDE DEF before
      <4> QED
        BY <1>4, <3>2, SameCardinality
    <3>4. \A r : before(r) = {} <=> \A s \in open : ~ Earlier(p, s, r)
      BY <2>2, <3>1
    <3> HIDE DEF before
    <3>5. hit = {r \in db["check_runs"] : r \in open /\ \A s \in open : ~ Earlier(p, s, r)}
      BY DEF ClaimHit, open
    <3>6. QED
      BY <2>2, <3>3, <3>4, <3>5
  <2> HIDE DEF chosen
  <2>4. leased = new /\ answer = Lite!One(Lite!Answer(after, new))
    <3>1. leased = new
      BY <2>0, <2>3 DEF ClaimNew, Lease
    <3> HIDE DEF leased
    <3>2. QED
      BY <2>1, <2>3, <3>1
  <2> HIDE DEF after, params
  <2>6. ASSUME new = {} PROVE ClaimCall(p, db, params) = [db |-> after, value |-> Nothing, error |-> "not_found"]
    <3>1. answer = [db |-> after, rows |-> {}, error |-> "no_rows"]
      BY <2>4, <2>6, OneMissing
    <3>2. QED
      BY <2>5, <3>1 DEF Lite!Found, Lite!Wrote, Lite!Reply, Lite!RepositoryError
  <2>7. ASSUME NEW s, new = {s}, Lite!RunReadable(s)
        PROVE  ClaimCall(p, db, params) = [db |-> after, value |-> RunRead(p, s), error |-> "none"]
    <3>1. answer = [db |-> after, rows |-> {s}, error |-> "none"]
      BY <2>4, <2>7, OneFound
    <3>2. QED
      BY <1>2, <1>5, <2>5, <2>7, <3>1 DEF Lite!Found, Lite!Reply, Lite!RepositoryError, RunRead
  <2>8. \A s : (\A x : x \in new <=> x = s) => new = {s}
    OBVIOUS
  <2>9. QED
    BY <2>6, <2>7, <2>8 DEF after, params, Replaced
<1>6. CASE p = "pg"
  <2> DEFINE q == [agent_id |-> agent, lease_token_hash |-> hash, lease_expires_at |-> Pg!FormatTime(expires),
                   now |-> Pg!FormatTime(now), capabilities |-> capabilities]
             answer == Pg!ClaimProbeRun(db, q)
             free == {r \in db["check_runs"] :
                        /\ \E a \in db["agents"] : a.id = q.agent_id /\ a.location_id = r.location_id /\
                               a.revoked_at = Null
                        /\ (r.status = "available" \/ (r.status = "leased" /\ r.lease_expires_at <= q.now))
                        /\ r.scheduled_for <= q.now
                        /\ r.probe_kind \in q.capabilities}
             before(r) == {s \in free : Pg!Lexicographic(<<s.scheduled_for, s.id>>, <<r.scheduled_for, r.id>>)}
             first == {r \in free : Pg!Cardinality(before(r)) < 1}
             chosen == {r \in db["check_runs"] : r \in first}
             leased == {[r EXCEPT !.status = "leased", !.lease_agent_id = q.agent_id,
                                  !.lease_token_hash = q.lease_token_hash,
                                  !.lease_attempt = @ + 1, !.lease_expires_at = q.lease_expires_at] : r \in chosen}
  <2>0. /\ q.agent_id = agent /\ q.lease_token_hash = hash /\ q.capabilities = capabilities
        /\ q.lease_expires_at = Moment(p, expires) /\ q.now = Rank(p, Moment(p, now))
        /\ \A x : x = Rank(p, x)
    BY <1>1, <1>6 DEF Rank, Moment
  <2>1. answer = Pg!One(Pg!Answer([db EXCEPT !["check_runs"] = (@ \ chosen) \cup leased], leased))
    <3> HIDE DEF q
    <3>1. QED
      BY DEF Pg!ClaimProbeRun, Pg!Update, Pg!First
  <2>5. ClaimCall(p, db, params) = Pg!Found(answer, Pg!RunReadable, Pg!MapRun)
    <3> DEFINE f == [params EXCEPT !.agent_id = Pg!NullableString(@), !.lease_expires_at = Pg!NullableTimeValue(@),
                                  !.now = Pg!NullableTimeValue(@)]
    <3>1. IsRecord(f) /\ IsRecord(q) /\ DOMAIN f = DOMAIN q
      BY DEF IsRecord, ClaimParams
    <3>2. /\ f["agent_id"] = agent /\ f["lease_token_hash"] = hash /\ f["capabilities"] = capabilities
          /\ f["lease_expires_at"] = Pg!FormatTime(expires) /\ f["now"] = Pg!FormatTime(now)
      BY <1>1 DEF ClaimParams, Pg!NullableString, Pg!NullableTimeValue
    <3>3. /\ q["agent_id"] = agent /\ q["lease_token_hash"] = hash /\ q["capabilities"] = capabilities
          /\ q["lease_expires_at"] = Pg!FormatTime(expires) /\ q["now"] = Pg!FormatTime(now)
          /\ DOMAIN q = {"agent_id", "lease_token_hash", "capabilities", "lease_expires_at", "now"}
      OBVIOUS
    <3>4. ClaimCall(p, db, params) = Pg!Found(Pg!ClaimProbeRun(db, f), Pg!RunReadable, Pg!MapRun)
      BY <1>6 DEF ClaimCall, Pg!RunsClaimProbe
    <3> HIDE DEF f, q
    <3>5. f = q
      BY <3>1, <3>2, <3>3, SameRecord
    <3>6. QED
      BY <3>4, <3>5
  <2> HIDE DEF q, answer
  <2>2. free = open
    BY <2>0 DEF ClaimOpen, FreeAgent
  <2>3. chosen = hit
    <3>1. \A r, s : Pg!Lexicographic(<<s.scheduled_for, s.id>>, <<r.scheduled_for, r.id>>) <=> Earlier(p, s, r)
      BY <1>6, PairOrder DEF Earlier, Rank
    <3> HIDE DEF open, free
    <3>2. \A r : before(r) \in SUBSET open
      BY <2>2
    <3>3. \A r : Pg!Cardinality(before(r)) < 1 <=> before(r) = {}
      <4> HIDE DEF before
      <4> QED
        BY <1>4, <3>2, SameCardinality
    <3>4. \A r : before(r) = {} <=> \A s \in open : ~ Earlier(p, s, r)
      BY <2>2, <3>1
    <3> HIDE DEF before
    <3>5. hit = {r \in db["check_runs"] : r \in open /\ \A s \in open : ~ Earlier(p, s, r)}
      BY DEF ClaimHit, open
    <3>6. QED
      BY <2>2, <3>3, <3>4, <3>5
  <2> HIDE DEF chosen
  <2>4. leased = new /\ answer = Pg!One(Pg!Answer(after, new))
    <3>1. leased = new
      BY <2>0, <2>3 DEF ClaimNew, Lease
    <3> HIDE DEF leased
    <3>2. QED
      BY <2>1, <2>3, <3>1
  <2> HIDE DEF after, params
  <2>6. ASSUME new = {} PROVE ClaimCall(p, db, params) = [db |-> after, value |-> Nothing, error |-> "not_found"]
    <3>1. answer = [db |-> after, rows |-> {}, error |-> "no_rows"]
      BY <2>4, <2>6, OneMissing
    <3>2. QED
      BY <2>5, <3>1 DEF Pg!Found, Pg!Wrote, Pg!Reply, Pg!RepositoryError
  <2>7. ASSUME NEW s, new = {s}, Pg!RunReadable(s)
        PROVE  ClaimCall(p, db, params) = [db |-> after, value |-> RunRead(p, s), error |-> "none"]
    <3>1. answer = [db |-> after, rows |-> {s}, error |-> "none"]
      BY <2>4, <2>7, OneFound
    <3>2. QED
      BY <1>2, <1>6, <2>5, <2>7, <3>1 DEF Pg!Found, Pg!Reply, Pg!RepositoryError, RunRead
  <2>8. \A s : (\A x : x \in new <=> x = s) => new = {s}
    OBVIOUS
  <2>9. QED
    BY <2>6, <2>7, <2>8 DEF after, params, Replaced
<1>7. QED
  BY <1>5, <1>6 DEF Profiles

LEMMA ClaimNone ==
  ASSUME NEW p \in Profiles, NEW db, IsFiniteSet(db["check_runs"]), NEW agent \in Int, NEW hash, NEW capabilities,
         NEW now \in Nat, NEW expires \in Nat, ClaimHit(p, db, agent, capabilities, now) = {}
  PROVE  ClaimCall(p, db, ClaimParams(agent, hash, expires, now, capabilities))
           = [db |-> Replaced(db, "check_runs", {}, {}), value |-> Nothing, error |-> "not_found"]
<1>1. ClaimNew(p, {}, agent, hash, expires) = {}
  BY DEF ClaimNew
<1>2. QED
  BY <1>1, ClaimIs

Leased(r, agent, hash, expires) ==
  [r EXCEPT !.status = "leased", !.lease_agent_id = agent, !.lease_token_hash = hash,
            !.lease_attempt = @ + 1, !.lease_expires_at = expires]

\* Which runs an agent may take, and which of them comes first, in the book.
CanClaim(p, bk, e, agent, capabilities, now) ==
  /\ \E a \in bk["agents"] : a.id = agent /\ a.location_id = e.location_id /\ a.revoked_at = Nothing
  /\ \/ e.status = "available"
     \/ e.status = "leased" /\ Rank(p, Moment(p, e.lease_expires_at)) <= Rank(p, Moment(p, now))
  /\ Rank(p, Moment(p, e.scheduled_for)) <= Rank(p, Moment(p, now))
  /\ e.probe_kind \in capabilities

Sooner(p, e, f) ==
  \/ Rank(p, Moment(p, e.scheduled_for)) < Rank(p, Moment(p, f.scheduled_for))
  \/ Rank(p, Moment(p, e.scheduled_for)) = Rank(p, Moment(p, f.scheduled_for)) /\ e.id < f.id

FirstClaim(p, bk, e, agent, capabilities, now) ==
  /\ CanClaim(p, bk, e, agent, capabilities, now)
  /\ \A o \in bk["check_runs"] : CanClaim(p, bk, o, agent, capabilities, now) => ~ Sooner(p, o, e)

LEMMA RunTyped ==
  ASSUME NEW f, IsRecord(f), DOMAIN f = Columns("check_runs"), f.id \in Int, f.monitor_id \in Int,
      f.location_id \in Int,
         f.scheduled_for \in Nat, f.probe_json \in ProbeJSON, f.probe_kind \in Kinds, f.timeout_ms \in Nat,
         f.status \in {"available", "leased", "resolved"}, f.lease_agent_id \in Maybe(Int),
         f.lease_token_hash \in Maybe(Nat), f.lease_attempt \in Nat, f.lease_expires_at \in Maybe(Nat),
         f.resolved_at \in Maybe(Nat)
  PROVE  f \in Entities("check_runs")
<1>1. DOMAIN f = {"id", "monitor_id", "location_id", "scheduled_for", "probe_json", "probe_kind", "timeout_ms",
          "status",
                  "lease_agent_id", "lease_token_hash", "lease_attempt", "lease_expires_at", "resolved_at"}
  BY DEF Columns
<1>2. f \in [id : Int, monitor_id : Int, location_id : Int, scheduled_for : Nat, probe_json : ProbeJSON, probe_kind : Kinds,
             timeout_ms : Nat, status : {"available", "leased", "resolved"}, lease_agent_id : Maybe(Int),
             lease_token_hash : Maybe(Nat), lease_attempt : Nat, lease_expires_at : Maybe(Nat),
                 resolved_at : Maybe(Nat)]
  BY <1>1 DEF IsRecord
<1>3. QED
  BY <1>2 DEF Entities

LEMMA AgentIsFree ==
  ASSUME NEW p \in Profiles, NEW db, NEW bk, Inv(p, db, bk), NEW agent, NEW location
  PROVE  FreeAgent(db, agent, location)
           <=> \E a \in bk["agents"] : a.id = agent /\ a.location_id = location /\ a.revoked_at = Nothing
<1>1. "agents" \in TableNames
  BY DEF TableNames
<1>2. \A r \in db["agents"] : \A e \in bk["agents"] : Keeps(p, r, e) =>
         r.id = e.id /\ r.location_id = e.location_id /\ r.revoked_at = Moment(p, e.revoked_at)
  <2>1. /\ {"id", "location_id"} \subseteq (PlainColumns \ {"probe_json"}) \cap Columns("agents")
        /\ "revoked_at" \in TimeColumns \cap Columns("agents")
    BY DEF PlainColumns, TimeColumns, Columns
  <2>2. QED
    BY <1>1, <2>1, ColumnsKept
<1>3. \A e \in bk["agents"] : Moment(p, e.revoked_at) = Null <=> e.revoked_at = Nothing
  <2>1. ASSUME NEW e \in bk["agents"] PROVE Moment(p, e.revoked_at) = Null <=> e.revoked_at = Nothing
    <3>1. e.revoked_at \in Maybe(Nat)
      BY <1>1, <2>1, RowOf DEF Entities
    <3>2. QED
      BY <3>1, SameMoment
  <2>2. QED
    BY <2>1
<1>4. /\ \A r \in db["agents"] : \E e \in bk["agents"] : Keeps(p, r, e)
      /\ \A e \in bk["agents"] : \E r \in db["agents"] : Keeps(p, r, e)
  BY <1>1, RowOf
<1>5. QED
  BY <1>2, <1>3, <1>4 DEF FreeAgent

\* A claim takes the first run that the agent may take, and returns it.
LEMMA Claiming ==
  ASSUME NEW p \in Profiles, NEW db, NEW bk, Inv(p, db, bk), NEW agent \in Int, NEW hash \in Nat,
         NEW capabilities, NEW now \in Nat, NEW expires \in Nat,
         NEW reply, reply = ClaimCall(p, db, ClaimParams(agent, hash, expires, now, capabilities))
  PROVE  /\ (\A e \in bk["check_runs"] : ~ FirstClaim(p, bk, e, agent, capabilities, now))
              => reply.error = "not_found" /\ reply.db = db
         /\ \A e \in bk["check_runs"] : FirstClaim(p, bk, e, agent, capabilities, now) =>
              /\ reply.error = "none" /\ reply.value = Back(p, Leased(e, agent, hash, expires))
              /\ Inv(p, reply.db, PutIn(bk, "check_runs", Leased(e, agent, hash, expires)))
<1> DEFINE t == "check_runs"
           open == ClaimOpen(p, db, agent, capabilities, now)
           hit == ClaimHit(p, db, agent, capabilities, now)
           new == ClaimNew(p, hit, agent, hash, expires)
           May(e) == CanClaim(p, bk, e, agent, capabilities, now)
           Takes(e) == FirstClaim(p, bk, e, agent, capabilities, now)
           params == ClaimParams(agent, hash, expires, now, capabilities)
<1>1. t \in TableNames /\ PrimaryKey(t) = {"id"}
  BY DEF TableNames, PrimaryKey
<1>0. hit = ClaimHit(p, db, agent, capabilities, now) /\ new = ClaimNew(p, hit, agent, hash, expires)
  OBVIOUS
<1>2. IsFiniteSet(db["check_runs"])
  BY <1>1, RowsCounted
<1>3. \A r \in db[t] : \A e \in bk[t] : Keeps(p, r, e) =>
         /\ r.id = e.id /\ r.location_id = e.location_id /\ r.status = e.status /\ r.probe_kind = e.probe_kind
         /\ r.lease_expires_at = Moment(p, e.lease_expires_at) /\ r.scheduled_for = Moment(p, e.scheduled_for)
  <2>1. /\ {"id", "location_id", "status", "probe_kind"} \subseteq (PlainColumns \ {"probe_json"}) \cap Columns(t)
        /\ {"lease_expires_at", "scheduled_for"} \subseteq TimeColumns \cap Columns(t)
    BY DEF PlainColumns, TimeColumns, Columns
  <2>2. QED
    BY <1>1, <2>1, ColumnsKept
<1>4. \A r \in db[t] : \A e \in bk[t] : Keeps(p, r, e) => (r \in open <=> May(e))
  <2>1. ASSUME NEW r \in db[t], NEW e \in bk[t], Keeps(p, r, e) PROVE r \in open <=> May(e)
    BY <1>3, <2>1, AgentIsFree DEF ClaimOpen, CanClaim
  <2>2. QED
    BY <2>1
<1>5. \A r, s \in db[t] : \A e, f \in bk[t] : Keeps(p, r, e) /\ Keeps(p, s, f) => (Earlier(p, s, r) <=> Sooner(p, f, e))
  BY <1>3 DEF Earlier, Sooner
<1>6. \A r \in db[t] : \A e \in bk[t] : Keeps(p, r, e) => (r \in hit <=> Takes(e))
  <2>1. ASSUME NEW r \in db[t], NEW e \in bk[t], Keeps(p, r, e) PROVE r \in hit <=> Takes(e)
    <3>0. open \subseteq db[t]
      BY DEF ClaimOpen
    <3>1. (\A s \in open : ~ Earlier(p, s, r)) <=> (\A o \in bk[t] : May(o) => ~ Sooner(p, o, e))
      <4>1. ASSUME NEW s \in open, Earlier(p, s, r) PROVE \E o \in bk[t] : May(o) /\ Sooner(p, o, e)
        <5>1. PICK o \in bk[t] : Keeps(p, s, o)
          BY <1>1, <3>0, RowOf
        <5>2. QED
          BY <1>4, <1>5, <2>1, <3>0, <4>1, <5>1
      <4>2. ASSUME NEW o \in bk[t], May(o), Sooner(p, o, e) PROVE \E s \in open : Earlier(p, s, r)
        <5>1. PICK s \in db[t] : Keeps(p, s, o)
          BY <1>1, RowOf
        <5>2. QED
          BY <1>4, <1>5, <2>1, <4>2, <5>1
      <4>3. QED
        BY <4>1, <4>2
    <3> HIDE DEF open
    <3>2. r \in hit <=> r \in open /\ \A s \in open : ~ Earlier(p, s, r)
      BY DEF ClaimHit, open
    <3>3. QED
      BY <1>4, <2>1, <3>1, <3>2 DEF FirstClaim
  <2>2. QED
    BY <2>1
<1>7. \A e, f \in bk[t] : Takes(e) /\ Takes(f) => e = f
  <2>1. ASSUME NEW e \in bk[t], NEW f \in bk[t], Takes(e), Takes(f) PROVE e = f
    <3>1. ~ Sooner(p, e, f) /\ ~ Sooner(p, f, e)
      BY <2>1 DEF FirstClaim
    <3>2. e.id \in Int /\ f.id \in Int /\ e.scheduled_for \in Nat /\ f.scheduled_for \in Nat
      BY <1>1, RowOf DEF Entities
    <3>3. Rank(p, Moment(p, e.scheduled_for)) \in Nat /\ Rank(p, Moment(p, f.scheduled_for)) \in Nat
      BY <3>2, RankIs
    <3>4. e.id = f.id
      BY <3>1, <3>2, <3>3 DEF Sooner
    <3>5. QED
      BY <1>1, <3>4, RowOf DEF Equal
  <2>2. QED
    BY <2>1
<1>8. hit \subseteq db[t]
  BY DEF ClaimHit
<1>9. CASE \A e \in bk[t] : ~ Takes(e)
  <2>1. hit = {}
    BY <1>1, <1>6, <1>8, <1>9, RowOf
  <2>2. new = {}
    BY <2>1 DEF ClaimNew
  <2>3. ClaimCall(p, db, params) = [db |-> Replaced(db, "check_runs", {}, {}), value |-> Nothing, error |-> "not_found"]
    BY <1>2, <2>1, ClaimNone
  <2>4. Replaced(db, t, {}, {}) = db
    BY <1>1 DEF Inv, StoreInv, Replaced
  <2>5. QED
    BY <1>9, <2>1, <2>2, <2>3, <2>4
<1>10. ASSUME NEW e \in bk[t], Takes(e)
       PROVE  /\ reply.error = "none" /\ reply.value = Back(p, Leased(e, agent, hash, expires))
              /\ Inv(p, reply.db, PutIn(bk, t, Leased(e, agent, hash, expires)))
  <2>1. PICK r \in db[t] : hit = {r} /\ Keeps(p, r, e)
    <3>1. \A r \in db[t] : \A o \in bk[t] : Keeps(p, r, o) => (r \in hit <=> o = e)
      BY <1>6, <1>7, <1>10
    <3>2. QED
      BY <1>1, <1>8, <1>10, <3>1, OneRow
  <2> DEFINE s == Lease(p, r, agent, hash, expires)
             f == Leased(e, agent, hash, expires)
  <2>2. new = {s}
    BY <2>1 DEF ClaimNew
  <2>3. /\ e \in Entities(t) /\ WellFormed(t, e) /\ Valid(t, e) /\ IsRecord(e) /\ DOMAIN e = Columns(t)
        /\ IsRecord(r) /\ DOMAIN r = Columns(t)
    BY <1>1, <1>10, <2>1, RowOf DEF Keeps
  <2>31. r["lease_attempt"] = e["lease_attempt"]
    <3>1. "lease_attempt" \in (PlainColumns \ {"probe_json"}) \cap Columns(t)
      BY DEF PlainColumns, Columns
    <3>2. QED
      BY <1>1, <1>10, <2>1, <3>1, ColumnsKept
  <2>4. Keeps(p, s, f)
    <3>1. IsRecord(s) /\ DOMAIN s = DOMAIN r /\ DOMAIN f = DOMAIN e
      BY <2>3 DEF IsRecord, Columns, Lease, Leased
    <3>2. \A c \in DOMAIN e \ {"status", "lease_agent_id", "lease_token_hash", "lease_attempt", "lease_expires_at"} :
            s[c] = r[c] /\ f[c] = e[c]
      BY <2>3 DEF Lease, Leased
    <3>3. /\ In(p, "status", "leased") = "leased"
          /\ In(p, "lease_agent_id", agent) = agent
          /\ In(p, "lease_token_hash", hash) = hash
          /\ In(p, "lease_attempt", e["lease_attempt"] + 1) = e["lease_attempt"] + 1
          /\ In(p, "lease_expires_at", expires) = Moment(p, expires)
      BY InTime, InPlain, NatIsSome, IntIsSome, InNullable DEF TimeColumns, PlainColumns, NullableColumns
    <3>4. /\ s["status"] = "leased" /\ f["status"] = "leased"
          /\ s["lease_agent_id"] = agent /\ f["lease_agent_id"] = agent
          /\ s["lease_token_hash"] = hash /\ f["lease_token_hash"] = hash
          /\ s["lease_attempt"] = e["lease_attempt"] + 1 /\ f["lease_attempt"] = e["lease_attempt"] + 1
          /\ s["lease_expires_at"] = Moment(p, expires) /\ f["lease_expires_at"] = expires
      BY <2>3, <2>31 DEF Columns, Lease, Leased
    <3>5. \A c \in DOMAIN e : (s[c] = r[c] /\ f[c] = e[c]) \/ (c # "probe_json" /\ s[c] = In(p, c, f[c]))
      BY <3>2, <3>3, <3>4
    <3>6. QED
      BY <2>1, <3>1, <3>5, KeepsChanged
  <2>5. WellFormed(t, f) /\ Valid(t, f)
    <3>1. f \in Entities(t)
      <4>1. IsRecord(f) /\ DOMAIN f = Columns(t)
        BY <2>3 DEF IsRecord, Leased
      <4>2. /\ f.id = e.id /\ f.monitor_id = e.monitor_id /\ f.location_id = e.location_id
            /\ f.scheduled_for = e.scheduled_for /\ f.probe_json = e.probe_json /\ f.probe_kind = e.probe_kind
            /\ f.timeout_ms = e.timeout_ms /\ f.status = "leased" /\ f.lease_agent_id = agent
            /\ f.lease_token_hash = hash /\ f.lease_attempt = e.lease_attempt + 1 /\ f.lease_expires_at = expires
            /\ f.resolved_at = e.resolved_at
        BY <2>3 DEF Leased, Columns
      <4>3. /\ e.id \in Int /\ e.monitor_id \in Int /\ e.location_id \in Int /\ e.scheduled_for \in Nat
            /\ e.probe_json \in ProbeJSON /\ e.probe_kind \in Kinds /\ e.timeout_ms \in Nat /\ e.lease_attempt \in Nat
            /\ e.resolved_at \in Maybe(Nat)
        BY <2>3 DEF Entities
      <4> HIDE DEF f
      <4>4. QED
        BY <4>1, <4>2, <4>3, RunTyped DEF Maybe
    <3>2. f.timeout_ms = e.timeout_ms /\ f.probe_json = e.probe_json /\ f.probe_kind = e.probe_kind /\
              f.lease_expires_at = expires
      BY <2>3 DEF Leased, Columns
    <3>3. expires # Nothing
      BY NatIsSome
    <3>4. QED
      BY <2>3, <3>1, <3>2, <3>3 DEF WellFormed, Valid
  <2>6. \A key \in KeysOf(t) : \A c \in key : f[c] = e[c] \/ (c = "recovered_at" /\ f.recovered_at # Nothing)
    BY <2>3 DEF KeysOf, Unique, PrimaryKey, Leased, Columns
  <2> HIDE DEF s, f
  <2>7. /\ Inv(p, PutRow(db, t, s), PutIn(bk, t, f)) /\ Equal(r, s, PrimaryKey(t))
        /\ Replied(db, t, {r}, {s}) = [db |-> PutRow(db, t, s), value |-> TRUE, error |-> "none"]
    <3>1. /\ Inv(p, db, bk) /\ t \in TableNames /\ r \in db[t] /\ e \in bk[t] /\ Keeps(p, r, e)
          /\ WellFormed(t, f) /\ Valid(t, f) /\ Keeps(p, s, f)
          /\ \A key \in KeysOf(t) : \A c \in key : f[c] = e[c] \/ (c = "recovered_at" /\ f.recovered_at # Nothing)
      BY <1>1, <1>10, <2>1, <2>4, <2>5, <2>6
    <3>2. QED
      BY <3>1, ReplacedOne
  <2>8. Replaced(db, t, {r}, {s}) = PutRow(db, t, s)
    BY <1>1, <2>1, <2>7, PutInstead DEF Inv, Replaced
  <2>9. RunRead(p, s) = Back(p, f) /\ Lite!RunReadable(s) /\ Pg!RunReadable(s)
    BY <2>4, <2>5, RunBack DEF RunRead, Profiles
  <2>10. ClaimCall(p, db, params) = [db |-> Replaced(db, "check_runs", hit, new), value |-> RunRead(p, s),
             error |-> "none"]
    <3> HIDE DEF hit, new
    <3>1. \A x : x \in new <=> x = s
      BY <2>2
    <3>2. QED
      BY <1>0, <1>2, <2>9, <3>1, ClaimIs
  <2>11. reply.error = "none" /\ reply.value = Back(p, f) /\ reply.db = PutRow(db, t, s)
    BY <2>1, <2>2, <2>8, <2>9, <2>10
  <2>12. QED
    BY <2>7, <2>11 DEF f
<1>11. QED
  BY <1>9, <1>10

-----------------------------------------------------------------------------
\* Updating an incident: the statement that recovers it leaves its severity, and
\* both leave the instant of its opening.
UpdateHit(db, id) == {r \in db["incidents"] : r.id = id /\ r.recovered_at = Null}

UpdateRow(p, r, i) ==
  IF i.recovered_at # Nothing
  THEN [r EXCEPT !.state = i.state, !.last_transition_at = Moment(p, i.last_transition_at),
                 !.recovered_at = Moment(p, i.recovered_at)]
  ELSE [r EXCEPT !.state = i.state, !.severity = i.severity, !.last_transition_at = Moment(p, i.last_transition_at)]

UpdateNew(p, hit, i) == {UpdateRow(p, r, i) : r \in hit}

LEMMA UpdateIs ==
  ASSUME NEW p \in Profiles, NEW db, NEW i \in Entities("incidents"),
         NEW hit, hit = UpdateHit(db, i.id), NEW new, new = UpdateNew(p, hit, i)
  PROVE  UpdateCall(p, db, i) =
           IF new = {} THEN [db |-> db, value |-> Nothing, error |-> "conflict"]
           ELSE [db |-> Replaced(db, "incidents", hit, new), value |-> Nothing, error |-> "none"]
<1>1. i.last_transition_at # Nothing
  <2>1. i.last_transition_at \in Nat
    BY DEF Entities
  <2>2. QED
    BY <2>1, NatIsSome
<1>2. CASE p = "lite"
  <2> DEFINE columns == [i EXCEPT !.last_transition_at = Lite!FormatTime(@), !.recovered_at = Lite!NullableTime(@)]
             answer == IF i.recovered_at # Nothing THEN Lite!RecoverIncident(db, columns) ELSE Lite!ChangeIncident(db,
                 columns)
  <2>1. /\ columns.id = i.id /\ columns.state = i.state /\ columns.severity = i.severity
        /\ columns.last_transition_at = Moment(p, i.last_transition_at)
        /\ columns.recovered_at = Moment(p, i.recovered_at)
    BY <1>1, <1>2 DEF Entities, Moment, Lite!NullableTime
  <2>2. UpdateCall(p, db, i) = IF answer.rows = {} THEN Lite!Wrote(Lite!Violation(db)) ELSE Lite!Wrote(answer)
    BY <1>2 DEF UpdateCall, Lite!IncidentsUpdate
  <2> HIDE DEF columns
  <2>3. answer = [db |-> Replaced(db, "incidents", hit, new), rows |-> new, error |-> "none"]
    <3>1. CASE i.recovered_at # Nothing
      <4>1. new = {[r EXCEPT !.state = columns.state, !.last_transition_at = columns.last_transition_at,
                            !.recovered_at = columns.recovered_at] : r \in hit}
        BY <2>1, <3>1 DEF UpdateNew, UpdateRow
      <4>2. QED
        BY <2>1, <3>1, <4>1 DEF Lite!RecoverIncident, Lite!Update, Lite!Answer, Replaced, UpdateHit
    <3>2. CASE i.recovered_at = Nothing
      <4>1. new = {[r EXCEPT !.state = columns.state, !.severity = columns.severity,
                            !.last_transition_at = columns.last_transition_at] : r \in hit}
        BY <2>1, <3>2 DEF UpdateNew, UpdateRow
      <4>2. QED
        BY <2>1, <3>2, <4>1 DEF Lite!ChangeIncident, Lite!Update, Lite!Answer, Replaced, UpdateHit
    <3>3. QED
      BY <3>1, <3>2
  <2> HIDE DEF answer
  <2>4. QED
    BY <2>2, <2>3 DEF Lite!Wrote, Lite!Violation, Lite!Reply, Lite!RepositoryError
<1>3. CASE p = "pg"
  <2> DEFINE columns == [i EXCEPT !.last_transition_at = Pg!FormatTime(@), !.recovered_at = Pg!NullableTime(@)]
             answer == IF i.recovered_at # Nothing THEN Pg!RecoverIncident(db, columns) ELSE Pg!ChangeIncident(db,
                 columns)
  <2>1. /\ columns.id = i.id /\ columns.state = i.state /\ columns.severity = i.severity
        /\ columns.last_transition_at = Moment(p, i.last_transition_at)
        /\ columns.recovered_at = Moment(p, i.recovered_at)
    BY <1>1, <1>3 DEF Entities, Moment, Pg!NullableTime
  <2>2. UpdateCall(p, db, i) = IF answer.rows = {} THEN Pg!Wrote(Pg!Violation(db)) ELSE Pg!Wrote(answer)
    BY <1>3 DEF UpdateCall, Pg!IncidentsUpdate
  <2> HIDE DEF columns
  <2>3. answer = [db |-> Replaced(db, "incidents", hit, new), rows |-> new, error |-> "none"]
    <3>1. CASE i.recovered_at # Nothing
      <4>1. new = {[r EXCEPT !.state = columns.state, !.last_transition_at = columns.last_transition_at,
                            !.recovered_at = columns.recovered_at] : r \in hit}
        BY <2>1, <3>1 DEF UpdateNew, UpdateRow
      <4>2. QED
        BY <2>1, <3>1, <4>1 DEF Pg!RecoverIncident, Pg!Update, Pg!Answer, Replaced, UpdateHit
    <3>2. CASE i.recovered_at = Nothing
      <4>1. new = {[r EXCEPT !.state = columns.state, !.severity = columns.severity,
                            !.last_transition_at = columns.last_transition_at] : r \in hit}
        BY <2>1, <3>2 DEF UpdateNew, UpdateRow
      <4>2. QED
        BY <2>1, <3>2, <4>1 DEF Pg!ChangeIncident, Pg!Update, Pg!Answer, Replaced, UpdateHit
    <3>3. QED
      BY <3>1, <3>2
  <2> HIDE DEF answer
  <2>4. QED
    BY <2>2, <2>3 DEF Pg!Wrote, Pg!Violation, Pg!Reply, Pg!RepositoryError
<1>4. QED
  BY <1>2, <1>3 DEF Profiles

LEMMA IncidentTyped ==
  ASSUME NEW f, IsRecord(f), DOMAIN f = Columns("incidents"), f.id \in Int, f.monitor_id \in Int, f.state \in States,
         f.severity \in Severities, f.opened_at \in Nat, f.last_transition_at \in Nat, f.recovered_at \in Maybe(Nat)
  PROVE  f \in Entities("incidents")
<1>1. DOMAIN f = {"id", "monitor_id", "state", "severity", "opened_at", "last_transition_at", "recovered_at"}
  BY DEF Columns
<1>2. f \in [id : Int, monitor_id : Int, state : States, severity : Severities, opened_at : Nat,
             last_transition_at : Nat, recovered_at : Maybe(Nat)]
  BY <1>1 DEF IsRecord
<1>3. QED
  BY <1>2 DEF Entities

LEMMA UpdatedColumns ==
  ASSUME NEW e \in Entities("incidents"), NEW i \in Entities("incidents"), NEW f, f = Updated(e, i)
  PROVE  /\ IsRecord(f) /\ DOMAIN f = Columns("incidents") /\ f \in Entities("incidents")
         /\ f.id = i.id /\ f.monitor_id = i.monitor_id /\ f.state = i.state /\ f.opened_at = e.opened_at
         /\ f.severity = (IF i.recovered_at = Nothing THEN i.severity ELSE e.severity)
         /\ f.last_transition_at = i.last_transition_at /\ f.recovered_at = i.recovered_at
<1>1. DOMAIN i = Columns("incidents") /\ IsRecord(i)
  BY EntityColumns DEF TableNames
<1>2. IsRecord(f) /\ DOMAIN f = Columns("incidents")
  BY <1>1 DEF IsRecord, Updated
<1>3. /\ f.id = i.id /\ f.monitor_id = i.monitor_id /\ f.state = i.state /\ f.opened_at = e.opened_at
      /\ f.severity = (IF i.recovered_at = Nothing THEN i.severity ELSE e.severity)
      /\ f.last_transition_at = i.last_transition_at /\ f.recovered_at = i.recovered_at
  BY <1>1 DEF Updated, Columns
<1>4. /\ i.id \in Int /\ i.monitor_id \in Int /\ i.state \in States /\ i.severity \in Severities /\ i.opened_at \in Nat
      /\ i.last_transition_at \in Nat /\ i.recovered_at \in Maybe(Nat) /\ e.opened_at \in Nat /\
             e.severity \in Severities
  BY DEF Entities
<1>5. QED
  BY <1>2, <1>3, <1>4, IncidentTyped

\* An incident that is not recovered is updated, and no other.
LEMMA Updating ==
  ASSUME NEW p \in Profiles, NEW db, NEW bk, Inv(p, db, bk), NEW i \in Entities("incidents"),
         NEW reply, reply = UpdateCall(p, db, i)
  PROVE  /\ reply.value = Nothing /\ reply.error \in {"none", "conflict"}
         /\ reply.error # "none" => reply.db = db
         /\ reply.error = "none" <=> \E e \in bk["incidents"] : e.id = i.id /\ e.recovered_at = Nothing
         /\ \A e \in bk["incidents"] : reply.error = "none" /\ e.id = i.id /\ e.monitor_id = i.monitor_id
              => Inv(p, reply.db, PutIn(bk, "incidents", Updated(e, i)))
<1> DEFINE t == "incidents"
           hit == UpdateHit(db, i.id)
           new == UpdateNew(p, hit, i)
<1>1. t \in TableNames /\ PrimaryKey(t) = {"id"}
  BY DEF TableNames, PrimaryKey
<1>2. reply = IF new = {} THEN [db |-> db, value |-> Nothing, error |-> "conflict"]
              ELSE [db |-> Replaced(db, t, hit, new), value |-> Nothing, error |-> "none"]
  BY UpdateIs
<1>3. \A r \in db[t] : \A e \in bk[t] : Keeps(p, r, e) => r.id = e.id /\ r.recovered_at = Moment(p, e.recovered_at)
  <2>1. /\ {"id"} \subseteq (PlainColumns \ {"probe_json"}) \cap Columns(t)
        /\ {"recovered_at"} \subseteq TimeColumns \cap Columns(t)
    BY DEF PlainColumns, TimeColumns, Columns
  <2>2. QED
    BY <1>1, <2>1, ColumnsKept
<1>4. \A r \in db[t] : \A e \in bk[t] : Keeps(p, r, e) => (r \in hit <=> e.id = i.id /\ e.recovered_at = Nothing)
  <2>1. ASSUME NEW r \in db[t], NEW e \in bk[t], Keeps(p, r, e)
            PROVE r \in hit <=> e.id = i.id /\ e.recovered_at = Nothing
    <3>1. e.recovered_at \in Maybe(Nat)
      BY <1>1, <2>1, RowOf DEF Entities
    <3>2. Moment(p, e.recovered_at) = Null <=> e.recovered_at = Nothing
      BY <3>1, SameMoment
    <3>3. QED
      BY <1>3, <2>1, <3>2 DEF UpdateHit
  <2>2. QED
    BY <2>1
<1>5. hit \subseteq db[t] /\ \A r, s \in hit : Equal(r, s, PrimaryKey(t))
  BY <1>1 DEF UpdateHit, Equal
<1>6. CASE hit = {}
  <2>1. new = {}
    BY <1>6 DEF UpdateNew
  <2>2. reply = [db |-> db, value |-> Nothing, error |-> "conflict"]
    BY <1>2, <2>1
  <2>3. ~ \E e \in bk[t] : e.id = i.id /\ e.recovered_at = Nothing
    BY <1>1, <1>4, <1>6, RowOf
  <2>4. QED
    BY <2>2, <2>3
<1>7. CASE hit # {}
  <2>1. PICK r \in db[t], e \in bk[t] : hit = {r} /\ Keeps(p, r, e)
    BY <1>1, <1>5, <1>7, HitOne
  <2> DEFINE s == UpdateRow(p, r, i)
             f == Updated(e, i)
  <2>2. new = {s}
    BY <2>1 DEF UpdateNew
  <2>3. /\ e \in Entities(t) /\ WellFormed(t, e) /\ Valid(t, e) /\ IsRecord(e) /\ DOMAIN e = Columns(t)
        /\ IsRecord(r) /\ DOMAIN r = Columns(t)
    BY <1>1, <2>1, RowOf DEF Keeps
  <2>4. e.id = i.id /\ e.recovered_at = Nothing
    BY <1>4, <2>1
  <2>5. reply = [db |-> Replaced(db, t, {r}, {s}), value |-> Nothing, error |-> "none"]
    BY <1>2, <2>1, <2>2
  <2>6. ASSUME e.monitor_id = i.monitor_id PROVE Inv(p, reply.db, PutIn(bk, t, f))
    <3>1. /\ IsRecord(f) /\ DOMAIN f = Columns(t) /\ f \in Entities(t)
          /\ f.id = i.id /\ f.monitor_id = i.monitor_id /\ f.state = i.state /\ f.opened_at = e.opened_at
          /\ f.severity = (IF i.recovered_at = Nothing THEN i.severity ELSE e.severity)
          /\ f.last_transition_at = i.last_transition_at /\ f.recovered_at = i.recovered_at
      BY <2>3, UpdatedColumns
    <3>2. IsRecord(s) /\ DOMAIN s = Columns(t)
      BY <2>3 DEF IsRecord, UpdateRow
    <3>3. /\ s["id"] = r["id"] /\ s["monitor_id"] = r["monitor_id"] /\ s["state"] = i.state /\
                 s["opened_at"] = r["opened_at"]
          /\ s["severity"] = (IF i.recovered_at = Nothing THEN i.severity ELSE r["severity"])
          /\ s["last_transition_at"] = Moment(p, i.last_transition_at)
          /\ s["recovered_at"] = (IF i.recovered_at = Nothing THEN r["recovered_at"] ELSE Moment(p, i.recovered_at))
      BY <2>3 DEF UpdateRow, Columns
    <3> HIDE DEF s, f
    <3>4. Keeps(p, s, f)
      <4>1. /\ \A v : In(p, "state", v) = v /\ In(p, "severity", v) = v
            /\ \A v : In(p, "last_transition_at", v) = Moment(p, v) /\ In(p, "recovered_at", v) = Moment(p, v)
        BY InTime, InPlain DEF TimeColumns, PlainColumns
      <4>2. r["recovered_at"] = Moment(p, e.recovered_at)
        BY <1>3, <2>1
      <4>3. r["severity"] = e["severity"]
        <5>1. "severity" \in (PlainColumns \ {"probe_json"}) \cap Columns(t)
          BY DEF PlainColumns, Columns
        <5>2. QED
          BY <1>1, <2>1, <5>1, ColumnsKept
      <4>4. \A c \in {"id", "monitor_id", "opened_at"} : s[c] = r[c] /\ f[c] = e[c]
        BY <2>4, <2>6, <3>1, <3>3
      <4>5. \A c \in {"state", "severity", "last_transition_at", "recovered_at"} :
              s[c] = In(p, c, f[c]) /\ c # "probe_json"
        <5>1. s["state"] = In(p, "state", f["state"])
          BY <3>1, <3>3, <4>1
        <5>2. s["severity"] = In(p, "severity", f["severity"])
          BY <3>1, <3>3, <4>1, <4>3
        <5>3. s["last_transition_at"] = In(p, "last_transition_at", f["last_transition_at"])
          BY <3>1, <3>3, <4>1
        <5>4. s["recovered_at"] = In(p, "recovered_at", f["recovered_at"])
          BY <2>4, <3>1, <3>3, <4>1, <4>2
        <5>5. QED
          BY <5>1, <5>2, <5>3, <5>4
      <4>6. DOMAIN e = {"id", "monitor_id", "opened_at"} \cup {"state", "severity", "last_transition_at",
                "recovered_at"}
        BY <2>3 DEF Columns
      <4>7. \A c \in DOMAIN e : (s[c] = r[c] /\ f[c] = e[c]) \/ (c # "probe_json" /\ s[c] = In(p, c, f[c]))
        BY <4>4, <4>5, <4>6
      <4>8. QED
        BY <2>1, <2>3, <3>1, <3>2, <4>7, KeepsChanged
    <3>5. WellFormed(t, f) /\ Valid(t, f)
      BY <3>1 DEF WellFormed, Valid
    <3>6. \A key \in KeysOf(t) : \A c \in key : f[c] = e[c] \/ (c = "recovered_at" /\ f.recovered_at # Nothing)
      BY <2>4, <2>6, <3>1 DEF KeysOf, Unique, PrimaryKey
    <3>7. /\ Inv(p, PutRow(db, t, s), PutIn(bk, t, f)) /\ Equal(r, s, PrimaryKey(t))
          /\ Replied(db, t, {r}, {s}) = [db |-> PutRow(db, t, s), value |-> TRUE, error |-> "none"]
      <4>1. r \in db[t] /\ e \in bk[t] /\ Keeps(p, r, e) /\ t \in TableNames
        BY <1>1, <2>1
      <4>2. QED
        BY <4>1, <3>4, <3>5, <3>6, ReplacedOne
    <3>8. Replaced(db, t, {r}, {s}) = PutRow(db, t, s)
      BY <1>1, <2>1, <3>7, PutInstead DEF Inv, Replaced
    <3>9. QED
      BY <2>5, <3>7, <3>8 DEF s
  <2>7. \A o \in bk[t] : o.id = i.id => o = e
    BY <1>1, <2>4, RowOf DEF Equal
  <2>8. QED
    BY <2>4, <2>5, <2>6, <2>7
<1>8. QED
  BY <1>6, <1>7

-----------------------------------------------------------------------------
\* What a store that keeps the book reads back.
LEMMA BackIs ==
  ASSUME NEW e
  PROVE  /\ Back("pg", e) = Rounded(Stored(e), Micro) /\ Back("lite", e) = Stored(e)
         /\ "latency_ms" \notin DOMAIN e => Stored(e) = e
BY DEF Back, Stored

LEMMA WithoutLatency ==
  ASSUME NEW p, NEW db, NEW bk, Inv(p, db, bk), NEW t \in TableNames \ {"probe_results"}, NEW e \in bk[t]
  PROVE  Stored(e) = e
<1>1. DOMAIN e = Columns(t)
  BY EntityColumns DEF Inv, BookInv, WellFormed
<1>2. "latency_ms" \notin Columns(t)
  BY DEF Columns, TableNames
<1>3. QED
  BY <1>1, <1>2, BackIs

LEMMA LiteReads ==
  ASSUME NEW db, NEW bk, Inv("lite", db, bk)
  PROVE  /\ \A t \in TableNames : Cardinality(db[t]) = Cardinality(bk[t])
         /\ \A a \in bk.admins : Lite!AdminsFindByEmail(db, a.email).value = a
         /\ \A x \in bk.locations : Lite!LocationsGet(db, x.id).value = x
         /\ \A m \in bk.monitors : Lite!MonitorsGet(db, m.id).value = m
         /\ \A a \in bk.agents : Lite!AgentsGet(db, a.id).value = a
         /\ \A r \in bk.check_runs : Lite!RunsGet(db, r.id).value = r
         /\ \A h \in bk.location_health : Lite!HealthGetLocation(db, h.monitor_id, h.location_id).value = h
         /\ \A h \in bk.monitor_health : Lite!HealthGetMonitor(db, h.monitor_id).value = h
         /\ \A r \in bk.probe_results : Lite!ResultsGetByRun(db, r.run_id).value = Stored(r)
         /\ \A i \in bk.incidents : i.recovered_at = Nothing => Lite!IncidentsGetActive(db, i.monitor_id).value = i
<1>0. "lite" \in Profiles
  BY DEF Profiles
<1>1. \A t \in TableNames : Cardinality(db[t]) = Cardinality(bk[t])
  BY <1>0, RowsCounted
<1>2. ASSUME NEW e \in bk["admins"] PROVE Lite!AdminsFindByEmail(db, e.email).value = e
  <2>1. Lite!AdminsFindByEmail(db, e.email).value = Back("lite", e)
    BY <1>0, <1>2, AdminsFindByEmailBack
  <2>2. Stored(e) = e
    BY <1>2, WithoutLatency DEF TableNames
  <2>3. QED
    BY <2>1, <2>2, BackIs
<1>3. ASSUME NEW e \in bk["locations"] PROVE Lite!LocationsGet(db, e.id).value = e
  <2>1. Lite!LocationsGet(db, e.id).value = Back("lite", e)
    BY <1>0, <1>3, LocationsGetBack
  <2>2. Stored(e) = e
    BY <1>3, WithoutLatency DEF TableNames
  <2>3. QED
    BY <2>1, <2>2, BackIs
<1>4. ASSUME NEW e \in bk["monitors"] PROVE Lite!MonitorsGet(db, e.id).value = e
  <2>1. Lite!MonitorsGet(db, e.id).value = Back("lite", e)
    BY <1>0, <1>4, MonitorsGetBack
  <2>2. Stored(e) = e
    BY <1>4, WithoutLatency DEF TableNames
  <2>3. QED
    BY <2>1, <2>2, BackIs
<1>5. ASSUME NEW e \in bk["agents"] PROVE Lite!AgentsGet(db, e.id).value = e
  <2>1. Lite!AgentsGet(db, e.id).value = Back("lite", e)
    BY <1>0, <1>5, AgentsGetBack
  <2>2. Stored(e) = e
    BY <1>5, WithoutLatency DEF TableNames
  <2>3. QED
    BY <2>1, <2>2, BackIs
<1>6. ASSUME NEW e \in bk["check_runs"] PROVE Lite!RunsGet(db, e.id).value = e
  <2>1. Lite!RunsGet(db, e.id).value = Back("lite", e)
    BY <1>0, <1>6, RunsGetBack
  <2>2. Stored(e) = e
    BY <1>6, WithoutLatency DEF TableNames
  <2>3. QED
    BY <2>1, <2>2, BackIs
<1>7. ASSUME NEW e \in bk["location_health"] PROVE Lite!HealthGetLocation(db, e.monitor_id, e.location_id).value = e
  <2>1. Lite!HealthGetLocation(db, e.monitor_id, e.location_id).value = Back("lite", e)
    BY <1>0, <1>7, HealthGetLocationBack
  <2>2. Stored(e) = e
    BY <1>7, WithoutLatency DEF TableNames
  <2>3. QED
    BY <2>1, <2>2, BackIs
<1>8. ASSUME NEW e \in bk["monitor_health"] PROVE Lite!HealthGetMonitor(db, e.monitor_id).value = e
  <2>1. Lite!HealthGetMonitor(db, e.monitor_id).value = Back("lite", e)
    BY <1>0, <1>8, HealthGetMonitorBack
  <2>2. Stored(e) = e
    BY <1>8, WithoutLatency DEF TableNames
  <2>3. QED
    BY <2>1, <2>2, BackIs
<1>9. ASSUME NEW e \in bk["probe_results"] PROVE Lite!ResultsGetByRun(db, e.run_id).value = Stored(e)
  <2>1. Lite!ResultsGetByRun(db, e.run_id).value = Back("lite", e)
    BY <1>0, <1>9, ResultsGetByRunBack
  <2>2. QED
    BY <2>1, BackIs
<1>10. ASSUME NEW e \in bk["incidents"], e.recovered_at = Nothing
           PROVE Lite!IncidentsGetActive(db, e.monitor_id).value = e
  <2>1. Lite!IncidentsGetActive(db, e.monitor_id).value = Back("lite", e)
    BY <1>0, <1>10, IncidentsGetActiveBack
  <2>2. Stored(e) = e
    BY <1>10, WithoutLatency DEF TableNames
  <2>3. QED
    BY <2>1, <2>2, BackIs
<1>11. QED
  BY <1>1, <1>2, <1>3, <1>4, <1>5, <1>6, <1>7, <1>8, <1>9, <1>10

LEMMA PgReads ==
  ASSUME NEW db, NEW bk, Inv("pg", db, bk)
  PROVE  /\ \A t \in TableNames : Cardinality(db[t]) = Cardinality(bk[t])
         /\ \A a \in bk.admins : Pg!AdminsFindByEmail(db, a.email).value = Rounded(a, Micro)
         /\ \A x \in bk.locations : Pg!LocationsGet(db, x.id).value = Rounded(x, Micro)
         /\ \A m \in bk.monitors : Pg!MonitorsGet(db, m.id).value = Rounded(m, Micro)
         /\ \A a \in bk.agents : Pg!AgentsGet(db, a.id).value = Rounded(a, Micro)
         /\ \A r \in bk.check_runs : Pg!RunsGet(db, r.id).value = Rounded(r, Micro)
         /\ \A h \in bk.location_health : Pg!HealthGetLocation(db, h.monitor_id, h.location_id).value = Rounded(h,
                Micro)
         /\ \A h \in bk.monitor_health : Pg!HealthGetMonitor(db, h.monitor_id).value = Rounded(h, Micro)
         /\ \A r \in bk.probe_results : Pg!ResultsGetByID(db, r.id).value = Rounded(Stored(r), Micro)
         /\ \A i \in bk.incidents :
              i.recovered_at = Nothing => Pg!IncidentsGetActive(db, i.monitor_id).value = Rounded(i, Micro)
<1>0. "pg" \in Profiles
  BY DEF Profiles
<1>1. \A t \in TableNames : Cardinality(db[t]) = Cardinality(bk[t])
  BY <1>0, RowsCounted
<1>2. ASSUME NEW e \in bk["admins"] PROVE Pg!AdminsFindByEmail(db, e.email).value = Rounded(e, Micro)
  <2>1. Pg!AdminsFindByEmail(db, e.email).value = Back("pg", e)
    BY <1>0, <1>2, AdminsFindByEmailBack
  <2>2. Stored(e) = e
    BY <1>2, WithoutLatency DEF TableNames
  <2>3. QED
    BY <2>1, <2>2, BackIs
<1>3. ASSUME NEW e \in bk["locations"] PROVE Pg!LocationsGet(db, e.id).value = Rounded(e, Micro)
  <2>1. Pg!LocationsGet(db, e.id).value = Back("pg", e)
    BY <1>0, <1>3, LocationsGetBack
  <2>2. Stored(e) = e
    BY <1>3, WithoutLatency DEF TableNames
  <2>3. QED
    BY <2>1, <2>2, BackIs
<1>4. ASSUME NEW e \in bk["monitors"] PROVE Pg!MonitorsGet(db, e.id).value = Rounded(e, Micro)
  <2>1. Pg!MonitorsGet(db, e.id).value = Back("pg", e)
    BY <1>0, <1>4, MonitorsGetBack
  <2>2. Stored(e) = e
    BY <1>4, WithoutLatency DEF TableNames
  <2>3. QED
    BY <2>1, <2>2, BackIs
<1>5. ASSUME NEW e \in bk["agents"] PROVE Pg!AgentsGet(db, e.id).value = Rounded(e, Micro)
  <2>1. Pg!AgentsGet(db, e.id).value = Back("pg", e)
    BY <1>0, <1>5, AgentsGetBack
  <2>2. Stored(e) = e
    BY <1>5, WithoutLatency DEF TableNames
  <2>3. QED
    BY <2>1, <2>2, BackIs
<1>6. ASSUME NEW e \in bk["check_runs"] PROVE Pg!RunsGet(db, e.id).value = Rounded(e, Micro)
  <2>1. Pg!RunsGet(db, e.id).value = Back("pg", e)
    BY <1>0, <1>6, RunsGetBack
  <2>2. Stored(e) = e
    BY <1>6, WithoutLatency DEF TableNames
  <2>3. QED
    BY <2>1, <2>2, BackIs
<1>7. ASSUME NEW e \in bk["location_health"]
          PROVE Pg!HealthGetLocation(db, e.monitor_id, e.location_id).value = Rounded(e, Micro)
  <2>1. Pg!HealthGetLocation(db, e.monitor_id, e.location_id).value = Back("pg", e)
    BY <1>0, <1>7, HealthGetLocationBack
  <2>2. Stored(e) = e
    BY <1>7, WithoutLatency DEF TableNames
  <2>3. QED
    BY <2>1, <2>2, BackIs
<1>8. ASSUME NEW e \in bk["monitor_health"] PROVE Pg!HealthGetMonitor(db, e.monitor_id).value = Rounded(e, Micro)
  <2>1. Pg!HealthGetMonitor(db, e.monitor_id).value = Back("pg", e)
    BY <1>0, <1>8, HealthGetMonitorBack
  <2>2. Stored(e) = e
    BY <1>8, WithoutLatency DEF TableNames
  <2>3. QED
    BY <2>1, <2>2, BackIs
<1>9. ASSUME NEW e \in bk["probe_results"] PROVE Pg!ResultsGetByID(db, e.id).value = Rounded(Stored(e), Micro)
  <2>1. Pg!ResultsGetByID(db, e.id).value = Back("pg", e)
    BY <1>0, <1>9, ResultsGetByIDBack
  <2>2. QED
    BY <2>1, BackIs
<1>10. ASSUME NEW e \in bk["incidents"], e.recovered_at = Nothing
           PROVE Pg!IncidentsGetActive(db, e.monitor_id).value = Rounded(e, Micro)
  <2>1. Pg!IncidentsGetActive(db, e.monitor_id).value = Back("pg", e)
    BY <1>0, <1>10, IncidentsGetActiveBack
  <2>2. Stored(e) = e
    BY <1>10, WithoutLatency DEF TableNames
  <2>3. QED
    BY <2>1, <2>2, BackIs
<1>11. QED
  BY <1>1, <1>2, <1>3, <1>4, <1>5, <1>6, <1>7, <1>8, <1>9, <1>10

LEMMA BothRead ==
  ASSUME Inv("lite", lite, book), clear => Inv("pg", pg, book)
  PROVE  ReadsBack
<1>1. LiteReadsBack
  BY LiteReads DEF LiteReadsBack
<1>2. PgReadsBack
  BY PgReads DEF PgReadsBack
<1>3. QED
  BY <1>1, <1>2 DEF ReadsBack

-----------------------------------------------------------------------------
\* The fixture.
LEMMA EmptyKept ==
  ASSUME NEW p
  PROVE  Inv(p, Empty, Empty) /\ \A t \in TableNames : Empty[t] = {}
<1>1. /\ \A t \in TableNames : Empty[t] = {} /\ IsFiniteSet(Empty[t])
      /\ Empty = [t \in TableNames |-> Empty[t]]
  BY FS_EmptySet DEF Empty
<1>2. {"monitors", "monitor_locations"} \subseteq TableNames
  BY DEF TableNames
<1>3. BookInv(Empty)
  BY <1>1, <1>2 DEF BookInv
<1>4. StoreInv(p, Empty, Empty)
  BY <1>1 DEF StoreInv
<1>5. QED
  BY <1>1, <1>3, <1>4 DEF Inv

Decoded == [Seed.monitor EXCEPT !.probe_json.kind = "http"]

LEMMA DecodedMonitor ==
  ASSUME NEW p
  PROVE  /\ WellFormed("monitors", Decoded) /\ Valid("monitors", Decoded) /\ Decoded.id = Seed.monitor.id
         /\ IsRecord(Seed.monitor) /\ DOMAIN Seed.monitor = Columns("monitors")
         /\ Seed.monitor.next_run_at # Nothing /\ Seed.monitor.created_at # Nothing /\ Seed.monitor.updated_at # Nothing
         /\ Keeps(p, Row(p, Seed.monitor), Decoded)
<1>1. /\ Decoded \in Entities("monitors") /\ WholeMilliseconds(Decoded) /\ Decoded.timeout_ms < Decoded.interval_ms
      /\ Decoded.timeout_ms > 0 /\ Seed.monitor = [Decoded EXCEPT !.probe_json.kind = Nothing] /\ Decoded.kind = "http"
  BY SeedAssumption DEF Decoded
<1>2. IsRecord(Decoded) /\ DOMAIN Decoded = Columns("monitors")
  BY <1>1, EntityColumns DEF TableNames
<1>3. IsRecord(Seed.monitor) /\ DOMAIN Seed.monitor = Columns("monitors")
  BY <1>1, <1>2 DEF IsRecord
<1>4. \A c \in Columns("monitors") \ {"probe_json"} : Seed.monitor[c] = Decoded[c]
  BY <1>1, <1>2
<1>5. Seed.monitor.probe_json = [Decoded.probe_json EXCEPT !.kind = Nothing]
  BY <1>1, <1>2 DEF Columns
<1>6. Decoded.probe_json = [Seed.monitor.probe_json EXCEPT !.kind = "http"]
  BY <1>3 DEF Decoded, Columns
<1>7. Decoded.probe_json \in ProbeJSON /\ Decoded.next_run_at \in Nat /\ Decoded.created_at \in Nat /\
          Decoded.updated_at \in Nat
  BY <1>1 DEF Entities
<1>8. Decoded.probe_json.kind = "http"
  <2>1. "kind" \in DOMAIN Decoded.probe_json
    BY <1>7 DEF ProbeJSON
  <2>2. DOMAIN Decoded.probe_json = DOMAIN Seed.monitor.probe_json
    BY <1>6
  <2>3. QED
    BY <1>6, <2>1, <2>2
<1>9. WellFormed("monitors", Decoded) /\ Valid("monitors", Decoded)
  BY <1>1, <1>8 DEF WellFormed, Valid
<1>10. /\ Seed.monitor.next_run_at # Nothing /\ Seed.monitor.created_at # Nothing /\ Seed.monitor.updated_at # Nothing
       /\ Decoded.id = Seed.monitor.id
  BY <1>4, <1>7, NatIsSome DEF Columns
<1>11. Keeps(p, Row(p, Seed.monitor), Decoded)
  <2> DEFINE r == Row(p, Seed.monitor)
  <2>1. IsRecord(r) /\ DOMAIN r = DOMAIN Decoded /\ \A c \in Columns("monitors") : r[c] = In(p, c, Seed.monitor[c])
    BY <1>2, <1>3 DEF Row, IsRecord
  <2> HIDE DEF r
  <2>2. \A c \in DOMAIN Decoded \ {"probe_json"} : r[c] = In(p, c, Decoded[c])
    BY <1>2, <1>4, <2>1
  <2>3. r.probe_json = Seed.monitor.probe_json
    BY <2>1, InPlain DEF Columns, PlainColumns
  <2>4. QED
    BY <1>5, <1>8, <2>1, <2>2, <2>3 DEF Keeps, r
<1>12. QED
  BY <1>3, <1>9, <1>10, <1>11

LEMMA PutFirst ==
  ASSUME NEW bk, NEW t \in TableNames, bk = [u \in TableNames |-> bk[u]], bk[t] = {}, NEW e
  PROVE  PutIn(bk, t, e)[t] = {e}
BY PutAt

LEMMA Planting ==
  ASSUME NEW p \in Profiles, NEW db, NEW bk, Inv(p, db, bk), NEW t \in TableNames, NEW e, NEW r,
         WellFormed(t, e), Keeps(p, r, e), t # "check_runs", BookAllows(bk, t, e),
         NEW new, new = Reported(Insert(db, t, r)).db
  PROVE  Inv(p, new, PutIn(bk, t, e))
<1> DEFINE reply == Reported(Insert(db, t, r))
<1>1. reply = Reported(Insert(db, t, r))
  OBVIOUS
<1> HIDE DEF reply
<1>2. /\ reply.value = Nothing /\ reply.error \in {"none", "conflict"}
      /\ reply.error = "none" => Inv(p, reply.db, PutIn(bk, t, e))
      /\ reply.error # "none" => reply.db = db
      /\ t # "check_runs" => (reply.error = "none" <=> BookAllows(bk, t, e))
  BY <1>1, Creating
<1>3. QED
  BY <1>1, <1>2

LEMMA SeedKept ==
  ASSUME NEW p \in Profiles, NEW d1, NEW d2, NEW d3, NEW d4, NEW d5,
         d1 = Reported(Insert(Empty, "locations", Row(p, Seed.location))).db,
         d2 = Reported(Insert(d1, "monitors", Row(p, Seed.monitor))).db,
         d3 = Reported(Upsert(d2, "monitor_locations", Row(p, Seed.assignment))).db,
         d4 = Reported(Insert(d3, "agents", Row(p, Seed.agents[1]))).db,
         d5 = Reported(Insert(d4, "agents", Row(p, Seed.agents[2]))).db
  PROVE  Inv(p, d5, SeedBook)
<1>1. /\ {"locations", "monitors", "monitor_locations", "agents"} \subseteq TableNames
      /\ KeysOf("locations") = {{"name"}, {"id"}} /\ KeysOf("monitors") = {{"name"}, {"id"}}
      /\ KeysOf("monitor_locations") = {{"monitor_id", "location_id"}} /\
             KeysOf("agents") = {{"credential_hash"}, {"id"}}
      /\ PrimaryKey("agents") = {"id"}
  BY DEF TableNames, KeysOf, Unique, PrimaryKey
<1>2. /\ DOMAIN Parents("locations") = {} /\ DOMAIN Parents("monitors") = {}
      /\ Parents("monitor_locations") = [monitor_id |-> "monitors", location_id |-> "locations"]
      /\ Parents("agents") = [location_id |-> "locations"]
  BY DEF Parents
<1>3. /\ WellFormed("locations", Seed.location) /\ WellFormed("monitor_locations", Seed.assignment)
      /\ WellFormed("agents", Seed.agents[1]) /\ WellFormed("agents", Seed.agents[2])
  BY SeedAssumption DEF WellFormed
<1> DEFINE b1 == PutIn(Empty, "locations", Seed.location)
           b2 == PutIn(b1, "monitors", Decoded)
           b3 == PutIn(b2, "monitor_locations", Seed.assignment)
           b4 == PutIn(b3, "agents", Seed.agents[1])
           b5 == PutIn(b4, "agents", Seed.agents[2])
<1>3a. /\ Empty = [t \in TableNames |-> Empty[t]]
       /\ \A t \in TableNames : Empty[t] = {}
  BY DEF Empty
<1>4. /\ b1 = [t \in TableNames |-> b1[t]] /\ b1["locations"] = {Seed.location}
      /\ \A t \in TableNames \ {"locations"} : b1[t] = {}
  BY <1>1, <1>3a, PutAt
<1> HIDE DEF b1
<1>5. /\ b2 = [t \in TableNames |-> b2[t]] /\ b2["monitors"] = {Decoded} /\ b2["locations"] = {Seed.location}
      /\ \A t \in TableNames \ {"locations", "monitors"} : b2[t] = {}
  BY <1>1, <1>4, PutAt
<1> HIDE DEF b2
<1>6. /\ b3 = [t \in TableNames |-> b3[t]] /\ b3["monitor_locations"] = {Seed.assignment}
      /\ b3["monitors"] = {Decoded} /\ b3["locations"] = {Seed.location}
      /\ \A t \in TableNames \ {"locations", "monitors", "monitor_locations"} : b3[t] = {}
  BY <1>1, <1>5, PutAt
<1> HIDE DEF b3
<1>7. /\ b4 = [t \in TableNames |-> b4[t]] /\ b4["monitor_locations"] = {Seed.assignment} /\
             b4["agents"] = {Seed.agents[1]}
      /\ b4["monitors"] = {Decoded} /\ b4["locations"] = {Seed.location}
      /\ \A t \in TableNames \ {"locations", "monitors", "monitor_locations", "agents"} : b4[t] = {}
  BY <1>1, <1>6, PutAt
<1> HIDE DEF b4
<1>8. b5 = SeedBook
  <2>0. /\ b5 = [t \in TableNames |-> b5[t]]
        /\ b5["agents"] = {o \in b4["agents"] : ~ Equal(o, Seed.agents[2], PrimaryKey("agents"))} \cup {Seed.agents[2]}
        /\ \A t \in TableNames \ {"agents"} : b5[t] = b4[t]
    BY <1>1, <1>7, PutAt
  <2>0a. b5["agents"] = {o \in {Seed.agents[1]} : ~ Equal(o, Seed.agents[2], {"id"})} \cup {Seed.agents[2]}
    BY <1>1, <1>7, <2>0
  <2> HIDE DEF b5
  <2>1. /\ b5 = [t \in TableNames |-> b5[t]] /\ b5["monitor_locations"] = {Seed.assignment}
        /\ b5["agents"] = {o \in {Seed.agents[1]} : ~ Equal(o, Seed.agents[2], {"id"})} \cup {Seed.agents[2]}
        /\ b5["monitors"] = {Decoded} /\ b5["locations"] = {Seed.location}
        /\ \A t \in TableNames \ {"locations", "monitors", "monitor_locations", "agents"} : b5[t] = {}
    BY <1>1, <1>7, <2>0, <2>0a
  <2>2. ~ Equal(Seed.agents[1], Seed.agents[2], {"id"})
    BY SeedAssumption DEF Equal
  <2>3. b5["agents"] = {Seed.agents[1], Seed.agents[2]}
    BY <2>1, <2>2
  <2>4. /\ SeedBook = [t \in TableNames |-> SeedBook[t]] /\ SeedBook["monitor_locations"] = {Seed.assignment}
        /\ SeedBook["agents"] = {Seed.agents[1], Seed.agents[2]}
        /\ SeedBook["monitors"] = {Decoded} /\ SeedBook["locations"] = {Seed.location}
        /\ \A t \in TableNames \ {"locations", "monitors", "monitor_locations", "agents"} : SeedBook[t] = {}
    BY <1>1 DEF SeedBook, Empty, Decoded
  <2>5. \A t \in TableNames : b5[t] = SeedBook[t]
    BY <2>1, <2>3, <2>4, ZenonT(60)
  <2>6. QED
    BY <2>1, <2>4, <2>5
<1> HIDE DEF b5
<1>11. Inv(p, d1, b1)
  <2>1. BookAllows(Empty, "locations", Seed.location)
    BY <1>1, <1>2, EmptyKept DEF BookAllows, Valid
  <2>2. Keeps(p, Row(p, Seed.location), Seed.location)
    BY RowKeeps
  <2>3. /\ Inv(p, Empty, Empty) /\ WellFormed("locations", Seed.location) /\
               Keeps(p, Row(p, Seed.location), Seed.location)
        /\ "locations" \in TableNames /\ "locations" # "check_runs"
    BY <1>1, <1>3, <2>2, EmptyKept
  <2>4. Inv(p, d1, PutIn(Empty, "locations", Seed.location))
    BY <2>1, <2>3, Planting
  <2>5. QED
    BY <2>4 DEF b1
<1>12. Inv(p, d2, b2)
  <2>1. BookAllows(b1, "monitors", Decoded)
    BY <1>1, <1>2, <1>4, DecodedMonitor DEF BookAllows
  <2>3. /\ Inv(p, d1, b1) /\ WellFormed("monitors", Decoded) /\ Keeps(p, Row(p, Seed.monitor), Decoded)
        /\ "monitors" \in TableNames /\ "monitors" # "check_runs"
    BY <1>1, <1>11, DecodedMonitor
  <2>4. Inv(p, d2, PutIn(b1, "monitors", Decoded))
    BY <2>1, <2>3, Planting
  <2>5. QED
    BY <2>4 DEF b2
<1>13. Inv(p, d3, b3)
  <2>1. BookUpserts(b2, "monitor_locations", Seed.assignment)
    <3>0. /\ Decoded.id = Seed.assignment.monitor_id /\ Seed.location.id = Seed.assignment.location_id
          /\ Decoded \in b2["monitors"] /\ Seed.location \in b2["locations"] /\ b2["monitor_locations"] = {}
      BY <1>1, <1>5, DecodedMonitor, SeedAssumption
    <3>0a. /\ DOMAIN Parents("monitor_locations") = {"monitor_id", "location_id"}
           /\ Parents("monitor_locations")["monitor_id"] = "monitors"
           /\ Parents("monitor_locations")["location_id"] = "locations"
      BY <1>2
    <3>0b. Valid("monitor_locations", Seed.assignment)
      BY DEF Valid
    <3>1. BookAllows(b2, "monitor_locations", Seed.assignment)
      BY <3>0, <3>0a, <3>0b DEF BookAllows
    <3>2. QED
      BY <3>1 DEF BookUpserts
  <2>2. Keeps(p, Row(p, Seed.assignment), Seed.assignment)
    BY RowKeeps
  <2> DEFINE reply == Reported(Upsert(d2, "monitor_locations", Row(p, Seed.assignment)))
  <2> HIDE DEF reply
  <2>3. /\ reply.error = "none" => Inv(p, reply.db, PutIn(b2, "monitor_locations", Seed.assignment))
        /\ reply.error = "none" <=> BookUpserts(b2, "monitor_locations", Seed.assignment)
    BY <1>1, <1>3, <1>12, <2>2, Upserting DEF reply
  <2>4. QED
    BY <2>1, <2>3 DEF reply, b3
<1>14. Inv(p, d4, b4)
  <2>0. /\ Seed.location.id = Seed.agents[1].location_id /\ Seed.location \in b3["locations"] /\ b3["agents"] = {}
        /\ DOMAIN Parents("agents") = {"location_id"} /\ Parents("agents")["location_id"] = "locations"
    BY <1>1, <1>2, <1>6, SeedAssumption
  <2>0a. Valid("agents", Seed.agents[1])
    BY DEF Valid
  <2>1. BookAllows(b3, "agents", Seed.agents[1])
    BY <2>0, <2>0a DEF BookAllows
  <2>2. Keeps(p, Row(p, Seed.agents[1]), Seed.agents[1])
    BY RowKeeps
  <2>3. /\ Inv(p, d3, b3) /\ WellFormed("agents", Seed.agents[1]) /\ Keeps(p, Row(p, Seed.agents[1]), Seed.agents[1])
        /\ "agents" \in TableNames /\ "agents" # "check_runs"
    BY <1>1, <1>3, <1>13, <2>2
  <2>4. Inv(p, d4, PutIn(b3, "agents", Seed.agents[1]))
    BY <2>1, <2>3, Planting
  <2>5. QED
    BY <2>4 DEF b4
<1>15. Inv(p, d5, b5)
  <2>0. /\ Seed.location.id = Seed.agents[2].location_id /\ Seed.location \in b4["locations"]
        /\ b4["agents"] = {Seed.agents[1]}
        /\ DOMAIN Parents("agents") = {"location_id"} /\ Parents("agents")["location_id"] = "locations"
    BY <1>1, <1>2, <1>7, SeedAssumption
  <2>0a. Valid("agents", Seed.agents[2])
    BY DEF Valid
  <2>0b. \A key \in {{"credential_hash"}, {"id"}} : ~ SameKey(Seed.agents[1], Seed.agents[2], key)
    BY SeedAssumption DEF SameKey, Equal
  <2>1. BookAllows(b4, "agents", Seed.agents[2])
    BY <1>1, <2>0, <2>0a, <2>0b DEF BookAllows
  <2>2. Keeps(p, Row(p, Seed.agents[2]), Seed.agents[2])
    BY RowKeeps
  <2>3. /\ Inv(p, d4, b4) /\ WellFormed("agents", Seed.agents[2]) /\ Keeps(p, Row(p, Seed.agents[2]), Seed.agents[2])
        /\ "agents" \in TableNames /\ "agents" # "check_runs"
    BY <1>1, <1>3, <1>14, <2>2
  <2>4. Inv(p, d5, PutIn(b4, "agents", Seed.agents[2]))
    BY <2>1, <2>3, Planting
  <2>5. QED
    BY <2>4 DEF b5
<1>16. QED
  BY <1>8, <1>15

LEMMA FixtureKept == Inv("lite", SeedLite, SeedBook) /\ Inv("pg", SeedPg, SeedBook)
<1>0. {"lite", "pg"} \subseteq Profiles
  BY DEF Profiles
<1>1. /\ Seed.location \in Entities("locations") /\ Seed.assignment \in Entities("monitor_locations")
      /\ Seed.agents[1] \in Entities("agents") /\ Seed.agents[2] \in Entities("agents")
  BY SeedAssumption
<1>2. /\ IsRecord(Seed.monitor) /\ DOMAIN Seed.monitor = Columns("monitors")
      /\ Seed.monitor.next_run_at # Nothing /\ Seed.monitor.created_at # Nothing /\ Seed.monitor.updated_at # Nothing
  BY DecodedMonitor
<1>3. Inv("lite", SeedLite, SeedBook)
  <2> DEFINE d1 == Lite!LocationsCreate(Empty, Seed.location).db
             d2 == Lite!MonitorsCreate(d1, Seed.monitor).db
             d3 == Lite!MonitorsAssignLocation(d2, Seed.assignment).db
             d4 == Lite!AgentsCreate(d3, Seed.agents[1]).db
             d5 == Lite!AgentsCreate(d4, Seed.agents[2]).db
  <2>1. d1 = Reported(Insert(Empty, "locations", Row("lite", Seed.location))).db
    BY <1>1, LocationsCreateIs
  <2> HIDE DEF d1
  <2>2. d2 = Reported(Insert(d1, "monitors", Row("lite", Seed.monitor))).db
    BY <1>2, MonitorsCreateIs
  <2> HIDE DEF d2
  <2>3. d3 = Reported(Upsert(d2, "monitor_locations", Row("lite", Seed.assignment))).db
    BY <1>1, MonitorsAssignLocationIs
  <2> HIDE DEF d3
  <2>4. d4 = Reported(Insert(d3, "agents", Row("lite", Seed.agents[1]))).db
    BY <1>1, AgentsCreateIs
  <2> HIDE DEF d4
  <2>5. d5 = Reported(Insert(d4, "agents", Row("lite", Seed.agents[2]))).db
    BY <1>1, AgentsCreateIs
  <2> HIDE DEF d5
  <2>6. Inv("lite", d5, SeedBook)
    BY <1>0, <2>1, <2>2, <2>3, <2>4, <2>5, SeedKept
  <2>7. SeedLite = d5
    BY DEF SeedLite, d1, d2, d3, d4, d5
  <2>8. QED
    BY <2>6, <2>7
<1>4. Inv("pg", SeedPg, SeedBook)
  <2> DEFINE d1 == Pg!LocationsCreate(Empty, Seed.location).db
             d2 == Pg!MonitorsCreate(d1, Seed.monitor).db
             d3 == Pg!MonitorsAssignLocation(d2, Seed.assignment).db
             d4 == Pg!AgentsCreate(d3, Seed.agents[1]).db
             d5 == Pg!AgentsCreate(d4, Seed.agents[2]).db
  <2>1. d1 = Reported(Insert(Empty, "locations", Row("pg", Seed.location))).db
    BY <1>1, LocationsCreateIs
  <2> HIDE DEF d1
  <2>2. d2 = Reported(Insert(d1, "monitors", Row("pg", Seed.monitor))).db
    BY <1>2, MonitorsCreateIs
  <2> HIDE DEF d2
  <2>3. d3 = Reported(Upsert(d2, "monitor_locations", Row("pg", Seed.assignment))).db
    BY <1>1, MonitorsAssignLocationIs
  <2> HIDE DEF d3
  <2>4. d4 = Reported(Insert(d3, "agents", Row("pg", Seed.agents[1]))).db
    BY <1>1, AgentsCreateIs
  <2> HIDE DEF d4
  <2>5. d5 = Reported(Insert(d4, "agents", Row("pg", Seed.agents[2]))).db
    BY <1>1, AgentsCreateIs
  <2> HIDE DEF d5
  <2>6. Inv("pg", d5, SeedBook)
    BY <1>0, <2>1, <2>2, <2>3, <2>4, <2>5, SeedKept
  <2>7. SeedPg = d5
    BY DEF SeedPg, d1, d2, d3, d4, d5
  <2>8. QED
    BY <2>6, <2>7
<1>5. QED
  BY <1>3, <1>4

-----------------------------------------------------------------------------
(***************************************************************************)
(* Calls.  SQLite always keeps the book; PostgreSQL keeps some book, and   *)
(* the same one for as long as the instants compared are apart.            *)
(***************************************************************************)
StoreOK ==
  /\ Inv("lite", lite, book)
  /\ \E bk : Inv("pg", pg, bk)
  /\ clear => Inv("pg", pg, book)
  /\ agree

LEMMA ValueCalled ==
  ASSUME StoreOK, NEW l, NEW p, NEW gap, NEW instants, NEW after,
         Called(l, p, SameReply(l, p, SameValue), gap, instants, after),
         Inv("lite", l.db, after), \E bk : Inv("pg", p.db, bk),
         clear /\ Apart(gap, instants \cup Deadlines) => SameReply(l, p, SameValue) /\ Inv("pg", p.db, after)
  PROVE  StoreOK'
<1>1. /\ lite' = l.db /\ pg' = p.db /\ book' = after
      /\ clear' = (clear /\ Apart(gap, instants \cup Deadlines))
      /\ agree' = (agree /\ (clear' => SameReply(l, p, SameValue)))
  BY DEF Called
<1>2. Inv("lite", lite', book')
  BY <1>1
<1>3. \E bk : Inv("pg", pg', bk)
  BY <1>1
<1>4. clear' => Inv("pg", pg', book')
  BY <1>1
<1>5. agree'
  BY <1>1 DEF StoreOK
<1>6. QED
  BY <1>2, <1>3, <1>4, <1>5 DEF StoreOK

LEMMA EntityCalled ==
  ASSUME StoreOK, NEW l, NEW p, NEW gap, NEW instants, NEW after,
         Called(l, p, SameReply(l, p, SameEntity), gap, instants, after),
         Inv("lite", l.db, after), \E bk : Inv("pg", p.db, bk),
         clear /\ Apart(gap, instants \cup Deadlines) => SameReply(l, p, SameEntity) /\ Inv("pg", p.db, after)
  PROVE  StoreOK'
<1>1. /\ lite' = l.db /\ pg' = p.db /\ book' = after
      /\ clear' = (clear /\ Apart(gap, instants \cup Deadlines))
      /\ agree' = (agree /\ (clear' => SameReply(l, p, SameEntity)))
  BY DEF Called
<1>2. Inv("lite", lite', book')
  BY <1>1
<1>3. \E bk : Inv("pg", pg', bk)
  BY <1>1
<1>4. clear' => Inv("pg", pg', book')
  BY <1>1
<1>5. agree'
  BY <1>1 DEF StoreOK
<1>6. QED
  BY <1>2, <1>3, <1>4, <1>5 DEF StoreOK

LEMMA PutIsPutIn == \A t, e : Put(t, e) = PutIn(book, t, e)
BY DEF Put, PutIn

LEMMA WriteKeeps ==
  ASSUME StoreOK, NEW l, NEW p, NEW t, NEW e, Write(l, p, t, e),
         l.value = Nothing, p.value = Nothing,
         l.error = "none" => Inv("lite", l.db, PutIn(book, t, e)), l.error # "none" => l.db = lite,
         \E bk : Inv("pg", p.db, bk),
         Inv("pg", pg, book) => /\ l.error = p.error
                                /\ p.error = "none" => Inv("pg", p.db, PutIn(book, t, e))
                                /\ p.error # "none" => p.db = pg
  PROVE  StoreOK'
<1> DEFINE after == IF l.error = "none" THEN Put(t, e) ELSE book
<1>1. Called(l, p, SameReply(l, p, SameValue), Milli, {}, after)
  BY DEF Write
<1>2. Inv("lite", l.db, after)
  BY PutIsPutIn DEF StoreOK
<1>3. clear /\ Apart(Milli, {} \cup Deadlines) => SameReply(l, p, SameValue) /\ Inv("pg", p.db, after)
  BY PutIsPutIn DEF StoreOK, SameReply, SameValue
<1> HIDE DEF after
<1>4. QED
  BY <1>1, <1>2, <1>3, ValueCalled

LEMMA ChangeKeeps ==
  ASSUME StoreOK, NEW l, NEW p, NEW gap, NEW instants, NEW t, NEW e, Change(l, p, gap, instants, t, e),
         l.value \in BOOLEAN, p.value \in BOOLEAN, l.error # "none" => ~ l.value,
         l.value => Inv("lite", l.db, PutIn(book, t, e)), ~ l.value => l.db = lite,
         \E bk : Inv("pg", p.db, bk),
         clear /\ Apart(gap, instants \cup Deadlines) /\ Inv("pg", pg, book) =>
             /\ l.error = p.error /\ (l.value <=> p.value)
             /\ p.value => Inv("pg", p.db, PutIn(book, t, e))
             /\ ~ p.value => p.db = pg
  PROVE  StoreOK'
<1> DEFINE after == IF l.error = "none" /\ l.value THEN Put(t, e) ELSE book
<1>1. Called(l, p, SameReply(l, p, SameValue), gap, instants, after)
  BY DEF Change
<1>0. after = IF l.value THEN PutIn(book, t, e) ELSE book
  BY PutIsPutIn
<1>2. Inv("lite", l.db, after)
  BY <1>0 DEF StoreOK
<1> HIDE DEF after
<1>3. ASSUME clear /\ Apart(gap, instants \cup Deadlines) PROVE SameReply(l, p, SameValue) /\ Inv("pg", p.db, after)
  <2>1. Inv("pg", pg, book)
    BY <1>3 DEF StoreOK
  <2>2. /\ l.error = p.error /\ (l.value <=> p.value)
        /\ p.value => Inv("pg", p.db, PutIn(book, t, e))
        /\ ~ p.value => p.db = pg
    BY <2>1, <1>3
  <2>3. l.value = p.value
    BY <2>2
  <2>4. SameReply(l, p, SameValue)
    BY <2>2, <2>3 DEF SameReply, SameValue
  <2>5. Inv("pg", p.db, after)
    BY <1>0, <2>1, <2>2
  <2>6. QED
    BY <2>4, <2>5
<1>4. QED
  BY <1>1, <1>2, <1>3, ValueCalled

\* Inserting an entity, and putting one in the place of another.
LEMMA CreateKeeps ==
  ASSUME StoreOK, NEW t \in TableNames, t # "check_runs", NEW e, WellFormed(t, e), NEW l, NEW p,
         l = Reported(Insert(lite, t, Row("lite", e))), p = Reported(Insert(pg, t, Row("pg", e))), Write(l, p, t, e)
  PROVE  StoreOK'
<1>1. "lite" \in Profiles /\ "pg" \in Profiles /\ Keeps("lite", Row("lite", e), e) /\ Keeps("pg", Row("pg", e), e)
  BY RowKeeps DEF Profiles
<1>2. /\ l.value = Nothing /\ l.error \in {"none", "conflict"}
      /\ l.error = "none" => Inv("lite", l.db, PutIn(book, t, e))
      /\ l.error # "none" => l.db = lite
      /\ t # "check_runs" => (l.error = "none" <=> BookAllows(book, t, e))
  BY <1>1, Creating DEF StoreOK
<1>3. ASSUME NEW bk, Inv("pg", pg, bk)
      PROVE  /\ p.value = Nothing /\ p.error \in {"none", "conflict"}
             /\ p.error = "none" => Inv("pg", p.db, PutIn(bk, t, e))
             /\ p.error # "none" => p.db = pg
             /\ t # "check_runs" => (p.error = "none" <=> BookAllows(bk, t, e))
  BY <1>1, <1>3, Creating
<1>4. PICK bk : Inv("pg", pg, bk)
  BY DEF StoreOK
<1>5. p.value = Nothing /\ \E kept : Inv("pg", p.db, kept)
  BY <1>3, <1>4
<1>6. Inv("pg", pg, book) => /\ l.error = p.error
                             /\ p.error = "none" => Inv("pg", p.db, PutIn(book, t, e))
                             /\ p.error # "none" => p.db = pg
  BY <1>2, <1>3
<1>7. QED
  BY <1>2, <1>5, <1>6, WriteKeeps

LEMMA UpsertKeeps ==
  ASSUME StoreOK, NEW t \in {"monitor_locations", "location_health", "monitor_health"}, NEW e, WellFormed(t, e),
         NEW l, NEW p, Write(l, p, t, e),
         \/ l = Reported(Upsert(lite, t, Row("lite", e))) /\ p = Reported(Upsert(pg, t, Row("pg", e)))
         \/ l = Lite!Wrapped(Upsert(lite, t, Row("lite", e))) /\ p = Lite!Wrapped(Upsert(pg, t, Row("pg", e)))
  PROVE  StoreOK'
<1>1. "lite" \in Profiles /\ "pg" \in Profiles /\ Keeps("lite", Row("lite", e), e) /\ Keeps("pg", Row("pg", e), e)
  BY RowKeeps DEF Profiles
<1>2. /\ l.value = Nothing
      /\ l.error = "none" => Inv("lite", l.db, PutIn(book, t, e))
      /\ l.error # "none" => l.db = lite
      /\ l.error = "none" <=> BookUpserts(book, t, e)
  BY <1>1, Upserting DEF StoreOK
<1>3. ASSUME NEW bk, Inv("pg", pg, bk)
      PROVE  /\ p.value = Nothing
             /\ p.error = "none" => Inv("pg", p.db, PutIn(bk, t, e))
             /\ p.error # "none" => p.db = pg
             /\ p.error = "none" <=> BookUpserts(bk, t, e)
  BY <1>1, <1>3, Upserting
<1>4. PICK bk : Inv("pg", pg, bk)
  BY DEF StoreOK
<1>5. p.value = Nothing /\ \E kept : Inv("pg", p.db, kept)
  BY <1>3, <1>4
<1>6. (l.error = "none" <=> p.error = "none") => l.error = p.error
  BY UpsertErrors
<1>7. Inv("pg", pg, book) => /\ l.error = p.error
                             /\ p.error = "none" => Inv("pg", p.db, PutIn(book, t, e))
                             /\ p.error # "none" => p.db = pg
  BY <1>2, <1>3, <1>6
<1>8. QED
  BY <1>2, <1>5, <1>7, WriteKeeps

\* Instants that are apart.
LEMMA DeadlineIs ==
  ASSUME NEW u \in TableNames, NEW o \in book[u], NEW d \in DeadlineColumns \cap DOMAIN o, o[d] # Nothing
  PROVE  o[d] \in Deadlines
<1>1. o \in UNION {book[t] : t \in TableNames}
  OBVIOUS
<1>2. o[d] \in UNION {{e[c] : c \in DeadlineColumns \cap DOMAIN e} : e \in UNION {book[t] : t \in TableNames}}
  BY <1>1
<1>3. QED
  BY <1>2 DEF Deadlines

LEMMA ApartIs ==
  ASSUME NEW gap \in Nat, NEW S, Apart(gap, S), NEW s \in S, NEW t \in S, s \in Nat, t \in Nat
  PROVE  s = t \/ s + gap <= t \/ t + gap <= s
<1>1. s = t \/ s - t >= gap \/ t - s >= gap
  BY DEF Apart
<1>2. QED
  BY <1>1

-----------------------------------------------------------------------------
\* The steps, one lemma to a family of repositories.
LEMMA NewIsWellFormed ==
  ASSUME NEW t \in TableNames \ {"check_runs"}, NEW e \in New[t]
  PROVE  e \in Entities(t) /\ WellFormed(t, e)
<1>1. e \in Entities(t)
  BY EntityAssumption
<1>2. t = "monitors" => WholeMilliseconds(e) /\ e.probe_json.kind = e.kind
  BY EntityAssumption
<1>3. QED
  BY <1>1, <1>2 DEF WellFormed

LEMMA AdminsCreateKeeps ==
  ASSUME StoreOK, NEW e \in New.admins, Write(Lite!AdminsCreate(lite, e), Pg!AdminsCreate(pg, e), "admins", e)
  PROVE  StoreOK'
<1>1. "admins" \in TableNames \ {"check_runs"} /\ e \in New["admins"]
  BY DEF TableNames
<1>2. e \in Entities("admins") /\ WellFormed("admins", e)
  BY <1>1, NewIsWellFormed
<1> DEFINE l == Lite!AdminsCreate(lite, e)
           p == Pg!AdminsCreate(pg, e)
<1>3. l = Reported(Insert(lite, "admins", Row("lite", e))) /\ p = Reported(Insert(pg, "admins", Row("pg", e)))
  BY <1>2, AdminsCreateIs
<1>4. Write(l, p, "admins", e)
  OBVIOUS
<1> HIDE DEF l, p
<1>5. QED
  BY <1>1, <1>2, <1>3, <1>4, CreateKeeps

LEMMA SessionsCreateKeeps ==
  ASSUME StoreOK, NEW e \in New.sessions, Write(Lite!SessionsCreate(lite, e), Pg!SessionsCreate(pg, e), "sessions", e)
  PROVE  StoreOK'
<1>1. "sessions" \in TableNames \ {"check_runs"} /\ e \in New["sessions"]
  BY DEF TableNames
<1>2. e \in Entities("sessions") /\ WellFormed("sessions", e)
  BY <1>1, NewIsWellFormed
<1> DEFINE l == Lite!SessionsCreate(lite, e)
           p == Pg!SessionsCreate(pg, e)
<1>3. l = Reported(Insert(lite, "sessions", Row("lite", e))) /\ p = Reported(Insert(pg, "sessions", Row("pg", e)))
  BY <1>2, SessionsCreateIs
<1>4. Write(l, p, "sessions", e)
  OBVIOUS
<1> HIDE DEF l, p
<1>5. QED
  BY <1>1, <1>2, <1>3, <1>4, CreateKeeps

LEMMA LocationsCreateKeeps ==
  ASSUME StoreOK, NEW e \in New.locations, Write(Lite!LocationsCreate(lite, e), Pg!LocationsCreate(pg, e), "locations",
      e)
  PROVE  StoreOK'
<1>1. "locations" \in TableNames \ {"check_runs"} /\ e \in New["locations"]
  BY DEF TableNames
<1>2. e \in Entities("locations") /\ WellFormed("locations", e)
  BY <1>1, NewIsWellFormed
<1> DEFINE l == Lite!LocationsCreate(lite, e)
           p == Pg!LocationsCreate(pg, e)
<1>3. l = Reported(Insert(lite, "locations", Row("lite", e))) /\ p = Reported(Insert(pg, "locations", Row("pg", e)))
  BY <1>2, LocationsCreateIs
<1>4. Write(l, p, "locations", e)
  OBVIOUS
<1> HIDE DEF l, p
<1>5. QED
  BY <1>1, <1>2, <1>3, <1>4, CreateKeeps

LEMMA MonitorsAssignLocationKeeps ==
  ASSUME StoreOK, NEW e \in New.monitor_locations, Write(Lite!MonitorsAssignLocation(lite, e),
      Pg!MonitorsAssignLocation(pg, e), "monitor_locations", e)
  PROVE  StoreOK'
<1>1. "monitor_locations" \in TableNames \ {"check_runs"} /\ e \in New["monitor_locations"]
  BY DEF TableNames
<1>2. e \in Entities("monitor_locations") /\ WellFormed("monitor_locations", e)
  BY <1>1, NewIsWellFormed
<1> DEFINE l == Lite!MonitorsAssignLocation(lite, e)
           p == Pg!MonitorsAssignLocation(pg, e)
<1>3. l = Reported(Upsert(lite, "monitor_locations", Row("lite", e))) /\
          p = Reported(Upsert(pg, "monitor_locations", Row("pg", e)))
  BY <1>2, MonitorsAssignLocationIs
<1>4. Write(l, p, "monitor_locations", e)
  OBVIOUS
<1> HIDE DEF l, p
<1>5. QED
  BY <1>1, <1>2, <1>3, <1>4, UpsertKeeps

LEMMA AgentsCreateKeeps ==
  ASSUME StoreOK, NEW e \in New.agents, Write(Lite!AgentsCreate(lite, e), Pg!AgentsCreate(pg, e), "agents", e)
  PROVE  StoreOK'
<1>1. "agents" \in TableNames \ {"check_runs"} /\ e \in New["agents"]
  BY DEF TableNames
<1>2. e \in Entities("agents") /\ WellFormed("agents", e)
  BY <1>1, NewIsWellFormed
<1> DEFINE l == Lite!AgentsCreate(lite, e)
           p == Pg!AgentsCreate(pg, e)
<1>3. l = Reported(Insert(lite, "agents", Row("lite", e))) /\ p = Reported(Insert(pg, "agents", Row("pg", e)))
  BY <1>2, AgentsCreateIs
<1>4. Write(l, p, "agents", e)
  OBVIOUS
<1> HIDE DEF l, p
<1>5. QED
  BY <1>1, <1>2, <1>3, <1>4, CreateKeeps

LEMMA AgentsCreateEnrollmentTokenKeeps ==
  ASSUME StoreOK, NEW e \in New.agent_enrollment_tokens, Write(Lite!AgentsCreateEnrollmentToken(lite, e),
      Pg!AgentsCreateEnrollmentToken(pg, e), "agent_enrollment_tokens", e)
  PROVE  StoreOK'
<1>1. "agent_enrollment_tokens" \in TableNames \ {"check_runs"} /\ e \in New["agent_enrollment_tokens"]
  BY DEF TableNames
<1>2. e \in Entities("agent_enrollment_tokens") /\ WellFormed("agent_enrollment_tokens", e)
  BY <1>1, NewIsWellFormed
<1> DEFINE l == Lite!AgentsCreateEnrollmentToken(lite, e)
           p == Pg!AgentsCreateEnrollmentToken(pg, e)
<1>3. l = Reported(Insert(lite, "agent_enrollment_tokens", Row("lite", e))) /\
          p = Reported(Insert(pg, "agent_enrollment_tokens", Row("pg", e)))
  BY <1>2, AgentsCreateEnrollmentTokenIs, EntityAssumption
<1>4. Write(l, p, "agent_enrollment_tokens", e)
  OBVIOUS
<1> HIDE DEF l, p
<1>5. QED
  BY <1>1, <1>2, <1>3, <1>4, CreateKeeps

LEMMA IncidentsAppendEventKeeps ==
  ASSUME StoreOK, NEW e \in New.incident_events, Write(Lite!IncidentsAppendEvent(lite, e), Pg!IncidentsAppendEvent(pg,
      e), "incident_events", e)
  PROVE  StoreOK'
<1>1. "incident_events" \in TableNames \ {"check_runs"} /\ e \in New["incident_events"]
  BY DEF TableNames
<1>2. e \in Entities("incident_events") /\ WellFormed("incident_events", e)
  BY <1>1, NewIsWellFormed
<1> DEFINE l == Lite!IncidentsAppendEvent(lite, e)
           p == Pg!IncidentsAppendEvent(pg, e)
<1>3. l = Reported(Insert(lite, "incident_events", Row("lite", e))) /\
          p = Reported(Insert(pg, "incident_events", Row("pg", e)))
  BY <1>2, IncidentsAppendEventIs
<1>4. Write(l, p, "incident_events", e)
  OBVIOUS
<1> HIDE DEF l, p
<1>5. QED
  BY <1>1, <1>2, <1>3, <1>4, CreateKeeps

LEMMA HealthUpsertLocationKeeps ==
  ASSUME StoreOK, NEW e \in New.location_health, Write(Lite!HealthUpsertLocation(lite, e), Pg!HealthUpsertLocation(pg,
      e), "location_health", e)
  PROVE  StoreOK'
<1>1. "location_health" \in TableNames \ {"check_runs"} /\ e \in New["location_health"]
  BY DEF TableNames
<1>2. e \in Entities("location_health") /\ WellFormed("location_health", e)
  BY <1>1, NewIsWellFormed
<1> DEFINE l == Lite!HealthUpsertLocation(lite, e)
           p == Pg!HealthUpsertLocation(pg, e)
<1>3. l = Lite!Wrapped(Upsert(lite, "location_health", Row("lite", e))) /\
          p = Lite!Wrapped(Upsert(pg, "location_health", Row("pg", e)))
  BY <1>2, HealthUpsertLocationIs
<1>4. Write(l, p, "location_health", e)
  OBVIOUS
<1> HIDE DEF l, p
<1>5. QED
  BY <1>1, <1>2, <1>3, <1>4, UpsertKeeps

LEMMA HealthUpsertMonitorKeeps ==
  ASSUME StoreOK, NEW e \in New.monitor_health, Write(Lite!HealthUpsertMonitor(lite, e), Pg!HealthUpsertMonitor(pg, e),
      "monitor_health", e)
  PROVE  StoreOK'
<1>1. "monitor_health" \in TableNames \ {"check_runs"} /\ e \in New["monitor_health"]
  BY DEF TableNames
<1>2. e \in Entities("monitor_health") /\ WellFormed("monitor_health", e)
  BY <1>1, NewIsWellFormed
<1> DEFINE l == Lite!HealthUpsertMonitor(lite, e)
           p == Pg!HealthUpsertMonitor(pg, e)
<1>3. l = Lite!Wrapped(Upsert(lite, "monitor_health", Row("lite", e))) /\
          p = Lite!Wrapped(Upsert(pg, "monitor_health", Row("pg", e)))
  BY <1>2, HealthUpsertMonitorIs
<1>4. Write(l, p, "monitor_health", e)
  OBVIOUS
<1> HIDE DEF l, p
<1>5. QED
  BY <1>1, <1>2, <1>3, <1>4, UpsertKeeps

LEMMA MonitorsCreateKeeps ==
  ASSUME StoreOK, NEW e \in New.monitors, Write(Lite!MonitorsCreate(lite, e), Pg!MonitorsCreate(pg, e), "monitors", e)
  PROVE  StoreOK'
<1>1. "monitors" \in TableNames \ {"check_runs"} /\ e \in New["monitors"]
  BY DEF TableNames
<1>2. e \in Entities("monitors") /\ WellFormed("monitors", e)
  BY <1>1, NewIsWellFormed
<1> DEFINE l == Lite!MonitorsCreate(lite, e)
           p == Pg!MonitorsCreate(pg, e)
<1>2a. /\ IsRecord(e) /\ DOMAIN e = Columns("monitors")
       /\ e.next_run_at # Nothing /\ e.created_at # Nothing /\ e.updated_at # Nothing
  <2>1. e.next_run_at \in Nat /\ e.created_at \in Nat /\ e.updated_at \in Nat
    BY <1>2 DEF Entities
  <2>2. QED
    BY <1>1, <1>2, <2>1, EntityColumns, NatIsSome
<1>3. l = Reported(Insert(lite, "monitors", Row("lite", e))) /\ p = Reported(Insert(pg, "monitors", Row("pg", e)))
  BY <1>2a, MonitorsCreateIs
<1>4. Write(l, p, "monitors", e)
  OBVIOUS
<1> HIDE DEF l, p
<1>5. QED
  BY <1>1, <1>2, <1>3, <1>4, CreateKeeps

LEMMA IncidentsOpenKeeps ==
  ASSUME StoreOK, NEW i \in New.incidents, NEW e, e = [i EXCEPT !.recovered_at = Nothing],
         Write(Lite!IncidentsOpen(lite, i), Pg!IncidentsOpen(pg, i), "incidents", e)
  PROVE  StoreOK'
<1>1. "incidents" \in TableNames \ {"check_runs"} /\ i \in New["incidents"]
  BY DEF TableNames
<1>2. i \in Entities("incidents")
  BY <1>1, NewIsWellFormed
<1>3. e \in Entities("incidents")
  BY <1>2 DEF Entities, Maybe
<1>4. WellFormed("incidents", e)
  BY <1>3 DEF WellFormed
<1> DEFINE l == Lite!IncidentsOpen(lite, i)
           p == Pg!IncidentsOpen(pg, i)
<1>5. l = Reported(Insert(lite, "incidents", Row("lite", e))) /\ p = Reported(Insert(pg, "incidents", Row("pg", e)))
  BY <1>2, IncidentsOpenIs
<1>6. Write(l, p, "incidents", e)
  OBVIOUS
<1> HIDE DEF l, p
<1>7. QED
  BY <1>1, <1>4, <1>5, <1>6, CreateKeeps

LEMMA AccessKeeps == ASSUME StoreOK, Access PROVE StoreOK'
BY AdminsCreateKeeps, SessionsCreateKeeps DEF Access

-----------------------------------------------------------------------------
\* The calls that change a row.
LEMMA AdvanceKeeps ==
  ASSUME StoreOK, NEW m \in book.monitors, NEW next \in Instants,
         Change(Lite!MonitorsAdvanceNextRun(lite, m.id, next, next), Pg!MonitorsAdvanceNextRun(pg, m.id, next, next),
             Base * Milli, {next}, "monitors",
                [m EXCEPT !.next_run_at = next, !.updated_at = next])
  PROVE  StoreOK'
<1>0. "lite" \in Profiles /\ "pg" \in Profiles
  BY DEF Profiles
<1>1. m \in book["monitors"] /\ next \in Nat /\ "monitors" \in TableNames /\ Base * Milli \in Nat
  BY ConformanceAssumption, Units DEF TableNames, Milli
<1> DEFINE l == Lite!MonitorsAdvanceNextRun(lite, m.id, next, next)
           p == Pg!MonitorsAdvanceNextRun(pg, m.id, next, next)
<1>2. l = AdvanceCall("lite", lite, m.id, next, next) /\ p = AdvanceCall("pg", pg, m.id, next, next)
  BY DEF AdvanceCall
<1>3. Change(l, p, Base * Milli, {next}, "monitors", AdvancedTo(m, next, next))
  BY DEF AdvancedTo
<1> HIDE DEF l, p
<1>4. /\ l.error = "none" /\ l.value \in BOOLEAN
      /\ ~ l.value => l.db = lite
      /\ l.value <=> \E e \in book["monitors"] : e.id = m.id /\
             RowSooner("lite", Moment("lite", e.next_run_at), Moment("lite", next))
      /\ \A e \in book["monitors"] : l.value /\ e.id = m.id
           => Inv("lite", l.db, PutIn(book, "monitors", AdvancedTo(e, next, next)))
  <2>1. AdvancingAnswers("lite", lite, book, m.id, next, next, l)
    BY <1>0, <1>1, <1>2, Advancing DEF StoreOK
  <2>2. QED
    BY <2>1 DEF AdvancingAnswers
<1>5. ASSUME NEW bk, Inv("pg", pg, bk)
      PROVE  /\ p.error = "none" /\ p.value \in BOOLEAN
             /\ ~ p.value => p.db = pg
             /\ p.value <=> \E e \in bk["monitors"] : e.id = m.id /\
                    RowSooner("pg", Moment("pg", e.next_run_at), Moment("pg", next))
             /\ \A e \in bk["monitors"] : p.value /\ e.id = m.id
                  => Inv("pg", p.db, PutIn(bk, "monitors", AdvancedTo(e, next, next)))
  <2>1. AdvancingAnswers("pg", pg, bk, m.id, next, next, p)
    BY <1>0, <1>1, <1>2, <1>5, Advancing
  <2>2. QED
    BY <2>1 DEF AdvancingAnswers
<1>6. PICK bk : Inv("pg", pg, bk)
  BY DEF StoreOK
<1>7. p.error = "none" /\ p.value \in BOOLEAN /\ \E kept : Inv("pg", p.db, kept)
  BY <1>5, <1>6
<1>8. ASSUME Apart(Base * Milli, {next} \cup Deadlines), Inv("pg", pg, book)
      PROVE  l.value <=> p.value
  <2>1. ASSUME NEW e \in book["monitors"]
        PROVE  RowSooner("lite", Moment("lite", e.next_run_at), Moment("lite", next))
                 <=> RowSooner("pg", Moment("pg", e.next_run_at), Moment("pg", next))
    <3>1. e \in Entities("monitors") /\ DOMAIN e = Columns("monitors")
      BY <1>0, <1>1, <1>8, RowOf
    <3>2. e.next_run_at \in Nat /\ "next_run_at" \in DeadlineColumns \cap DOMAIN e
      BY <3>1 DEF Entities, Columns, DeadlineColumns
    <3>3. e["next_run_at"] \in Deadlines
      BY <1>1, <3>2, DeadlineIs, NatIsSome
    <3>4. e.next_run_at = next \/ e.next_run_at + Base * Milli <= next \/ next + Base * Milli <= e.next_run_at
      BY <1>1, <1>8, <3>2, <3>3, ApartIs
    <3>5. QED
      BY <1>0, <1>1, <3>2, <3>4, SoonerIs
  <2>2. QED
    BY <1>4, <1>5, <1>8, <2>1
<1>9. l.value => Inv("lite", l.db, PutIn(book, "monitors", AdvancedTo(m, next, next)))
  BY <1>1, <1>4
<1>10. ASSUME Inv("pg", pg, book)
       PROVE  /\ p.value => Inv("pg", p.db, PutIn(book, "monitors", AdvancedTo(m, next, next)))
              /\ ~ p.value => p.db = pg
  BY <1>1, <1>5, <1>10
<1>11. clear /\ Apart(Base * Milli, {next} \cup Deadlines) /\ Inv("pg", pg, book) =>
             /\ l.error = p.error /\ (l.value <=> p.value)
             /\ p.value => Inv("pg", p.db, PutIn(book, "monitors", AdvancedTo(m, next, next)))
             /\ ~ p.value => p.db = pg
  BY <1>4, <1>7, <1>8, <1>10
<1> DEFINE new == AdvancedTo(m, next, next)
<1>12. Change(l, p, Base * Milli, {next}, "monitors", new)
  BY <1>3
<1>13. /\ l.value => Inv("lite", l.db, PutIn(book, "monitors", new))
       /\ clear /\ Apart(Base * Milli, {next} \cup Deadlines) /\ Inv("pg", pg, book) =>
             /\ l.error = p.error /\ (l.value <=> p.value)
             /\ p.value => Inv("pg", p.db, PutIn(book, "monitors", new))
             /\ ~ p.value => p.db = pg
  BY <1>9, <1>11
<1> HIDE DEF new
<1>14. QED
  BY <1>4, <1>7, <1>12, <1>13, ChangeKeeps

LEMMA HeartbeatKeeps ==
  ASSUME StoreOK, NEW a \in book.agents, NEW now \in Instants, NEW generation, NEW b \in New.heartbeats,
         Change(Lite!AgentsUpdateHeartbeat(lite, a.id, generation, b.version, b.capabilities, now),
             Pg!AgentsUpdateHeartbeat(pg, a.id, generation, b.version, b.capabilities, now), Milli, {}, "agents",
                [a EXCEPT !.version = b.version, !.capabilities_json = b.capabilities, !.last_seen_at = now])
  PROVE  StoreOK'
<1>0. "lite" \in Profiles /\ "pg" \in Profiles
  BY DEF Profiles
<1>1. a \in book["agents"] /\ now \in Nat /\ b.version \in STRING /\ b.capabilities \in (SUBSET STRING) \ {{}}
  BY ConformanceAssumption, EntityAssumption
<1> DEFINE l == Lite!AgentsUpdateHeartbeat(lite, a.id, generation, b.version, b.capabilities, now)
           p == Pg!AgentsUpdateHeartbeat(pg, a.id, generation, b.version, b.capabilities, now)
<1>2. l = HeartbeatCall("lite", lite, a.id, generation, b.version, b.capabilities, now) /\
          p = HeartbeatCall("pg", pg, a.id, generation, b.version, b.capabilities, now)
  BY DEF HeartbeatCall
<1>3. Change(l, p, Milli, {}, "agents", Beaten(a, b.version, b.capabilities, now))
  BY DEF Beaten
<1> HIDE DEF l, p
<1>4. /\ l.error = "none" /\ l.value \in BOOLEAN
      /\ ~ l.value => l.db = lite
      /\ l.value <=> \E e \in book["agents"] : e.id = a.id /\ e.revoked_at = Nothing /\
             e.credential_generation = generation
      /\ \A e \in book["agents"] : l.value /\ e.id = a.id
           => Inv("lite", l.db, PutIn(book, "agents", Beaten(e, b.version, b.capabilities, now)))
  <2>1. BeatingAnswers("lite", lite, book, a.id, generation, b.version, b.capabilities, now, l)
    BY <1>0, <1>1, <1>2, Beating DEF StoreOK
  <2>2. QED
    BY <2>1 DEF BeatingAnswers
<1>5. ASSUME NEW bk, Inv("pg", pg, bk)
      PROVE  /\ p.error = "none" /\ p.value \in BOOLEAN
             /\ ~ p.value => p.db = pg
             /\ p.value <=> \E e \in bk["agents"] : e.id = a.id /\ e.revoked_at = Nothing /\
                    e.credential_generation = generation
             /\ \A e \in bk["agents"] : p.value /\ e.id = a.id
                  => Inv("pg", p.db, PutIn(bk, "agents", Beaten(e, b.version, b.capabilities, now)))
  <2>1. BeatingAnswers("pg", pg, bk, a.id, generation, b.version, b.capabilities, now, p)
    BY <1>0, <1>1, <1>2, <1>5, Beating
  <2>2. QED
    BY <2>1 DEF BeatingAnswers
<1>6. PICK bk : Inv("pg", pg, bk)
  BY DEF StoreOK
<1>7. p.error = "none" /\ p.value \in BOOLEAN /\ \E kept : Inv("pg", p.db, kept)
  BY <1>5, <1>6
<1>8. ASSUME Apart(Milli, {} \cup Deadlines), Inv("pg", pg, book)
      PROVE  l.value <=> p.value
  BY <1>4, <1>5, <1>8
<1>9. l.value => Inv("lite", l.db, PutIn(book, "agents", Beaten(a, b.version, b.capabilities, now)))
  BY <1>1, <1>4
<1>10. ASSUME Inv("pg", pg, book)
       PROVE  /\ p.value => Inv("pg", p.db, PutIn(book, "agents", Beaten(a, b.version, b.capabilities, now)))
              /\ ~ p.value => p.db = pg
  BY <1>1, <1>5, <1>10
<1>11. clear /\ Apart(Milli, {} \cup Deadlines) /\ Inv("pg", pg, book) =>
             /\ l.error = p.error /\ (l.value <=> p.value)
             /\ p.value => Inv("pg", p.db, PutIn(book, "agents", Beaten(a, b.version, b.capabilities, now)))
             /\ ~ p.value => p.db = pg
  BY <1>4, <1>7, <1>8, <1>10
<1> DEFINE new == Beaten(a, b.version, b.capabilities, now)
<1>12. Change(l, p, Milli, {}, "agents", new)
  BY <1>3
<1>13. /\ l.value => Inv("lite", l.db, PutIn(book, "agents", new))
       /\ clear /\ Apart(Milli, {} \cup Deadlines) /\ Inv("pg", pg, book) =>
             /\ l.error = p.error /\ (l.value <=> p.value)
             /\ p.value => Inv("pg", p.db, PutIn(book, "agents", new))
             /\ ~ p.value => p.db = pg
  BY <1>9, <1>11
<1> HIDE DEF new
<1>14. QED
  BY <1>4, <1>7, <1>12, <1>13, ChangeKeeps

LEMMA ResolveKeeps ==
  ASSUME StoreOK, NEW r \in book.check_runs, NEW hash \in {0, 1}, NEW at \in Instants,
         Change(Lite!RunsResolve(lite, r.id, 1, hash, at), Pg!RunsResolve(pg, r.id, 1, hash, at), Milli, {},
             "check_runs",
                [r EXCEPT !.status = "resolved", !.resolved_at = at])
  PROVE  StoreOK'
<1>0. "lite" \in Profiles /\ "pg" \in Profiles
  BY DEF Profiles
<1>1. r \in book["check_runs"] /\ at \in Nat /\ hash \in Nat /\ 1 \in Int
  BY ConformanceAssumption
<1> DEFINE l == Lite!RunsResolve(lite, r.id, 1, hash, at)
           p == Pg!RunsResolve(pg, r.id, 1, hash, at)
<1>2. l = ResolveCall("lite", lite, r.id, 1, hash, at) /\ p = ResolveCall("pg", pg, r.id, 1, hash, at)
  BY DEF ResolveCall
<1>3. Change(l, p, Milli, {}, "check_runs", Resolved(r, at))
  BY DEF Resolved
<1> HIDE DEF l, p
<1>4. /\ l.error = "none" /\ l.value \in BOOLEAN
      /\ ~ l.value => l.db = lite
      /\ l.value <=> \E e \in book["check_runs"] : e.id = r.id /\ e.status = "leased" /\ e.lease_agent_id = 1 /\
             e.lease_token_hash = hash
      /\ \A e \in book["check_runs"] : l.value /\ e.id = r.id
           => Inv("lite", l.db, PutIn(book, "check_runs", Resolved(e, at)))
  <2>1. ResolvingAnswers("lite", lite, book, r.id, 1, hash, at, l)
    BY <1>0, <1>1, <1>2, Resolving DEF StoreOK
  <2>2. QED
    BY <2>1 DEF ResolvingAnswers
<1>5. ASSUME NEW bk, Inv("pg", pg, bk)
      PROVE  /\ p.error = "none" /\ p.value \in BOOLEAN
             /\ ~ p.value => p.db = pg
             /\ p.value <=> \E e \in bk["check_runs"] : e.id = r.id /\ e.status = "leased" /\ e.lease_agent_id = 1 /\
                    e.lease_token_hash = hash
             /\ \A e \in bk["check_runs"] : p.value /\ e.id = r.id
                  => Inv("pg", p.db, PutIn(bk, "check_runs", Resolved(e, at)))
  <2>1. ResolvingAnswers("pg", pg, bk, r.id, 1, hash, at, p)
    BY <1>0, <1>1, <1>2, <1>5, Resolving
  <2>2. QED
    BY <2>1 DEF ResolvingAnswers
<1>6. PICK bk : Inv("pg", pg, bk)
  BY DEF StoreOK
<1>7. p.error = "none" /\ p.value \in BOOLEAN /\ \E kept : Inv("pg", p.db, kept)
  BY <1>5, <1>6
<1>8. ASSUME Apart(Milli, {} \cup Deadlines), Inv("pg", pg, book)
      PROVE  l.value <=> p.value
  BY <1>4, <1>5, <1>8
<1>9. l.value => Inv("lite", l.db, PutIn(book, "check_runs", Resolved(r, at)))
  BY <1>1, <1>4
<1>10. ASSUME Inv("pg", pg, book)
       PROVE  /\ p.value => Inv("pg", p.db, PutIn(book, "check_runs", Resolved(r, at)))
              /\ ~ p.value => p.db = pg
  BY <1>1, <1>5, <1>10
<1>11. clear /\ Apart(Milli, {} \cup Deadlines) /\ Inv("pg", pg, book) =>
             /\ l.error = p.error /\ (l.value <=> p.value)
             /\ p.value => Inv("pg", p.db, PutIn(book, "check_runs", Resolved(r, at)))
             /\ ~ p.value => p.db = pg
  BY <1>4, <1>7, <1>8, <1>10
<1> DEFINE new == Resolved(r, at)
<1>12. Change(l, p, Milli, {}, "check_runs", new)
  BY <1>3
<1>13. /\ l.value => Inv("lite", l.db, PutIn(book, "check_runs", new))
       /\ clear /\ Apart(Milli, {} \cup Deadlines) /\ Inv("pg", pg, book) =>
             /\ l.error = p.error /\ (l.value <=> p.value)
             /\ p.value => Inv("pg", p.db, PutIn(book, "check_runs", new))
             /\ ~ p.value => p.db = pg
  BY <1>9, <1>11
<1> HIDE DEF new
<1>14. QED
  BY <1>4, <1>7, <1>12, <1>13, ChangeKeeps

LEMMA StaleKeeps ==
  ASSUME StoreOK, NEW h \in book.location_health, NEW stale \in Instants, NEW now \in Instants,
         Change(Lite!HealthClaimStale(lite, h.monitor_id, h.location_id, stale, now), Pg!HealthClaimStale(pg,
             h.monitor_id, h.location_id, stale, now), Milli, {stale, now}, "location_health",
                [h EXCEPT !.state = "unknown", !.consecutive_failures = 0, !.consecutive_successes = 0,
                          !.last_transition_at = now, !.stale_at = Nothing])
  PROVE  StoreOK'
<1>0. "lite" \in Profiles /\ "pg" \in Profiles
  BY DEF Profiles
<1>1. h \in book["location_health"] /\ stale \in Nat /\ now \in Nat /\ "location_health" \in TableNames /\ Milli \in Nat
  BY ConformanceAssumption, Units DEF TableNames, Milli
<1> DEFINE l == Lite!HealthClaimStale(lite, h.monitor_id, h.location_id, stale, now)
           p == Pg!HealthClaimStale(pg, h.monitor_id, h.location_id, stale, now)
<1>2. l = ClaimStaleCall("lite", lite, h.monitor_id, h.location_id, stale, now) /\
          p = ClaimStaleCall("pg", pg, h.monitor_id, h.location_id, stale, now)
  BY DEF ClaimStaleCall
<1>3. Change(l, p, Milli, {stale, now}, "location_health", Staled(h, now))
  BY DEF Staled
<1> HIDE DEF l, p
<1>4. /\ l.error = "none" /\ l.value \in BOOLEAN
      /\ ~ l.value => l.db = lite
      /\ l.value <=> \E e \in book["location_health"] : /\ e.monitor_id = h.monitor_id /\
                                                               e.location_id = h.location_id /\ e.stale_at # Nothing
                                                  /\ Moment("lite", e.stale_at) = Moment("lite", stale)
                                                  /\ RowAtMost("lite", Moment("lite", e.stale_at), Moment("lite", now))
      /\ \A e \in book["location_health"] : l.value /\ e.monitor_id = h.monitor_id /\ e.location_id = h.location_id
           => Inv("lite", l.db, PutIn(book, "location_health", Staled(e, now)))
  <2>1. StaleClaimingAnswers("lite", lite, book, h.monitor_id, h.location_id, stale, now, l)
    BY <1>0, <1>1, <1>2, StaleClaiming DEF StoreOK
  <2>2. QED
    BY <2>1 DEF StaleClaimingAnswers
<1>5. ASSUME NEW bk, Inv("pg", pg, bk)
      PROVE  /\ p.error = "none" /\ p.value \in BOOLEAN
             /\ ~ p.value => p.db = pg
             /\ p.value <=> \E e \in bk["location_health"] : /\ e.monitor_id = h.monitor_id /\
                                                                    e.location_id = h.location_id /\
                                                                    e.stale_at # Nothing
                                                  /\ Moment("pg", e.stale_at) = Moment("pg", stale)
                                                  /\ RowAtMost("pg", Moment("pg", e.stale_at), Moment("pg", now))
             /\ \A e \in bk["location_health"] : p.value /\ e.monitor_id = h.monitor_id /\ e.location_id = h.location_id
                  => Inv("pg", p.db, PutIn(bk, "location_health", Staled(e, now)))
  <2>1. StaleClaimingAnswers("pg", pg, bk, h.monitor_id, h.location_id, stale, now, p)
    BY <1>0, <1>1, <1>2, <1>5, StaleClaiming
  <2>2. QED
    BY <2>1 DEF StaleClaimingAnswers
<1>6. PICK bk : Inv("pg", pg, bk)
  BY DEF StoreOK
<1>7. p.error = "none" /\ p.value \in BOOLEAN /\ \E kept : Inv("pg", p.db, kept)
  BY <1>5, <1>6
<1>8. ASSUME Apart(Milli, {stale, now} \cup Deadlines), Inv("pg", pg, book)
      PROVE  l.value <=> p.value
  <2>1. ASSUME NEW e \in book["location_health"], e.stale_at # Nothing
        PROVE  /\ Moment("lite", e.stale_at) = Moment("lite", stale) <=> Moment("pg", e.stale_at) = Moment("pg", stale)
               /\ RowAtMost("lite", Moment("lite", e.stale_at), Moment("lite", now))
                    <=> RowAtMost("pg", Moment("pg", e.stale_at), Moment("pg", now))
    <3>1. e \in Entities("location_health") /\ DOMAIN e = Columns("location_health")
      BY <1>0, <1>1, <1>8, RowOf
    <3>2. e.stale_at \in Nat /\ "stale_at" \in DeadlineColumns \cap DOMAIN e
      BY <2>1, <3>1 DEF Entities, Columns, DeadlineColumns, Maybe
    <3>3. e["stale_at"] \in Deadlines
      BY <1>1, <3>2, DeadlineIs, NatIsSome
    <3>4. /\ e.stale_at = stale \/ e.stale_at + Milli <= stale \/ stale + Milli <= e.stale_at
          /\ e.stale_at = now \/ e.stale_at + Milli <= now \/ now + Milli <= e.stale_at
      BY <1>1, <1>8, <3>2, <3>3, ApartIs
    <3>5. /\ Moment("lite", e.stale_at) = Moment("lite", stale) <=> e.stale_at = stale
          /\ Moment("pg", e.stale_at) = Moment("pg", stale) <=> e.stale_at = stale
      BY <1>0, <1>1, <3>2, <3>4, SameMoment DEF Maybe
    <3>6. QED
      BY <1>0, <1>1, <3>2, <3>4, <3>5, AtMostIs
  <2>2. QED
    BY <1>4, <1>5, <1>8, <2>1
<1>9. l.value => Inv("lite", l.db, PutIn(book, "location_health", Staled(h, now)))
  BY <1>1, <1>4
<1>10. ASSUME Inv("pg", pg, book)
       PROVE  /\ p.value => Inv("pg", p.db, PutIn(book, "location_health", Staled(h, now)))
              /\ ~ p.value => p.db = pg
  BY <1>1, <1>5, <1>10
<1>11. clear /\ Apart(Milli, {stale, now} \cup Deadlines) /\ Inv("pg", pg, book) =>
             /\ l.error = p.error /\ (l.value <=> p.value)
             /\ p.value => Inv("pg", p.db, PutIn(book, "location_health", Staled(h, now)))
             /\ ~ p.value => p.db = pg
  BY <1>4, <1>7, <1>8, <1>10
<1> DEFINE new == Staled(h, now)
<1>12. Change(l, p, Milli, {stale, now}, "location_health", new)
  BY <1>3
<1>13. /\ l.value => Inv("lite", l.db, PutIn(book, "location_health", new))
       /\ clear /\ Apart(Milli, {stale, now} \cup Deadlines) /\ Inv("pg", pg, book) =>
             /\ l.error = p.error /\ (l.value <=> p.value)
             /\ p.value => Inv("pg", p.db, PutIn(book, "location_health", new))
             /\ ~ p.value => p.db = pg
  BY <1>9, <1>11
<1> HIDE DEF new
<1>14. QED
  BY <1>4, <1>7, <1>12, <1>13, ChangeKeeps

LEMMA SkipKeeps ==
  ASSUME StoreOK, NEW t \in {"check_runs", "probe_results"}, NEW e, WellFormed(t, e), NEW keys,
      keys \subseteq KeysOf(t),
         NEW l, NEW p, l = Counted(InsertOrSkip(lite, t, Row("lite", e), keys)),
         p = Counted(InsertOrSkip(pg, t, Row("pg", e), keys)),
         NEW instants, t = "check_runs" => e.scheduled_for \in instants, Change(l, p, Milli, instants, t, e)
  PROVE  StoreOK'
<1>1. /\ "lite" \in Profiles /\ "pg" \in Profiles /\ t \in TableNames
      /\ Keeps("lite", Row("lite", e), e) /\ Keeps("pg", Row("pg", e), e)
  BY RowKeeps DEF Profiles, TableNames
<1> DEFINE sl == Row("lite", e)
           sp == Row("pg", e)
<1>2. /\ Keeps("lite", sl, e) /\ l = Counted(InsertOrSkip(lite, t, sl, keys))
      /\ Keeps("pg", sp, e) /\ p = Counted(InsertOrSkip(pg, t, sp, keys))
  BY <1>1
<1> HIDE DEF sl, sp
<1>3. /\ l.error \in {"none", "conflict"} /\ l.value \in BOOLEAN
      /\ l.error # "none" => ~ l.value
      /\ l.value => Inv("lite", l.db, PutIn(book, t, e))
      /\ ~ l.value => l.db = lite
      /\ (t = "check_runs" => \A o \in book[t] : Told("lite", o.scheduled_for, e.scheduled_for))
           => /\ l.value <=> BookAllows(book, t, e)
              /\ l.error = "none" <=> (BookSkips(book, t, e, keys) \/ BookAllows(book, t, e))
  BY <1>1, <1>2, Skipping DEF StoreOK
<1>4. ASSUME NEW bk, Inv("pg", pg, bk)
      PROVE  /\ p.error \in {"none", "conflict"} /\ p.value \in BOOLEAN
             /\ p.error # "none" => ~ p.value
             /\ p.value => Inv("pg", p.db, PutIn(bk, t, e))
             /\ ~ p.value => p.db = pg
             /\ (t = "check_runs" => \A o \in bk[t] : Told("pg", o.scheduled_for, e.scheduled_for))
                  => /\ p.value <=> BookAllows(bk, t, e)
                     /\ p.error = "none" <=> (BookSkips(bk, t, e, keys) \/ BookAllows(bk, t, e))
  BY <1>1, <1>2, <1>4, Skipping
<1>5. PICK bk : Inv("pg", pg, bk)
  BY DEF StoreOK
<1>6. p.value \in BOOLEAN /\ \E kept : Inv("pg", p.db, kept)
  BY <1>4, <1>5
<1>7. ASSUME Apart(Milli, instants \cup Deadlines), Inv("pg", pg, book)
      PROVE  /\ l.error = p.error /\ (l.value <=> p.value)
             /\ p.value => Inv("pg", p.db, PutIn(book, t, e))
             /\ ~ p.value => p.db = pg
  <2>1. ASSUME t = "check_runs", NEW o \in book[t] PROVE Told("pg", o.scheduled_for, e.scheduled_for)
    <3>1. /\ o \in Entities(t) /\ e \in Entities(t) /\ DOMAIN o = Columns(t)
      BY <1>1, <1>7, RowOf DEF WellFormed
    <3>2. o.scheduled_for \in Nat /\ e.scheduled_for \in Nat /\ "scheduled_for" \in DeadlineColumns \cap DOMAIN o
      BY <2>1, <3>1 DEF Entities, Columns, DeadlineColumns
    <3>3. o["scheduled_for"] \in Deadlines
      BY <1>1, <3>2, DeadlineIs, NatIsSome
    <3>4. Milli \in Nat
      BY Units DEF Milli
    <3>5. o.scheduled_for = e.scheduled_for \/ o.scheduled_for + Milli <= e.scheduled_for
            \/ e.scheduled_for + Milli <= o.scheduled_for
      BY <1>7, <2>1, <3>2, <3>3, <3>4, ApartIs
    <3>6. QED
      BY <3>5 DEF Told
  <2>2. \A o \in book[t] : Told("lite", o.scheduled_for, e.scheduled_for)
    BY DEF Told
  <2>3. QED
    BY <1>3, <1>4, <1>7, <2>1, <2>2
<1>8. l.value \in BOOLEAN /\ (l.error # "none" => ~ l.value)
  BY <1>3
<1>9. QED
  BY <1>3, <1>6, <1>7, <1>8, ChangeKeeps

LEMMA RunsInsertKeeps ==
  ASSUME StoreOK, NEW r \in New.check_runs,
         Change(Lite!RunsInsert(lite, r), Pg!RunsInsert(pg, r), Milli, {r.scheduled_for}, "check_runs", InsertedRun(r))
  PROVE  StoreOK'
<1> DEFINE e == InsertedRun(r)
           l == Lite!RunsInsert(lite, r)
           p == Pg!RunsInsert(pg, r)
           keys == Unique("check_runs")
<1>1. /\ l = Counted(InsertOrSkip(lite, "check_runs", Row("lite", e), keys))
      /\ p = Counted(InsertOrSkip(pg, "check_runs", Row("pg", e), keys))
  BY RunsInsertIs
<1>2. r \in [id : Int, monitor_id : Int, location_id : Int, scheduled_for : Nat, probe : ProbeJSON, timeout : Nat]
      /\ r.timeout % Milli = 0
  BY EntityAssumption
<1>3. /\ IsRecord(e) /\ DOMAIN e = Columns("check_runs") /\ e.id = r.id /\ e.monitor_id = r.monitor_id
      /\ e.location_id = r.location_id /\ e.scheduled_for = r.scheduled_for /\ e.probe_json = r.probe
      /\ e.probe_kind = r.probe.kind /\ e.timeout_ms = r.timeout /\ e.status = "available"
      /\ e.lease_agent_id = Nothing /\ e.lease_token_hash = Nothing /\ e.lease_attempt = 0
      /\ e.lease_expires_at = Nothing /\ e.resolved_at = Nothing
  BY DEF InsertedRun, Columns, IsRecord
<1>4. Change(l, p, Milli, {r.scheduled_for}, "check_runs", e)
  OBVIOUS
<1> HIDE DEF e, l, p
<1>5. WellFormed("check_runs", e)
  <2>1. e.id \in Int /\ e.monitor_id \in Int /\ e.location_id \in Int /\ e.scheduled_for \in Nat
        /\ e.probe_json \in ProbeJSON /\ e.timeout_ms \in Nat /\ e.timeout_ms % Milli = 0
    BY <1>2, <1>3
  <2>2. e.probe_kind \in Kinds /\ e.probe_kind = e.probe_json.kind
    BY <1>2, <1>3 DEF ProbeJSON
  <2>3. e.status \in {"available", "leased", "resolved"} /\ e.status # "leased" /\ e.lease_attempt \in Nat
    BY <1>3
  <2>4. /\ e.lease_agent_id \in Maybe(Int) /\ e.lease_token_hash \in Maybe(Nat)
        /\ e.lease_expires_at \in Maybe(Nat) /\ e.resolved_at \in Maybe(Nat)
    BY <1>3 DEF Maybe
  <2>5. e \in Entities("check_runs")
    BY <1>3, <2>1, <2>2, <2>3, <2>4, RunTyped
  <2>6. QED
    BY <2>1, <2>2, <2>3, <2>5 DEF WellFormed
<1>6. keys \subseteq KeysOf("check_runs")
  BY DEF KeysOf
<1> HIDE DEF keys
<1>7. e.scheduled_for \in {r.scheduled_for}
  BY <1>3
<1>8. QED
  BY <1>1, <1>4, <1>5, <1>6, <1>7, SkipKeeps

LEMMA ResultsInsertKeeps ==
  ASSUME StoreOK, NEW e \in New.probe_results,
         Change(Lite!ResultsInsert(lite, e), Pg!ResultsInsert(pg, e), Milli, {}, "probe_results", e)
  PROVE  StoreOK'
<1>1. "probe_results" \in TableNames \ {"check_runs"} /\ e \in New["probe_results"]
  BY DEF TableNames
<1>2. e \in Entities("probe_results") /\ WellFormed("probe_results", e)
  BY <1>1, NewIsWellFormed
<1> DEFINE l == Lite!ResultsInsert(lite, e)
           p == Pg!ResultsInsert(pg, e)
           keys == Unique("probe_results") \cup {{"id"}}
<1>3. /\ l = Counted(InsertOrSkip(lite, "probe_results", Row("lite", e), keys))
      /\ p = Counted(InsertOrSkip(pg, "probe_results", Row("pg", e), keys))
  BY <1>2, ResultsInsertIs
<1>4. Change(l, p, Milli, {}, "probe_results", e)
  OBVIOUS
<1>5. keys \subseteq KeysOf("probe_results")
  BY DEF KeysOf, PrimaryKey
<1> HIDE DEF l, p, keys
<1>6. QED
  BY <1>2, <1>3, <1>4, <1>5, SkipKeeps

\* An update leaves the monitor of an incident as it is.
LEMMA UpdatingAny ==
  ASSUME NEW p \in Profiles, NEW db, NEW bk, Inv(p, db, bk), NEW i \in Entities("incidents"),
         NEW reply, reply = UpdateCall(p, db, i)
  PROVE  \E b : Inv(p, reply.db, b)
<1>1. /\ reply.value = Nothing /\ reply.error \in {"none", "conflict"}
      /\ reply.error # "none" => reply.db = db
      /\ reply.error = "none" <=> \E e \in bk["incidents"] : e.id = i.id /\ e.recovered_at = Nothing
      /\ \A e \in bk["incidents"] : reply.error = "none" /\ e.id = i.id /\ e.monitor_id = i.monitor_id
           => Inv(p, reply.db, PutIn(bk, "incidents", Updated(e, i)))
  BY Updating
<1>2. ASSUME reply.error = "none" PROVE \E b : Inv(p, reply.db, b)
  <2>1. PICK e \in bk["incidents"] : e.id = i.id /\ e.recovered_at = Nothing
    BY <1>1, <1>2
  <2>2. e \in Entities("incidents")
    BY RowOf DEF TableNames
  <2> DEFINE j == [i EXCEPT !.monitor_id = e.monitor_id]
  <2>3. /\ j \in Entities("incidents") /\ j.id = i.id /\ j.monitor_id = e.monitor_id /\ j.state = i.state
        /\ j.severity = i.severity /\ j.last_transition_at = i.last_transition_at /\ j.recovered_at = i.recovered_at
    BY <2>2 DEF Entities
  <2> HIDE DEF j
  <2> DEFINE hit == UpdateHit(db, i.id)
  <2>4. hit = UpdateHit(db, i.id) /\ hit = UpdateHit(db, j.id)
    BY <2>3
  <2> HIDE DEF hit
  <2>5. UpdateNew(p, hit, j) = UpdateNew(p, hit, i)
    BY <2>3 DEF UpdateNew, UpdateRow
  <2> DEFINE new == UpdateNew(p, hit, i)
  <2>6. new = UpdateNew(p, hit, i) /\ new = UpdateNew(p, hit, j)
    BY <2>5
  <2> HIDE DEF new
  <2>7. UpdateCall(p, db, j) = UpdateCall(p, db, i)
    <3>1. UpdateCall(p, db, i) = IF new = {} THEN [db |-> db, value |-> Nothing, error |-> "conflict"]
                                 ELSE [db |-> Replaced(db, "incidents", hit, new), value |-> Nothing, error |-> "none"]
      <4>1. i \in Entities("incidents") /\ hit = UpdateHit(db, i.id) /\ new = UpdateNew(p, hit, i)
        BY <2>4, <2>6
      <4>2. QED
        BY <4>1, UpdateIs
    <3>2. UpdateCall(p, db, j) = IF new = {} THEN [db |-> db, value |-> Nothing, error |-> "conflict"]
                                 ELSE [db |-> Replaced(db, "incidents", hit, new), value |-> Nothing, error |-> "none"]
      BY <2>3, <2>4, <2>6, UpdateIs
    <3>3. QED
      BY <3>1, <3>2
  <2>8. reply = UpdateCall(p, db, j)
    BY <2>7
  <2>9. /\ reply.value = Nothing /\ reply.error \in {"none", "conflict"}
        /\ reply.error # "none" => reply.db = db
        /\ reply.error = "none" <=> \E o \in bk["incidents"] : o.id = j.id /\ o.recovered_at = Nothing
        /\ \A o \in bk["incidents"] : reply.error = "none" /\ o.id = j.id /\ o.monitor_id = j.monitor_id
             => Inv(p, reply.db, PutIn(bk, "incidents", Updated(o, j)))
    BY <2>3, <2>8, Updating
  <2>10. QED
    BY <1>2, <2>1, <2>3, <2>9
<1>3. QED
  BY <1>1, <1>2

LEMMA UpdateKeeps ==
  ASSUME StoreOK, NEW i \in book.incidents, NEW new \in New.incidents, new.id = i.id, new.monitor_id = i.monitor_id,
         Write(Lite!IncidentsUpdate(lite, new), Pg!IncidentsUpdate(pg, new), "incidents", Updated(i, new))
  PROVE  StoreOK'
<1>0. "lite" \in Profiles /\ "pg" \in Profiles /\ i \in book["incidents"]
  BY DEF Profiles
<1>1. new \in Entities("incidents")
  BY NewIsWellFormed DEF TableNames
<1> DEFINE l == Lite!IncidentsUpdate(lite, new)
           p == Pg!IncidentsUpdate(pg, new)
           e == Updated(i, new)
<1>2. l = UpdateCall("lite", lite, new) /\ p = UpdateCall("pg", pg, new)
  BY DEF UpdateCall
<1>3. Write(l, p, "incidents", e)
  OBVIOUS
<1> HIDE DEF l, p
<1>4. /\ l.value = Nothing /\ l.error \in {"none", "conflict"}
      /\ l.error # "none" => l.db = lite
      /\ l.error = "none" <=> \E o \in book["incidents"] : o.id = new.id /\ o.recovered_at = Nothing
      /\ \A o \in book["incidents"] : l.error = "none" /\ o.id = new.id /\ o.monitor_id = new.monitor_id
           => Inv("lite", l.db, PutIn(book, "incidents", Updated(o, new)))
  BY <1>0, <1>1, <1>2, Updating DEF StoreOK
<1>5. ASSUME NEW bk, Inv("pg", pg, bk)
      PROVE  /\ p.value = Nothing /\ p.error \in {"none", "conflict"}
             /\ p.error # "none" => p.db = pg
             /\ p.error = "none" <=> \E o \in bk["incidents"] : o.id = new.id /\ o.recovered_at = Nothing
             /\ \A o \in bk["incidents"] : p.error = "none" /\ o.id = new.id /\ o.monitor_id = new.monitor_id
                  => Inv("pg", p.db, PutIn(bk, "incidents", Updated(o, new)))
  BY <1>0, <1>1, <1>2, <1>5, Updating
<1>6. \E kept : Inv("pg", p.db, kept)
  BY <1>0, <1>1, <1>2, UpdatingAny DEF StoreOK
<1>7. p.value = Nothing
  BY <1>5 DEF StoreOK
<1>8. l.error = "none" => Inv("lite", l.db, PutIn(book, "incidents", e))
  BY <1>0, <1>4
<1>9. Inv("pg", pg, book) => /\ l.error = p.error
                             /\ p.error = "none" => Inv("pg", p.db, PutIn(book, "incidents", e))
                             /\ p.error # "none" => p.db = pg
  BY <1>0, <1>4, <1>5
<1> HIDE DEF e
<1>10. QED
  BY <1>3, <1>4, <1>6, <1>7, <1>8, <1>9, WriteKeeps

LEMMA IncidentsKeep == ASSUME StoreOK, Incidents PROVE StoreOK'
<1>1. ASSUME NEW i \in New.incidents,
             Write(Lite!IncidentsOpen(lite, i), Pg!IncidentsOpen(pg, i), "incidents",
                 [i EXCEPT !.recovered_at = Nothing])
      PROVE  StoreOK'
  BY <1>1, IncidentsOpenKeeps
<1>2. QED
  BY <1>1, UpdateKeeps, IncidentsAppendEventKeeps DEF Incidents

LEMMA HealthKeeps == ASSUME StoreOK, Health PROVE StoreOK'
BY HealthUpsertLocationKeeps, HealthUpsertMonitorKeeps, StaleKeeps DEF Health

-----------------------------------------------------------------------------
\* What is read back is an entity, and the same one in both profiles.
LEMMA KeptIs ==
  ASSUME NEW p \in Profiles, NEW v \in Maybe(Nat)
  PROVE  Kept(p, v) \in Maybe(Nat) /\ (v \in Nat => Kept(p, v) \in Nat)
<1>1. \A n \in Nat : n - (n % Micro) \in Nat
  BY Units, Divides DEF Micro
<1>2. QED
  BY <1>1 DEF Kept, Maybe

LEMMA TokenTyped ==
  ASSUME NEW f, IsRecord(f), DOMAIN f = Columns("agent_enrollment_tokens"), f.id \in Int, f.location_id \in Int,
         f.token_hash \in Nat, f.expires_at \in Nat, f.consumed_at \in Maybe(Nat), f.created_at \in Nat
  PROVE  f \in Entities("agent_enrollment_tokens")
BY DEF IsRecord, Columns, Entities

LEMMA SessionTyped ==
  ASSUME NEW f, IsRecord(f), DOMAIN f = Columns("sessions"), f.id \in Int, f.admin_id \in Int,
         f.token_hash \in Nat, f.expires_at \in Nat, f.revoked_at \in Maybe(Nat)
  PROVE  f \in Entities("sessions")
BY DEF IsRecord, Columns, Entities

LEMMA BackTyped ==
  ASSUME NEW p \in Profiles, NEW t \in {"agent_enrollment_tokens", "sessions", "check_runs"}, NEW e \in Entities(t)
  PROVE  Back(p, e) \in Entities(t)
<1>0. (\A v \in Maybe(Nat) : Kept(p, v) \in Maybe(Nat)) /\ (\A v \in Nat : Kept(p, v) \in Nat)
  <2>1. \A v \in Maybe(Nat) : Kept(p, v) \in Maybe(Nat) /\ (v \in Nat => Kept(p, v) \in Nat)
    BY KeptIs
  <2>2. QED
    BY <2>1 DEF Maybe
<1>1. t \in TableNames /\ IsRecord(e) /\ DOMAIN e = Columns(t)
  BY EntityColumns DEF TableNames
<1> DEFINE b == Back(p, e)
<1>2. IsRecord(b) /\ DOMAIN b = Columns(t) /\ \A c \in Columns(t) : b[c] = BackColumn(p, c, e[c])
  BY <1>1, BackColumns
<1> HIDE DEF b
<1>3. \A c \in Columns(t) \ (TimeColumns \cup {"latency_ms"}) : b[c] = e[c]
  BY <1>2 DEF BackColumn
<1>4. \A c \in Columns(t) \cap TimeColumns : b[c] = Kept(p, e[c])
  BY <1>2 DEF BackColumn
<1>5. CASE t = "agent_enrollment_tokens"
  <2>1. /\ e.id \in Int /\ e.location_id \in Int /\ e.token_hash \in Nat /\ e.expires_at \in Nat
        /\ e.consumed_at \in Maybe(Nat) /\ e.created_at \in Nat
    BY <1>5 DEF Entities
  <2>2. b.id = e.id /\ b.location_id = e.location_id /\ b.token_hash = e.token_hash
    BY <1>3, <1>5 DEF Columns, TimeColumns
  <2>3. b.expires_at = Kept(p, e.expires_at) /\ b.consumed_at = Kept(p, e.consumed_at) /\
            b.created_at = Kept(p, e.created_at)
    BY <1>4, <1>5 DEF Columns, TimeColumns
  <2>4. b.expires_at \in Nat /\ b.consumed_at \in Maybe(Nat) /\ b.created_at \in Nat
    BY <1>0, <2>1, <2>3
  <2>5. QED
    BY <1>2, <1>5, <2>1, <2>2, <2>4, TokenTyped DEF b
<1>6. CASE t = "sessions"
  <2>1. /\ e.id \in Int /\ e.admin_id \in Int /\ e.token_hash \in Nat /\ e.expires_at \in Nat /\
               e.revoked_at \in Maybe(Nat)
    BY <1>6 DEF Entities
  <2>2. b.id = e.id /\ b.admin_id = e.admin_id /\ b.token_hash = e.token_hash
    BY <1>3, <1>6 DEF Columns, TimeColumns
  <2>3. b.expires_at = Kept(p, e.expires_at) /\ b.revoked_at = Kept(p, e.revoked_at)
    BY <1>4, <1>6 DEF Columns, TimeColumns
  <2>4. b.expires_at \in Nat /\ b.revoked_at \in Maybe(Nat)
    BY <1>0, <2>1, <2>3
  <2>5. QED
    BY <1>2, <1>6, <2>1, <2>2, <2>4, SessionTyped DEF b
<1>7. CASE t = "check_runs"
  <2>1. /\ e.id \in Int /\ e.monitor_id \in Int /\ e.location_id \in Int /\ e.scheduled_for \in Nat /\
               e.probe_json \in ProbeJSON
        /\ e.probe_kind \in Kinds /\ e.timeout_ms \in Nat /\ e.status \in {"available", "leased", "resolved"}
        /\ e.lease_agent_id \in Maybe(Int) /\ e.lease_token_hash \in Maybe(Nat) /\ e.lease_attempt \in Nat
        /\ e.lease_expires_at \in Maybe(Nat) /\ e.resolved_at \in Maybe(Nat)
    BY <1>7 DEF Entities
  <2>2. /\ b.id = e.id /\ b.monitor_id = e.monitor_id /\ b.location_id = e.location_id /\ b.probe_json = e.probe_json
        /\ b.probe_kind = e.probe_kind /\ b.timeout_ms = e.timeout_ms /\ b.status = e.status
        /\ b.lease_agent_id = e.lease_agent_id /\ b.lease_token_hash = e.lease_token_hash /\
               b.lease_attempt = e.lease_attempt
    BY <1>3, <1>7 DEF Columns, TimeColumns
  <2>3. /\ b.scheduled_for = Kept(p, e.scheduled_for) /\ b.lease_expires_at = Kept(p, e.lease_expires_at)
        /\ b.resolved_at = Kept(p, e.resolved_at)
    BY <1>4, <1>7 DEF Columns, TimeColumns
  <2>4. b.scheduled_for \in Nat /\ b.lease_expires_at \in Maybe(Nat) /\ b.resolved_at \in Maybe(Nat)
    BY <1>0, <2>1, <2>3
  <2>5. b \in Entities("check_runs")
    BY <1>2, <1>7, <2>1, <2>2, <2>4, RunTyped
  <2>6. QED
    BY <1>7, <2>5 DEF b
<1>8. QED
  BY <1>5, <1>6, <1>7

LEMMA RoundedTwice ==
  ASSUME NEW t \in TableNames, NEW e, WellFormed(t, e)
  PROVE  Rounded(Rounded(e, Micro), Micro) = Rounded(e, Micro)
<1>1. \A n \in Nat : n - (n % Micro) \in Nat /\ (n - (n % Micro)) % Micro = 0 /\ (n - (n % Micro)) - 0 = n - (n % Micro)
  <2>1. ASSUME NEW n \in Nat PROVE n - (n % Micro) \in Nat /\ (n - (n % Micro)) % Micro = 0
    <3>1. Micro \in Nat \ {0} /\ n \div Micro \in Nat /\ n - (n % Micro) = Micro * (n \div Micro) + 0 /\
              0 \in 0 .. Micro - 1
          /\ Micro * (n \div Micro) \in Nat
      BY Units, Divides DEF Micro
    <3>2. (Micro * (n \div Micro) + 0) % Micro = 0
      BY <3>1, DividesOnly
    <3>3. QED
      BY <3>1, <3>2
  <2>2. QED
    BY <2>1
<1> DEFINE f == Rounded(e, Micro)
           g == Rounded(f, Micro)
<1>2. /\ IsRecord(f) /\ DOMAIN f = DOMAIN e
      /\ \A c \in DOMAIN e : f[c] = IF c \in TimeColumns /\ e[c] # Nothing THEN e[c] - (e[c] % Micro) ELSE e[c]
  BY DEF Rounded, IsRecord
<1> HIDE DEF f
<1>3. /\ IsRecord(g) /\ DOMAIN g = DOMAIN f
      /\ \A c \in DOMAIN f : g[c] = IF c \in TimeColumns /\ f[c] # Nothing THEN f[c] - (f[c] % Micro) ELSE f[c]
  BY DEF Rounded, IsRecord
<1> HIDE DEF g
<1>4. \A c \in DOMAIN e \cap TimeColumns : e[c] \in Maybe(Nat)
  BY ColumnTypes, EntityColumns DEF WellFormed
<1>5. \A c \in DOMAIN e : g[c] = f[c]
  BY <1>1, <1>2, <1>3, <1>4 DEF Maybe
<1>6. g = f
  BY <1>2, <1>3, <1>5, SameRecord
<1>7. QED
  BY <1>6 DEF g, f

LEMMA SameBack ==
  ASSUME NEW t \in {"agent_enrollment_tokens", "sessions", "check_runs"}, NEW e, WellFormed(t, e)
  PROVE  /\ SameEntity(Back("lite", e), Back("pg", e))
         /\ Back("lite", e) = e /\ Back("lite", e) # Nothing /\ Back("pg", e) # Nothing
<1>1. /\ t \in TableNames /\ e \in Entities(t) /\ "lite" \in Profiles /\ "pg" \in Profiles
  BY DEF TableNames, WellFormed, Profiles
<1>2. DOMAIN e = Columns(t)
  BY <1>1, EntityColumns
<1>3. "latency_ms" \notin DOMAIN e
  BY <1>2 DEF Columns
<1>4. Back("lite", e) = e /\ Back("pg", e) = Rounded(e, Micro)
  BY <1>3, BackIs
<1>5. Back("lite", e) # Nothing /\ Back("pg", e) # Nothing
  BY <1>1, BackTyped, SentinelAssumption
<1>6. Rounded(Rounded(e, Micro), Micro) = Rounded(e, Micro)
  BY <1>1, RoundedTwice
<1>7. QED
  BY <1>4, <1>5, <1>6 DEF SameEntity

LEMMA NothingSame == SameEntity(Nothing, Nothing)
BY DEF SameEntity

-----------------------------------------------------------------------------
\* Consuming a token.
LEMMA ConsumedIs ==
  ASSUME NEW e, WellFormed("agent_enrollment_tokens", e), NEW at \in Nat
  PROVE  WellFormed("agent_enrollment_tokens", Consumed(e, at))
<1>1. e \in Entities("agent_enrollment_tokens")
  BY DEF WellFormed
<1>2. Consumed(e, at) \in Entities("agent_enrollment_tokens")
  BY <1>1 DEF Consumed, Entities, Maybe
<1>3. QED
  BY <1>2 DEF WellFormed

LEMMA CanConsumeSame ==
  ASSUME NEW bk, Inv("pg", pg, book), NEW now \in Nat, Apart(Milli, {now} \cup Deadlines), NEW hash,
         NEW e \in book["agent_enrollment_tokens"]
  PROVE  CanConsume("lite", e, hash, now) <=> CanConsume("pg", e, hash, now)
<1>1. /\ "lite" \in Profiles /\ "pg" \in Profiles /\ "agent_enrollment_tokens" \in TableNames /\ Milli \in Nat
  BY Units DEF Profiles, TableNames, Milli
<1>2. e \in Entities("agent_enrollment_tokens") /\ DOMAIN e = Columns("agent_enrollment_tokens")
  BY <1>1, RowOf
<1>3. e.expires_at \in Nat /\ "expires_at" \in DeadlineColumns \cap DOMAIN e
  BY <1>2 DEF Entities, Columns, DeadlineColumns
<1>4. e["expires_at"] \in Deadlines
  BY <1>1, <1>3, DeadlineIs, NatIsSome
<1>5. e.expires_at = now \/ e.expires_at + Milli <= now \/ now + Milli <= e.expires_at
  BY <1>1, <1>3, <1>4, ApartIs
<1> DEFINE s == e.expires_at
<1>6. s \in Nat /\ (s = now \/ s + Milli <= now \/ now + Milli <= s)
  BY <1>3, <1>5
<1> HIDE DEF s
<1>7. ASSUME NEW p \in Profiles PROVE Rank(p, Moment(p, s)) > Rank(p, Moment(p, now)) <=> s > now
  <2>1. /\ Rank(p, Moment(p, s)) \in Nat /\ Rank(p, Moment(p, now)) \in Nat
        /\ RowAtMost(p, Moment(p, s), Moment(p, now)) <=> Rank(p, Moment(p, s)) <= Rank(p, Moment(p, now))
        /\ s <= now => Rank(p, Moment(p, s)) <= Rank(p, Moment(p, now))
        /\ s = now \/ s + Milli <= now \/ now + Milli <= s =>
             /\ Rank(p, Moment(p, s)) > Rank(p, Moment(p, now)) <=> s > now
             /\ Rank(p, Moment(p, s)) <= Rank(p, Moment(p, now)) <=> s <= now
             /\ Rank(p, Moment(p, s)) < Rank(p, Moment(p, now)) <=> s < now
             /\ Rank(p, Moment(p, s)) = Rank(p, Moment(p, now)) <=> s = now
    BY <1>6, RankIs
  <2>2. QED
    BY <1>6, <2>1
<1>8. /\ CanConsume("lite", e, hash, now)
           <=> (e.token_hash = hash /\ e.consumed_at = Nothing /\
               Rank("lite", Moment("lite", s)) > Rank("lite", Moment("lite", now)))
      /\ CanConsume("pg", e, hash, now)
           <=> (e.token_hash = hash /\ e.consumed_at = Nothing /\
               Rank("pg", Moment("pg", s)) > Rank("pg", Moment("pg", now)))
  BY DEF CanConsume, s
<1>9. /\ Rank("lite", Moment("lite", s)) > Rank("lite", Moment("lite", now)) <=> s > now
      /\ Rank("pg", Moment("pg", s)) > Rank("pg", Moment("pg", now)) <=> s > now
  BY <1>1, <1>7
<1>10. QED
  BY <1>8, <1>9

LEMMA ConsumeKeeps ==
  ASSUME StoreOK, NEW hash, NEW now \in Nat, Consume(hash, now)
  PROVE  StoreOK'
<1>0. "lite" \in Profiles /\ "pg" \in Profiles /\ "agent_enrollment_tokens" \in TableNames
  BY DEF Profiles, TableNames
<1> DEFINE l == Lite!AgentsConsumeEnrollmentToken(lite, hash, now, now)
           p == Pg!AgentsConsumeEnrollmentToken(pg, hash, now, now)
           tokens == {t \in book.agent_enrollment_tokens : t.token_hash = hash}
           chosen == CHOOSE t \in tokens : TRUE
           after == IF l.error = "none" /\ l.value # Nothing
                    THEN Put("agent_enrollment_tokens", [chosen EXCEPT !.consumed_at = now]) ELSE book
<1>1. Called(l, p, SameReply(l, p, SameEntity), Milli, {now}, after)
  BY DEF Consume
<1>2. l = ConsumeCall("lite", lite, hash, now, now) /\ p = ConsumeCall("pg", pg, hash, now, now)
  BY DEF ConsumeCall
<1>3. after = IF l.error = "none" /\ l.value # Nothing
              THEN PutIn(book, "agent_enrollment_tokens", Consumed(chosen, now)) ELSE book
  BY PutIsPutIn DEF Consumed
<1> HIDE DEF l, p, after
<1>4. /\ l.error = "none"
      /\ (\A e \in book["agent_enrollment_tokens"] : ~ CanConsume("lite", e, hash, now)) => l.db = lite /\
             l.value = Nothing
      /\ \A e \in book["agent_enrollment_tokens"] : CanConsume("lite", e, hash, now) =>
           /\ l.value = Back("lite", Consumed(e, now))
           /\ Inv("lite", l.db, PutIn(book, "agent_enrollment_tokens", Consumed(e, now)))
           /\ \A o \in book["agent_enrollment_tokens"] : o.token_hash = hash => o = e
  BY <1>0, <1>2, Consuming DEF StoreOK
<1>5. ASSUME NEW bk, Inv("pg", pg, bk)
      PROVE  /\ p.error = "none"
             /\ (\A e \in bk["agent_enrollment_tokens"] : ~ CanConsume("pg", e, hash, now)) => p.db = pg /\
                    p.value = Nothing
             /\ \A e \in bk["agent_enrollment_tokens"] : CanConsume("pg", e, hash, now) =>
                  /\ p.value = Back("pg", Consumed(e, now))
                  /\ Inv("pg", p.db, PutIn(bk, "agent_enrollment_tokens", Consumed(e, now)))
                  /\ \A o \in bk["agent_enrollment_tokens"] : o.token_hash = hash => o = e
  BY <1>0, <1>2, <1>5, Consuming
<1>6. \E kept : Inv("pg", p.db, kept)
  BY <1>5 DEF StoreOK
<1>7. ASSUME NEW e \in book["agent_enrollment_tokens"], CanConsume("lite", e, hash, now)
      PROVE  /\ l.value = Back("lite", Consumed(e, now)) /\ l.value # Nothing
             /\ SameEntity(Back("lite", Consumed(e, now)), Back("pg", Consumed(e, now)))
             /\ after = PutIn(book, "agent_enrollment_tokens", Consumed(e, now))
  <2>1. WellFormed("agent_enrollment_tokens", Consumed(e, now))
    BY <1>0, RowOf, ConsumedIs DEF StoreOK
  <2>2. /\ SameEntity(Back("lite", Consumed(e, now)), Back("pg", Consumed(e, now)))
        /\ Back("lite", Consumed(e, now)) = Consumed(e, now)
        /\ Back("lite", Consumed(e, now)) # Nothing /\ Back("pg", Consumed(e, now)) # Nothing
    BY <2>1, SameBack
  <2>3. e \in tokens /\ \A o \in tokens : o = e
    BY <1>4, <1>7 DEF CanConsume
  <2>4. chosen = e
    BY <2>3
  <2>5. l.value = Back("lite", Consumed(e, now)) /\ l.error = "none"
    BY <1>4, <1>7
  <2> HIDE DEF chosen
  <2>6. QED
    BY <1>3, <2>2, <2>4, <2>5
<1>8. Inv("lite", l.db, after)
  <2>1. CASE \E e \in book["agent_enrollment_tokens"] : CanConsume("lite", e, hash, now)
    BY <1>4, <1>7, <2>1
  <2>2. CASE \A e \in book["agent_enrollment_tokens"] : ~ CanConsume("lite", e, hash, now)
    BY <1>3, <1>4, <2>2 DEF StoreOK
  <2>3. QED
    BY <2>1, <2>2
<1>9. ASSUME clear /\ Apart(Milli, {now} \cup Deadlines) PROVE SameReply(l, p, SameEntity) /\ Inv("pg", p.db, after)
  <2>1. Inv("pg", pg, book)
    BY <1>9 DEF StoreOK
  <2>2. \A e \in book["agent_enrollment_tokens"] : CanConsume("lite", e, hash, now) <=> CanConsume("pg", e, hash, now)
    BY <1>9, <2>1, CanConsumeSame
  <2>3. CASE \E e \in book["agent_enrollment_tokens"] : CanConsume("lite", e, hash, now)
    <3>1. PICK e \in book["agent_enrollment_tokens"] : CanConsume("lite", e, hash, now)
      BY <2>3
    <3>2. CanConsume("pg", e, hash, now)
      BY <2>2, <3>1
    <3>3. p.error = "none" /\ p.value = Back("pg", Consumed(e, now))
          /\ Inv("pg", p.db, PutIn(book, "agent_enrollment_tokens", Consumed(e, now)))
      BY <1>5, <2>1, <3>2
    <3>4. /\ l.value = Back("lite", Consumed(e, now)) /\ l.error = "none"
          /\ SameEntity(Back("lite", Consumed(e, now)), Back("pg", Consumed(e, now)))
          /\ after = PutIn(book, "agent_enrollment_tokens", Consumed(e, now))
      BY <1>4, <1>7, <3>1
    <3>5. QED
      BY <3>3, <3>4 DEF SameReply
  <2>4. CASE \A e \in book["agent_enrollment_tokens"] : ~ CanConsume("lite", e, hash, now)
    <3>1. l.error = "none" /\ l.value = Nothing /\ after = book
      BY <1>3, <1>4, <2>4
    <3>2. p.error = "none" /\ p.value = Nothing /\ p.db = pg
      BY <1>5, <2>1, <2>2, <2>4
    <3>3. QED
      BY <2>1, <3>1, <3>2, NothingSame DEF SameReply
  <2>5. QED
    BY <2>3, <2>4
<1>10. QED
  BY <1>1, <1>6, <1>8, <1>9, EntityCalled

LEMMA EnrollmentKeeps == ASSUME StoreOK, Enrollment PROVE StoreOK'
<1>1. Instants \subseteq Nat
  BY ConformanceAssumption
<1>2. ASSUME NEW t \in New.agent_enrollment_tokens, NEW now \in Instants, Consume(t.token_hash, now) PROVE StoreOK'
  BY <1>1, <1>2, ConsumeKeeps
<1>3. QED
  BY <1>2, AgentsCreateEnrollmentTokenKeeps, AgentsCreateKeeps, HeartbeatKeeps DEF Enrollment

-----------------------------------------------------------------------------
\* Claiming a run.
LEMMA RankExact ==
  ASSUME NEW p \in Profiles, NEW s \in Nat, NEW t \in Nat, s = t \/ s + Milli <= t \/ t + Milli <= s
  PROVE  /\ Rank(p, Moment(p, s)) <= Rank(p, Moment(p, t)) <=> s <= t
         /\ Rank(p, Moment(p, s)) < Rank(p, Moment(p, t)) <=> s < t
         /\ Rank(p, Moment(p, s)) = Rank(p, Moment(p, t)) <=> s = t
<1>1. /\ Rank(p, Moment(p, s)) \in Nat /\ Rank(p, Moment(p, t)) \in Nat
      /\ RowAtMost(p, Moment(p, s), Moment(p, t)) <=> Rank(p, Moment(p, s)) <= Rank(p, Moment(p, t))
      /\ s <= t => Rank(p, Moment(p, s)) <= Rank(p, Moment(p, t))
      /\ s = t \/ s + Milli <= t \/ t + Milli <= s =>
           /\ Rank(p, Moment(p, s)) > Rank(p, Moment(p, t)) <=> s > t
           /\ Rank(p, Moment(p, s)) <= Rank(p, Moment(p, t)) <=> s <= t
           /\ Rank(p, Moment(p, s)) < Rank(p, Moment(p, t)) <=> s < t
           /\ Rank(p, Moment(p, s)) = Rank(p, Moment(p, t)) <=> s = t
  BY RankIs
<1>2. QED
  BY <1>1

LEMMA LeasedIs ==
  ASSUME NEW e, WellFormed("check_runs", e), NEW agent \in Int, NEW hash \in Nat, NEW expires \in Nat
  PROVE  WellFormed("check_runs", Leased(e, agent, hash, expires)) /\ Leased(e, agent, hash, expires).id = e.id
<1> DEFINE f == Leased(e, agent, hash, expires)
<1>1. e \in Entities("check_runs") /\ e.timeout_ms % Milli = 0 /\ e.probe_json.kind = e.probe_kind
  BY DEF WellFormed
<1>2. IsRecord(e) /\ DOMAIN e = Columns("check_runs")
  BY <1>1, EntityColumns DEF TableNames
<1>3. IsRecord(f) /\ DOMAIN f = Columns("check_runs")
  BY <1>2 DEF Leased, IsRecord
<1>4. /\ f.status = "leased" /\ f.lease_agent_id = agent /\ f.lease_token_hash = hash
      /\ f.lease_attempt = e.lease_attempt + 1 /\ f.lease_expires_at = expires
  BY <1>2 DEF Leased, Columns
<1>5. \A c \in Columns("check_runs") \ {"status", "lease_agent_id", "lease_token_hash", "lease_attempt",
          "lease_expires_at"} :
        f[c] = e[c]
  BY <1>2 DEF Leased
<1>6. /\ f.id = e.id /\ f.monitor_id = e.monitor_id /\ f.location_id = e.location_id /\
             f.scheduled_for = e.scheduled_for
      /\ f.probe_json = e.probe_json /\ f.probe_kind = e.probe_kind /\ f.timeout_ms = e.timeout_ms
      /\ f.resolved_at = e.resolved_at
  BY <1>5 DEF Columns
<1> HIDE DEF f
<1>7. /\ e.id \in Int /\ e.monitor_id \in Int /\ e.location_id \in Int /\ e.scheduled_for \in Nat /\
             e.probe_json \in ProbeJSON
      /\ e.probe_kind \in Kinds /\ e.timeout_ms \in Nat /\ e.lease_attempt \in Nat /\ e.resolved_at \in Maybe(Nat)
  BY <1>1 DEF Entities
<1>8. /\ f.status \in {"available", "leased", "resolved"} /\ f.lease_agent_id \in Maybe(Int)
      /\ f.lease_token_hash \in Maybe(Nat) /\ f.lease_attempt \in Nat /\ f.lease_expires_at \in Maybe(Nat)
  BY <1>4, <1>7 DEF Maybe
<1>9. f \in Entities("check_runs")
  BY <1>3, <1>6, <1>7, <1>8, RunTyped
<1>10. f.lease_expires_at # Nothing
  BY <1>4, NatIsSome
<1>11. WellFormed("check_runs", f)
  BY <1>1, <1>6, <1>9, <1>10 DEF WellFormed
<1>12. QED
  BY <1>6, <1>11 DEF f

LEMMA RunInstants ==
  ASSUME Inv("pg", pg, book), NEW e \in book["check_runs"]
  PROVE  /\ e.id \in Int /\ e.scheduled_for \in Nat /\ e.scheduled_for \in Deadlines
         /\ e.status = "leased" => e.lease_expires_at \in Nat /\ e.lease_expires_at \in Deadlines
<1>1. "pg" \in Profiles /\ "check_runs" \in TableNames
  BY DEF Profiles, TableNames
<1>2. e \in Entities("check_runs") /\ DOMAIN e = Columns("check_runs") /\ WellFormed("check_runs", e)
  BY <1>1, RowOf
<1>3. /\ e.id \in Int /\ e.scheduled_for \in Nat /\ e.lease_expires_at \in Maybe(Nat)
      /\ {"scheduled_for", "lease_expires_at"} \subseteq DeadlineColumns \cap DOMAIN e
  BY <1>2 DEF Entities, Columns, DeadlineColumns
<1>4. e["scheduled_for"] \in Deadlines
  BY <1>1, <1>3, DeadlineIs, NatIsSome
<1>5. ASSUME e.status = "leased" PROVE e.lease_expires_at \in Nat /\ e["lease_expires_at"] \in Deadlines
  <2>1. e.lease_expires_at # Nothing
    BY <1>2, <1>5 DEF WellFormed
  <2>2. QED
    BY <1>1, <1>3, <2>1, DeadlineIs DEF Maybe
<1>6. QED
  BY <1>3, <1>4, <1>5

LEMMA FirstClaimSame ==
  ASSUME Inv("pg", pg, book), NEW now \in Nat, NEW S, now \in S, Apart(Milli, S \cup Deadlines), NEW agent,
      NEW capabilities,
         NEW e \in book["check_runs"]
  PROVE  FirstClaim("lite", book, e, agent, capabilities, now) <=> FirstClaim("pg", book, e, agent, capabilities, now)
<1>0. "lite" \in Profiles /\ "pg" \in Profiles /\ Milli \in Nat
  BY Units DEF Profiles, Milli
<1>1. ASSUME NEW o \in book["check_runs"]
      PROVE  CanClaim("lite", book, o, agent, capabilities, now) <=> CanClaim("pg", book, o, agent, capabilities, now)
  <2>1. /\ o.id \in Int /\ o.scheduled_for \in Nat /\ o.scheduled_for \in Deadlines
        /\ o.status = "leased" => o.lease_expires_at \in Nat /\ o.lease_expires_at \in Deadlines
    BY RunInstants
  <2>2. o.scheduled_for = now \/ o.scheduled_for + Milli <= now \/ now + Milli <= o.scheduled_for
    BY <1>0, <2>1, ApartIs
  <2>3. ASSUME NEW p \in Profiles
        PROVE  Rank(p, Moment(p, o.scheduled_for)) <= Rank(p, Moment(p, now)) <=> o.scheduled_for <= now
    BY <2>1, <2>2, RankExact
  <2>4. ASSUME o.status = "leased", NEW p \in Profiles
        PROVE  Rank(p, Moment(p, o.lease_expires_at)) <= Rank(p, Moment(p, now)) <=> o.lease_expires_at <= now
    <3>1. o.lease_expires_at = now \/ o.lease_expires_at + Milli <= now \/ now + Milli <= o.lease_expires_at
      BY <1>0, <2>1, <2>4, ApartIs
    <3>2. QED
      BY <2>1, <2>4, <3>1, RankExact
  <2>5. QED
    BY <1>0, <2>3, <2>4 DEF CanClaim
<1>2. ASSUME NEW o \in book["check_runs"] PROVE Sooner("lite", o, e) <=> Sooner("pg", o, e)
  <2>1. /\ o.scheduled_for \in Nat /\ o.scheduled_for \in Deadlines
        /\ e.scheduled_for \in Nat /\ e.scheduled_for \in Deadlines
    BY RunInstants
  <2>2. \/ o.scheduled_for = e.scheduled_for \/ o.scheduled_for + Milli <= e.scheduled_for
        \/ e.scheduled_for + Milli <= o.scheduled_for
    BY <1>0, <2>1, ApartIs
  <2>3. ASSUME NEW p \in Profiles
        PROVE  /\ Rank(p, Moment(p, o.scheduled_for)) <= Rank(p, Moment(p,
                      e.scheduled_for)) <=> o.scheduled_for <= e.scheduled_for
               /\ Rank(p, Moment(p, o.scheduled_for)) < Rank(p, Moment(p,
                      e.scheduled_for)) <=> o.scheduled_for < e.scheduled_for
               /\ Rank(p, Moment(p, o.scheduled_for)) = Rank(p, Moment(p,
                      e.scheduled_for)) <=> o.scheduled_for = e.scheduled_for
    BY <2>1, <2>2, RankExact
  <2>4. QED
    BY <1>0, <2>3 DEF Sooner
<1>3. QED
  BY <1>1, <1>2 DEF FirstClaim

LEMMA ClaimKeeps ==
  ASSUME StoreOK, NEW agent \in book.agents, NEW now \in Nat, NEW expires \in Nat, Claim(agent, now, expires)
  PROVE  StoreOK'
<1>0. "lite" \in Profiles /\ "pg" \in Profiles /\ {"check_runs", "agents"} \subseteq TableNames
  BY DEF Profiles, TableNames
<1>1. agent.id \in Int
  <2>1. agent \in Entities("agents")
    BY <1>0, RowOf DEF StoreOK
  <2>2. QED
    BY <2>1 DEF Entities
<1> DEFINE hash == Cardinality({r \in book.check_runs : r.lease_attempt > 0})
           id == agent.id
           can == agent.capabilities_json
           params == ClaimParams(id, hash, expires, now, can)
           l == Lite!RunsClaimProbe(lite, params)
           p == Pg!RunsClaimProbe(pg, params)
           claimed == CHOOSE r \in book.check_runs : r.id = l.value.id
           after == IF l.error = "none" THEN Put("check_runs", Leased(claimed, id, hash, expires)) ELSE book
<1>2. hash \in Nat
  <2>1. IsFiniteSet(book.check_runs)
    BY <1>0 DEF StoreOK, Inv, BookInv
  <2>2. QED
    BY <2>1, FS_Subset, FS_CardinalityType
<1>3. Called(l, p, SameReply(l, p, SameEntity), Milli, {now, expires}, after)
  BY DEF Claim, ClaimParams, Leased
<1>4. l = ClaimCall("lite", lite, params) /\ p = ClaimCall("pg", pg, params)
  BY DEF ClaimCall
<1> HIDE DEF hash, id, can
<1>5. id \in Int
  BY <1>1 DEF id
<1>6. /\ l = ClaimCall("lite", lite, ClaimParams(id, hash, expires, now, can))
      /\ p = ClaimCall("pg", pg, ClaimParams(id, hash, expires, now, can))
  BY <1>4
<1> HIDE DEF l, p
<1>7. after = IF l.error = "none" THEN PutIn(book, "check_runs", Leased(claimed, id, hash, expires)) ELSE book
  BY PutIsPutIn
<1> HIDE DEF after
<1> DEFINE Lend(e) == Leased(e, id, hash, expires)
           May(q, bk, e) == FirstClaim(q, bk, e, id, can, now)
<1>8. /\ (\A e \in book["check_runs"] : ~ May("lite", book, e)) => l.error = "not_found" /\ l.db = lite
      /\ \A e \in book["check_runs"] : May("lite", book, e) =>
           /\ l.error = "none" /\ l.value = Back("lite", Lend(e))
           /\ Inv("lite", l.db, PutIn(book, "check_runs", Lend(e)))
  BY <1>0, <1>2, <1>5, <1>6, Claiming DEF StoreOK
<1>9. ASSUME NEW bk, Inv("pg", pg, bk)
      PROVE  /\ (\A e \in bk["check_runs"] : ~ May("pg", bk, e)) => p.error = "not_found" /\ p.db = pg
             /\ \A e \in bk["check_runs"] : May("pg", bk, e) =>
                  /\ p.error = "none" /\ p.value = Back("pg", Lend(e))
                  /\ Inv("pg", p.db, PutIn(bk, "check_runs", Lend(e)))
  BY <1>0, <1>2, <1>5, <1>6, <1>9, Claiming
<1> HIDE DEF May
<1>10. \E kept : Inv("pg", p.db, kept)
  BY <1>9 DEF StoreOK
<1>11. ASSUME NEW e \in book["check_runs"], May("lite", book, e)
       PROVE  /\ l.value = Back("lite", Lend(e)) /\ l.error = "none"
              /\ SameEntity(Back("lite", Lend(e)), Back("pg", Lend(e)))
              /\ after = PutIn(book, "check_runs", Lend(e))
  <2>1. WellFormed("check_runs", e)
    BY <1>0, RowOf DEF StoreOK
  <2>2. WellFormed("check_runs", Lend(e)) /\ Lend(e).id = e.id
    BY <1>2, <1>5, <2>1, LeasedIs
  <2>3. /\ SameEntity(Back("lite", Lend(e)), Back("pg", Lend(e))) /\ Back("lite", Lend(e)) = Lend(e)
        /\ Back("lite", Lend(e)) # Nothing /\ Back("pg", Lend(e)) # Nothing
    BY <2>2, SameBack
  <2>4. l.error = "none" /\ l.value = Back("lite", Lend(e))
    BY <1>8, <1>11
  <2>5. l.value.id = e.id
    BY <2>2, <2>3, <2>4
  <2>6. \A o \in book["check_runs"] : o.id = e.id => o = e
    BY <1>0, RowOf DEF StoreOK, PrimaryKey, Equal
  <2>7. claimed = e
    BY <2>5, <2>6
  <2> HIDE DEF claimed
  <2>8. QED
    BY <1>7, <2>3, <2>4, <2>7
<1>12. Inv("lite", l.db, after)
  <2>1. CASE \E e \in book["check_runs"] : May("lite", book, e)
    BY <1>8, <1>11, <2>1
  <2>2. CASE \A e \in book["check_runs"] : ~ May("lite", book, e)
    BY <1>7, <1>8, <2>2 DEF StoreOK
  <2>3. QED
    BY <2>1, <2>2
<1>13. ASSUME clear /\ Apart(Milli, {now, expires} \cup Deadlines)
       PROVE  SameReply(l, p, SameEntity) /\ Inv("pg", p.db, after)
  <2>1. Inv("pg", pg, book)
    BY <1>13 DEF StoreOK
  <2>2. \A e \in book["check_runs"] : May("lite", book, e) <=> May("pg", book, e)
    BY <1>13, <2>1, FirstClaimSame DEF May
  <2>3. CASE \E e \in book["check_runs"] : May("lite", book, e)
    <3>1. PICK e \in book["check_runs"] : May("lite", book, e)
      BY <2>3
    <3>2. May("pg", book, e)
      BY <2>2, <3>1
    <3>3. p.error = "none" /\ p.value = Back("pg", Lend(e)) /\ Inv("pg", p.db, PutIn(book, "check_runs", Lend(e)))
      BY <1>9, <2>1, <3>2
    <3>4. /\ l.value = Back("lite", Lend(e)) /\ l.error = "none"
          /\ SameEntity(Back("lite", Lend(e)), Back("pg", Lend(e)))
          /\ after = PutIn(book, "check_runs", Lend(e))
      BY <1>11, <3>1
    <3>5. QED
      BY <3>3, <3>4 DEF SameReply
  <2>4. CASE \A e \in book["check_runs"] : ~ May("lite", book, e)
    <3>1. l.error = "not_found" /\ after = book
      BY <1>7, <1>8, <2>4
    <3>2. p.error = "not_found" /\ p.db = pg
      BY <1>9, <2>1, <2>2, <2>4
    <3>3. QED
      BY <2>1, <3>1, <3>2 DEF SameReply
  <2>5. QED
    BY <2>3, <2>4
<1>14. QED
  BY <1>3, <1>10, <1>12, <1>13, EntityCalled

LEMMA WorkKeeps == ASSUME StoreOK, Work PROVE StoreOK'
<1>1. Instants \subseteq Nat /\ Milli \in Nat
  BY ConformanceAssumption, Units DEF Milli
<1>2. ASSUME NEW a \in book.agents, NEW now \in Instants, Claim(a, now, now + Milli) PROVE StoreOK'
  <2>1. now \in Nat /\ now + Milli \in Nat
    BY <1>1
  <2>2. QED
    BY <1>2, <2>1, ClaimKeeps
<1>3. QED
  BY <1>2, RunsInsertKeeps, ResolveKeeps, ResultsInsertKeeps DEF Work

-----------------------------------------------------------------------------
\* One transaction that creates a monitor and assigns it.
InTx(db, reply) == IF reply.error = "none" THEN reply ELSE [reply EXCEPT !.db = db]
BookTx(bk, mon, a) ==
  BookAllows(bk, "monitors", mon) /\ BookUpserts(PutIn(bk, "monitors", mon), "monitor_locations", a)
PutTx(bk, mon, a) == [PutIn(bk, "monitors", mon) EXCEPT !["monitor_locations"] = @ \cup {a}]

\* A new monitor has no assignment yet.
LEMMA FirstAssignment ==
  ASSUME NEW p \in Profiles, NEW db, NEW bk, Inv(p, db, bk), NEW mon, WellFormed("monitors", mon),
         NEW a \in Entities("monitor_locations"), a.monitor_id = mon.id, BookAllows(bk, "monitors", mon)
  PROVE  PutIn(PutIn(bk, "monitors", mon), "monitor_locations", a) = PutTx(bk, mon, a)
<1>1. {"monitors", "monitor_locations"} \subseteq TableNames /\ "monitors" # "monitor_locations"
  BY DEF TableNames
<1>2. bk = [t \in TableNames |-> bk[t]]
  BY DEF Inv, BookInv
<1> DEFINE b == PutIn(bk, "monitors", mon)
<1>3. b = [t \in TableNames |-> b[t]] /\ b["monitor_locations"] = bk["monitor_locations"]
  BY <1>1, <1>2, PutAt
<1> HIDE DEF b
<1>4. \A o \in bk["monitors"] : o.id # mon.id
  <2>1. {"id"} \in KeysOf("monitors")
    BY DEF KeysOf, PrimaryKey
  <2>2. \A o \in bk["monitors"] : ~ SameKey(o, mon, {"id"})
    BY <2>1 DEF BookAllows
  <2>3. QED
    BY <2>2 DEF SameKey, Equal
<1>5. \A o \in bk["monitor_locations"] : ~ Equal(o, a, PrimaryKey("monitor_locations"))
  <2>1. PrimaryKey("monitor_locations") = {"monitor_id", "location_id"}
    BY DEF PrimaryKey
  <2>2. \A o \in bk["monitor_locations"] : \E m \in bk["monitors"] : m.id = o.monitor_id
    BY DEF Inv, BookInv
  <2>3. QED
    BY <1>4, <2>1, <2>2 DEF Equal
<1>6. {o \in b["monitor_locations"] : ~ Equal(o, a, PrimaryKey("monitor_locations"))} = b["monitor_locations"]
  BY <1>3, <1>5
<1>7. QED
  BY <1>6 DEF PutIn, PutTx, b

LEMMA CreatingAssigned ==
  ASSUME NEW p \in Profiles, NEW db, NEW bk, Inv(p, db, bk), NEW mon, WellFormed("monitors", mon),
         NEW a, WellFormed("monitor_locations", a), a.monitor_id = mon.id,
         NEW r, r = Reported(Insert(db, "monitors", Row(p, mon))),
         NEW s, s = IF r.error = "none" THEN Reported(Upsert(r.db, "monitor_locations", Row(p, a))) ELSE r,
         NEW t, t = InTx(db, s)
  PROVE  /\ t.value = Nothing /\ t.error \in {"none", "conflict"}
         /\ t.error # "none" => t.db = db
         /\ t.error = "none" => Inv(p, t.db, PutTx(bk, mon, a))
         /\ t.error = "none" <=> BookTx(bk, mon, a)
<1>0. /\ {"monitors", "monitor_locations"} \subseteq TableNames /\ "monitors" # "check_runs"
      /\ "monitor_locations" \in {"monitor_locations", "location_health", "monitor_health"}
  BY DEF TableNames
<1> DEFINE b == PutIn(bk, "monitors", mon)
<1>1. Keeps(p, Row(p, mon), mon) /\ Keeps(p, Row(p, a), a) /\ a \in Entities("monitor_locations")
  BY RowKeeps DEF WellFormed
<1>2. /\ r.value = Nothing /\ r.error \in {"none", "conflict"}
      /\ r.error = "none" => Inv(p, r.db, PutIn(bk, "monitors", mon))
      /\ r.error # "none" => r.db = db
      /\ "monitors" # "check_runs" => (r.error = "none" <=> BookAllows(bk, "monitors", mon))
  BY <1>0, <1>1, Creating
<1>3. CASE r.error # "none"
  <2>1. s = r /\ t = [r EXCEPT !.db = db]
    BY <1>3 DEF InTx
  <2>2. r = [db |-> r.db, value |-> r.value, error |-> r.error]
    BY DEF Reported
  <2>3. t.db = db /\ t.value = r.value /\ t.error = r.error
    BY <2>1, <2>2
  <2>4. QED
    BY <1>0, <1>2, <1>3, <2>3 DEF BookTx
<1>4. CASE r.error = "none"
  <2>1. s = Reported(Upsert(r.db, "monitor_locations", Row(p, a))) /\ Inv(p, r.db, b) /\ BookAllows(bk, "monitors", mon)
    BY <1>0, <1>2, <1>4
  <2> HIDE DEF b
  <2>2. /\ s.value = Nothing
        /\ s.error = "none" => Inv(p, s.db, PutIn(b, "monitor_locations", a))
        /\ s.error # "none" => s.db = r.db
        /\ s.error = "none" <=> BookUpserts(b, "monitor_locations", a)
    BY <1>0, <1>1, <2>1, Upserting
  <2>3. s.error \in {"none", "conflict"}
    BY <2>1, UpsertErrors
  <2>4. s = [db |-> s.db, value |-> s.value, error |-> s.error]
    BY <2>1 DEF Reported
  <2>5. t.value = s.value /\ t.error = s.error /\ (s.error = "none" => t.db = s.db) /\ (s.error # "none" => t.db = db)
    BY <2>4 DEF InTx
  <2>6. PutIn(b, "monitor_locations", a) = PutTx(bk, mon, a)
    BY <1>1, <2>1, FirstAssignment DEF b
  <2>7. BookTx(bk, mon, a) <=> BookUpserts(b, "monitor_locations", a)
    BY <2>1 DEF BookTx, b
  <2>8. QED
    BY <2>2, <2>3, <2>5, <2>6, <2>7
<1>5. QED
  BY <1>3, <1>4

LEMMA CreateAssignedKeeps ==
  ASSUME StoreOK, NEW mon \in New.monitors, NEW place \in Int,
         NEW a, a = [monitor_id |-> mon.id, location_id |-> place, required |-> TRUE], CreateAssigned(mon, a)
  PROVE  StoreOK'
<1>0. "lite" \in Profiles /\ "pg" \in Profiles /\ "monitors" \in TableNames \ {"check_runs"} /\ mon \in New["monitors"]
  BY DEF Profiles, TableNames
<1>1. mon \in Entities("monitors") /\ WellFormed("monitors", mon)
  BY <1>0, NewIsWellFormed
<1>2. a \in Entities("monitor_locations") /\ a.monitor_id = mon.id
  <2>1. mon.id \in Int
    BY <1>1 DEF Entities
  <2>2. QED
    BY <2>1 DEF Entities
<1>3. WellFormed("monitor_locations", a)
  BY <1>2 DEF WellFormed
<1>4. /\ IsRecord(mon) /\ DOMAIN mon = Columns("monitors")
      /\ mon.next_run_at # Nothing /\ mon.created_at # Nothing /\ mon.updated_at # Nothing
  <2>1. mon.next_run_at \in Nat /\ mon.created_at \in Nat /\ mon.updated_at \in Nat
    BY <1>1 DEF Entities
  <2>2. QED
    BY <1>0, <1>1, <2>1, EntityColumns, NatIsSome
<1> DEFINE l  == Lite!MonitorsCreate(lite, mon)
           p  == Pg!MonitorsCreate(pg, mon)
           ls == IF l.error = "none" THEN Lite!MonitorsAssignLocation(l.db, a) ELSE l
           ps == IF p.error = "none" THEN Pg!MonitorsAssignLocation(p.db, a) ELSE p
           lt == Lite!WithinTx(lite, ls)
           pt == Pg!WithinTx(pg, ps)
           after == IF lt.error = "none" THEN [Put("monitors", mon) EXCEPT !.monitor_locations = @ \cup {a}] ELSE book
<1>5. Called(lt, pt, SameReply(lt, pt, SameValue), Milli, {}, after)
  BY DEF CreateAssigned
<1>6. /\ l = Reported(Insert(lite, "monitors", Row("lite", mon)))
      /\ p = Reported(Insert(pg, "monitors", Row("pg", mon)))
  BY <1>4, MonitorsCreateIs
<1> HIDE DEF l, p
<1>7. /\ ls = IF l.error = "none" THEN Reported(Upsert(l.db, "monitor_locations", Row("lite", a))) ELSE l
      /\ ps = IF p.error = "none" THEN Reported(Upsert(p.db, "monitor_locations", Row("pg", a))) ELSE p
  BY <1>2, MonitorsAssignLocationIs
<1> HIDE DEF ls, ps
<1>8. lt = InTx(lite, ls) /\ pt = InTx(pg, ps)
  BY DEF InTx, Lite!WithinTx, Pg!WithinTx
<1> HIDE DEF lt, pt
<1>9. after = IF lt.error = "none" THEN PutTx(book, mon, a) ELSE book
  BY PutIsPutIn DEF PutTx
<1> HIDE DEF after
<1>10. /\ lt.value = Nothing /\ lt.error \in {"none", "conflict"}
       /\ lt.error # "none" => lt.db = lite
       /\ lt.error = "none" => Inv("lite", lt.db, PutTx(book, mon, a))
       /\ lt.error = "none" <=> BookTx(book, mon, a)
  <2>1. /\ Inv("lite", lite, book) /\ l = Reported(Insert(lite, "monitors", Row("lite", mon)))
        /\ ls = IF l.error = "none" THEN Reported(Upsert(l.db, "monitor_locations", Row("lite", a))) ELSE l
        /\ lt = InTx(lite, ls)
    BY <1>6, <1>7, <1>8 DEF StoreOK
  <2>2. QED
    BY <1>0, <1>1, <1>2, <1>3, <2>1, CreatingAssigned
<1>11. ASSUME NEW bk, Inv("pg", pg, bk)
       PROVE  /\ pt.value = Nothing /\ pt.error \in {"none", "conflict"}
              /\ pt.error # "none" => pt.db = pg
              /\ pt.error = "none" => Inv("pg", pt.db, PutTx(bk, mon, a))
              /\ pt.error = "none" <=> BookTx(bk, mon, a)
  <2>1. /\ p = Reported(Insert(pg, "monitors", Row("pg", mon)))
        /\ ps = IF p.error = "none" THEN Reported(Upsert(p.db, "monitor_locations", Row("pg", a))) ELSE p
        /\ pt = InTx(pg, ps)
    BY <1>6, <1>7, <1>8
  <2>2. QED
    BY <1>0, <1>1, <1>2, <1>3, <1>11, <2>1, CreatingAssigned
<1>12. Inv("lite", lt.db, after)
  BY <1>9, <1>10 DEF StoreOK
<1>13. \E b : Inv("pg", pt.db, b)
  BY <1>11 DEF StoreOK
<1>14. ASSUME clear /\ Apart(Milli, {} \cup Deadlines) PROVE SameReply(lt, pt, SameValue) /\ Inv("pg", pt.db, after)
  <2>1. Inv("pg", pg, book)
    BY <1>14 DEF StoreOK
  <2>2. /\ pt.value = Nothing /\ pt.error \in {"none", "conflict"}
        /\ pt.error # "none" => pt.db = pg
        /\ pt.error = "none" => Inv("pg", pt.db, PutTx(book, mon, a))
        /\ pt.error = "none" <=> BookTx(book, mon, a)
    BY <1>11, <2>1
  <2>3. lt.error = pt.error
    BY <1>10, <2>2
  <2>4. SameReply(lt, pt, SameValue)
    BY <1>10, <2>2, <2>3 DEF SameReply, SameValue
  <2>5. Inv("pg", pt.db, after)
    BY <1>9, <2>1, <2>2, <2>3
  <2>6. QED
    BY <2>4, <2>5
<1>15. QED
  BY <1>5, <1>12, <1>13, <1>14, ValueCalled

LEMMA SetupKeeps == ASSUME StoreOK, Setup PROVE StoreOK'
<1>1. ASSUME NEW mon \in New.monitors, NEW place \in {1, 2},
             CreateAssigned(mon, [monitor_id |-> mon.id, location_id |-> place, required |-> TRUE])
      PROVE  StoreOK'
  BY <1>1, CreateAssignedKeeps
<1>2. QED
  BY <1>1, LocationsCreateKeeps, MonitorsCreateKeeps, MonitorsAssignLocationKeeps, AdvanceKeeps DEF Setup

-----------------------------------------------------------------------------
LEMMA StoreInitOK == ASSUME StoreInit PROVE StoreOK
BY FixtureKept DEF StoreInit, StoreOK

LEMMA StoreNextOK == ASSUME StoreOK, [StoreNext]_storeVars PROVE StoreOK'
<1>1. CASE UNCHANGED storeVars
  BY <1>1 DEF storeVars, StoreOK
<1>2. CASE StoreNext
  BY <1>2, AccessKeeps, SetupKeeps, EnrollmentKeeps, WorkKeeps, HealthKeeps, IncidentsKeep DEF StoreNext
<1>3. QED
  BY <1>1, <1>2

(***************************************************************************)
(* Whatever calls are made, SQLite keeps exactly the entities that the     *)
(* callers were told are written, PostgreSQL keeps them too as long as no  *)
(* two instants too close were compared, and until then their answers      *)
(* agreed.                                                                 *)
(***************************************************************************)
THEOREM StoreInvariance == StoreSpec => []StoreOK
<1>1. StoreInit => StoreOK
  BY StoreInitOK
<1>2. StoreOK /\ [StoreNext]_storeVars => StoreOK'
  BY StoreNextOK
<1>3. QED
  BY <1>1, <1>2, PTL DEF StoreSpec

(***************************************************************************)
(* What a repository method wrote, the next one reads, in both profiles.   *)
(***************************************************************************)
THEOREM StoresReadBack == StoreSpec => []ReadsBack
<1>1. StoreOK => ReadsBack
  BY BothRead DEF StoreOK
<1>2. QED
  BY <1>1, StoreInvariance, PTL

-----------------------------------------------------------------------------
\* The first n of a set in an order, as a set of pairs.
FirstIn(S, n, before) == {x \in S : Cardinality({y \in S : <<y, x>> \in before}) < n}

\* Where the rows of a listing are those of the entities of another, and are
\* ordered as these are, their first ones are too.
LEMMA Paired ==
  ASSUME NEW p \in Profiles, NEW db, NEW bk, Inv(p, db, bk), NEW t \in TableNames
  PROVE  \E rel : /\ \A e \in bk[t] : \A r \in db[t] : <<e, r>> \in rel <=> Keeps(p, r, e)
                  /\ \A e \in bk[t] : \E r \in db[t] : <<e, r>> \in rel
                  /\ \A r \in db[t] : \E e \in bk[t] : <<e, r>> \in rel
                  /\ \A e \in bk[t] : \A r, s \in db[t] : <<e, r>> \in rel /\ <<e, s>> \in rel => r = s
                  /\ \A e, f \in bk[t] : \A r \in db[t] : <<e, r>> \in rel /\ <<f, r>> \in rel => e = f
<1> DEFINE rel == Pairs(p, db, bk, t)
<1>0. \A e \in bk[t] : \A r \in db[t] : <<e, r>> \in rel <=> Keeps(p, r, e)
  BY PairsAre
<1> HIDE DEF rel
<1>2. /\ \A e \in bk[t] : \E r \in db[t] : <<e, r>> \in rel
      /\ \A r \in db[t] : \E e \in bk[t] : <<e, r>> \in rel
      /\ \A e \in bk[t] : \A r, s \in db[t] : <<e, r>> \in rel /\ <<e, s>> \in rel => r = s
      /\ \A e, f \in bk[t] : \A r \in db[t] : <<e, r>> \in rel /\ <<f, r>> \in rel => e = f
  BY <1>0, RowOf
<1>3. QED
  BY <1>0, <1>2

LEMMA SubsetsPaired ==
  ASSUME NEW p \in Profiles, NEW db, NEW bk, Inv(p, db, bk), NEW t \in TableNames,
         NEW S \in SUBSET bk[t], NEW T \in SUBSET db[t],
         \A e \in bk[t] : \A r \in db[t] : Keeps(p, r, e) => (e \in S <=> r \in T)
  PROVE  IsFiniteSet(S) /\ IsFiniteSet(T) /\ Cardinality(T) = Cardinality(S)
<1>1. IsFiniteSet(S)
  BY RowsCounted, FS_Subset
<1>2. PICK rel : /\ \A e \in bk[t] : \A r \in db[t] : <<e, r>> \in rel <=> Keeps(p, r, e)
                 /\ \A e \in bk[t] : \E r \in db[t] : <<e, r>> \in rel
                 /\ \A r \in db[t] : \E e \in bk[t] : <<e, r>> \in rel
                 /\ \A e \in bk[t] : \A r, s \in db[t] : <<e, r>> \in rel /\ <<e, s>> \in rel => r = s
                 /\ \A e, f \in bk[t] : \A r \in db[t] : <<e, r>> \in rel /\ <<f, r>> \in rel => e = f
  BY Paired
<1>3. /\ \A e \in S : \E r \in T : <<e, r>> \in rel
      /\ \A r \in T : \E e \in S : <<e, r>> \in rel
      /\ \A e \in S : \A r, s \in T : <<e, r>> \in rel /\ <<e, s>> \in rel => r = s
      /\ \A e, f \in S : \A r \in T : <<e, r>> \in rel /\ <<f, r>> \in rel => e = f
  BY <1>2
<1>4. QED
  BY <1>1, <1>3, SameSize

LEMMA FirstPaired ==
  ASSUME NEW p \in Profiles, NEW db, NEW bk, Inv(p, db, bk), NEW t \in TableNames,
         NEW S \in SUBSET bk[t], NEW T \in SUBSET db[t],
         \A e \in bk[t] : \A r \in db[t] : Keeps(p, r, e) => (e \in S <=> r \in T),
         NEW before, NEW sooner,
         \A e, f \in bk[t] : \A r, s \in db[t] :
           Keeps(p, r, e) /\ Keeps(p, s, f) => (<<e, f>> \in before <=> <<r, s>> \in sooner),
         NEW n
  PROVE  \A e \in bk[t] : \A r \in db[t] :
           Keeps(p, r, e) => (e \in FirstIn(S, n, before) <=> r \in FirstIn(T, n, sooner))
<1> SUFFICES ASSUME NEW e \in bk[t], NEW r \in db[t], Keeps(p, r, e)
             PROVE  e \in FirstIn(S, n, before) <=> r \in FirstIn(T, n, sooner)
  OBVIOUS
<1> DEFINE E == {f \in S : <<f, e>> \in before}
           R == {s \in T : <<s, r>> \in sooner}
<1>1. E \in SUBSET bk[t] /\ R \in SUBSET db[t]
  OBVIOUS
<1>2. \A f \in bk[t] : \A s \in db[t] : Keeps(p, s, f) => (f \in E <=> s \in R)
  OBVIOUS
<1>3. e \in FirstIn(S, n, before) <=> e \in S /\ Cardinality(E) < n
  BY DEF FirstIn
<1>4. r \in FirstIn(T, n, sooner) <=> r \in T /\ Cardinality(R) < n
  BY DEF FirstIn
<1> HIDE DEF E, R
<1>5. Cardinality(R) = Cardinality(E)
  BY <1>1, <1>2, SubsetsPaired
<1>6. QED
  BY <1>3, <1>4, <1>5

-----------------------------------------------------------------------------
\* Listing what is stale.
StaleListCall(p, db, now, limit) ==
  IF p = "lite" THEN Lite!HealthListStale(db, now, limit) ELSE Pg!HealthListStale(db, now, limit)

HealthRead(p, r) == IF p = "lite" THEN Lite!MapLocationHealth(r) ELSE Pg!MapLocationHealth(r)

StaleRows(p, db, now) ==
  {r \in db["location_health"] : r.stale_at # Null /\ Rank(p, r.stale_at) <= Rank(p, Moment(p, now))}

StaleRowOrder(p, db) ==
  {x \in db["location_health"] \X db["location_health"] :
     \/ Rank(p, x[1].stale_at) < Rank(p, x[2].stale_at)
     \/ /\ Rank(p, x[1].stale_at) = Rank(p, x[2].stale_at)
        /\ \/ x[1].monitor_id < x[2].monitor_id
           \/ x[1].monitor_id = x[2].monitor_id /\ x[1].location_id < x[2].location_id}

StaleRowsListed(p, db, now, limit) == FirstIn(StaleRows(p, db, now), limit, StaleRowOrder(p, db))

LEMMA StaleListIs ==
  ASSUME NEW p \in Profiles, NEW db, NEW now \in Nat, NEW limit,
         \A r \in db["location_health"] : Lite!HealthReadable(r) /\ Pg!HealthReadable(r)
  PROVE  StaleListCall(p, db, now, limit)
           = [db |-> db, value |-> {HealthRead(p, r) : r \in StaleRowsListed(p, db, now, limit)}, error |-> "none"]
<1>1. now # Nothing
  BY NatIsSome
<1> DEFINE rows == StaleRowsListed(p, db, now, limit)
           open == StaleRows(p, db, now)
<1>0. rows \subseteq db["location_health"] /\ open \subseteq db["location_health"]
  BY DEF StaleRowsListed, FirstIn, StaleRows
<1>2. CASE p = "lite"
  <2> DEFINE free == {h \in db["location_health"] :
                        h.stale_at # Null /\ Lite!Julian(h.stale_at) <= Lite!Julian(Lite!FormatTime(now))}
             before(r) == {s \in free : Lite!Lexicographic(<<Lite!Julian(s.stale_at), s.monitor_id, s.location_id>>,
                                                           <<Lite!Julian(r.stale_at), r.monitor_id, r.location_id>>)}
             first == {r \in free : Lite!Cardinality(before(r)) < limit}
             answer == [db |-> db, rows |-> first, error |-> "none"]
  <2>1. StaleListCall(p, db, now, limit) = Lite!Listed(answer, Lite!HealthReadable, Lite!MapLocationHealth)
    BY <1>1, <1>2 DEF StaleListCall, Lite!HealthListStale, Lite!ListStaleLocationHealth, Lite!Answer, Lite!First,
                      Lite!NullableTimeValue
  <2>2. free = open
    BY <1>1, <1>2 DEF StaleRows, Rank, Moment
  <2>3. first = rows
    <3>1. \A r \in open : before(r) = {s \in open : <<s, r>> \in StaleRowOrder(p, db)}
      <4>1. \A r, s \in open : <<s, r>> \in db["location_health"] \X db["location_health"]
        BY <1>0
      <4>2. \A r, s \in open :
              Lite!Lexicographic(<<Lite!Julian(s.stale_at), s.monitor_id, s.location_id>>,
                                 <<Lite!Julian(r.stale_at), r.monitor_id, r.location_id>>)
                <=> <<s, r>> \in StaleRowOrder(p, db)
        <5>1. \A r, s \in open : <<s, r>> \in StaleRowOrder(p, db) <=>
                \/ Rank(p, s.stale_at) < Rank(p, r.stale_at)
                \/ /\ Rank(p, s.stale_at) = Rank(p, r.stale_at)
                   /\ \/ s.monitor_id < r.monitor_id
                      \/ s.monitor_id = r.monitor_id /\ s.location_id < r.location_id
          <6> HIDE DEF open
          <6>1. QED
            BY <4>1 DEF StaleRowOrder
        <5> HIDE DEF open
        <5>2. \A r, s : Lite!Lexicographic(<<Rank(p, s.stale_at), s.monitor_id, s.location_id>>,
                                         <<Rank(p, r.stale_at), r.monitor_id, r.location_id>>) <=>
                \/ Rank(p, s.stale_at) < Rank(p, r.stale_at)
                \/ /\ Rank(p, s.stale_at) = Rank(p, r.stale_at)
                   /\ \/ s.monitor_id < r.monitor_id
                      \/ s.monitor_id = r.monitor_id /\ s.location_id < r.location_id
          BY TripleOrder
        <5>3. \A x : Lite!Julian(x) = Rank(p, x)
          BY <1>2 DEF Rank
        <5>4. QED
          BY <5>1, <5>2, <5>3
      <4> HIDE DEF open, free
      <4>3. QED
        BY <2>2, <4>2
    <3> HIDE DEF open, free, before
    <3>2. QED
      BY <2>2, <3>1, SameCardinality DEF StaleRowsListed, FirstIn, open
  <2> HIDE DEF first, rows
  <2>4. QED
    BY <1>0, <1>2, <2>1, <2>3 DEF Lite!Listed, Lite!Reply, Lite!RepositoryError, HealthRead, rows
<1>3. CASE p = "pg"
  <2> DEFINE free == {h \in db["location_health"] : h.stale_at # Null /\ h.stale_at <= Pg!FormatTime(now)}
             before(r) == {s \in free : Pg!Lexicographic(<<s.stale_at, s.monitor_id, s.location_id>>,
                                                         <<r.stale_at, r.monitor_id, r.location_id>>)}
             first == {r \in free : Pg!Cardinality(before(r)) < limit}
             answer == [db |-> db, rows |-> first, error |-> "none"]
  <2>1. StaleListCall(p, db, now, limit) = Pg!Listed(answer, Pg!HealthReadable, Pg!MapLocationHealth)
    BY <1>1, <1>3 DEF StaleListCall, Pg!HealthListStale, Pg!ListStaleLocationHealth, Pg!Answer, Pg!First,
                      Pg!NullableTimeValue
  <2>2. free = open
    BY <1>1, <1>3 DEF StaleRows, Rank, Moment
  <2>3. first = rows
    <3>1. \A r \in open : before(r) = {s \in open : <<s, r>> \in StaleRowOrder(p, db)}
      <4>1. \A r, s \in open : <<s, r>> \in db["location_health"] \X db["location_health"]
        BY <1>0
      <4>2. \A r, s \in open :
              Pg!Lexicographic(<<s.stale_at, s.monitor_id, s.location_id>>,
                               <<r.stale_at, r.monitor_id, r.location_id>>)
                <=> <<s, r>> \in StaleRowOrder(p, db)
        <5>1. \A r, s \in open : <<s, r>> \in StaleRowOrder(p, db) <=>
                \/ Rank(p, s.stale_at) < Rank(p, r.stale_at)
                \/ /\ Rank(p, s.stale_at) = Rank(p, r.stale_at)
                   /\ \/ s.monitor_id < r.monitor_id
                      \/ s.monitor_id = r.monitor_id /\ s.location_id < r.location_id
          <6> HIDE DEF open
          <6>1. QED
            BY <4>1 DEF StaleRowOrder
        <5> HIDE DEF open
        <5>2. \A r, s : Pg!Lexicographic(<<Rank(p, s.stale_at), s.monitor_id, s.location_id>>,
                                         <<Rank(p, r.stale_at), r.monitor_id, r.location_id>>) <=>
                \/ Rank(p, s.stale_at) < Rank(p, r.stale_at)
                \/ /\ Rank(p, s.stale_at) = Rank(p, r.stale_at)
                   /\ \/ s.monitor_id < r.monitor_id
                      \/ s.monitor_id = r.monitor_id /\ s.location_id < r.location_id
          BY TripleOrder
        <5>3. \A x : x = Rank(p, x)
          BY <1>3 DEF Rank
        <5>4. QED
          BY <5>1, <5>2, <5>3
      <4> HIDE DEF open, free
      <4>3. QED
        BY <2>2, <4>2
    <3> HIDE DEF open, free, before
    <3>2. QED
      BY <2>2, <3>1, SameCardinality DEF StaleRowsListed, FirstIn, open
  <2> HIDE DEF first, rows
  <2>4. QED
    BY <1>0, <1>3, <2>1, <2>3 DEF Pg!Listed, Pg!Reply, Pg!RepositoryError, HealthRead, rows
<1>4. QED
  BY <1>2, <1>3 DEF Profiles

-----------------------------------------------------------------------------
\* The listing in terms of the book.
Overdue(p, bk, now) ==
  {e \in bk["location_health"] : e.stale_at # Nothing /\ Rank(p, Moment(p, e.stale_at)) <= Rank(p, Moment(p, now))}

OverdueOrder(p, bk) ==
  {x \in bk["location_health"] \X bk["location_health"] :
     \/ Rank(p, Moment(p, x[1].stale_at)) < Rank(p, Moment(p, x[2].stale_at))
     \/ /\ Rank(p, Moment(p, x[1].stale_at)) = Rank(p, Moment(p, x[2].stale_at))
        /\ \/ x[1].monitor_id < x[2].monitor_id
           \/ x[1].monitor_id = x[2].monitor_id /\ x[1].location_id < x[2].location_id}

OverdueListed(p, bk, now, limit) == FirstIn(Overdue(p, bk, now), limit, OverdueOrder(p, bk))

LEMMA HealthColumns ==
  ASSUME NEW p \in Profiles, NEW db, NEW bk, Inv(p, db, bk), NEW e \in bk["location_health"], NEW r, Keeps(p, r, e)
  PROVE  /\ r.stale_at = Moment(p, e.stale_at) /\ r.monitor_id = e.monitor_id /\ r.location_id = e.location_id
         /\ r.stale_at = Null <=> e.stale_at = Nothing
         /\ e.stale_at \in Maybe(Nat) /\ e \in Entities("location_health") /\ WellFormed("location_health", e)
<1>1. "location_health" \in TableNames
  BY DEF TableNames
<1>2. /\ {"monitor_id", "location_id"} \subseteq (PlainColumns \ {"probe_json"}) \cap Columns("location_health")
      /\ "stale_at" \in TimeColumns \cap Columns("location_health")
  BY DEF PlainColumns, Columns, TimeColumns
<1>3. r.stale_at = Moment(p, e.stale_at) /\ r.monitor_id = e.monitor_id /\ r.location_id = e.location_id
  BY <1>1, <1>2, ColumnsKept
<1>4. e \in Entities("location_health") /\ WellFormed("location_health", e)
  BY <1>1, RowOf
<1>5. e.stale_at \in Maybe(Nat)
  BY <1>4 DEF Entities
<1>6. Nothing \in Maybe(Nat)
  BY DEF Maybe
<1>7. Moment(p, e.stale_at) = Null <=> e.stale_at = Nothing
  BY <1>5, <1>6, SameMoment
<1>8. QED
  BY <1>3, <1>4, <1>5, <1>7

LEMMA StaleListing ==
  ASSUME NEW p \in Profiles, NEW db, NEW bk, Inv(p, db, bk), NEW now \in Nat, NEW limit
  PROVE  /\ StaleListCall(p, db, now, limit).error = "none"
         /\ StaleListCall(p, db, now, limit).value = {Back(p, e) : e \in OverdueListed(p, bk, now, limit)}
<1>0. "location_health" \in TableNames
  BY DEF TableNames
<1> DEFINE E == bk["location_health"]
           R == db["location_health"]
           rows == StaleRowsListed(p, db, now, limit)
           listed == OverdueListed(p, bk, now, limit)
<1>1. \A e \in E : \A r \in R : Keeps(p, r, e) =>
        /\ r.stale_at = Moment(p, e.stale_at) /\ r.monitor_id = e.monitor_id /\ r.location_id = e.location_id
        /\ r.stale_at = Null <=> e.stale_at = Nothing
        /\ WellFormed("location_health", e)
  BY HealthColumns
<1>2. /\ \A r \in R : \E e \in E : Keeps(p, r, e)
      /\ \A e \in E : \E r \in R : Keeps(p, r, e)
  BY <1>0, RowOf
<1>3. Overdue(p, bk, now) \in SUBSET E /\ StaleRows(p, db, now) \in SUBSET R
  BY DEF Overdue, StaleRows
<1>4. \A e \in E : \A r \in R : Keeps(p, r, e) => (e \in Overdue(p, bk, now) <=> r \in StaleRows(p, db, now))
  BY <1>1 DEF Overdue, StaleRows
<1>5. \A e, f \in E : \A r, s \in R :
        Keeps(p, r, e) /\ Keeps(p, s, f) => (<<e, f>> \in OverdueOrder(p, bk) <=> <<r, s>> \in StaleRowOrder(p, db))
  <2> SUFFICES ASSUME NEW e \in E, NEW f \in E, NEW r \in R, NEW s \in R, Keeps(p, r, e), Keeps(p, s, f)
               PROVE  <<e, f>> \in OverdueOrder(p, bk) <=> <<r, s>> \in StaleRowOrder(p, db)
    OBVIOUS
  <2>1. /\ r.stale_at = Moment(p, e.stale_at) /\ r.monitor_id = e.monitor_id /\ r.location_id = e.location_id
        /\ s.stale_at = Moment(p, f.stale_at) /\ s.monitor_id = f.monitor_id /\ s.location_id = f.location_id
    BY <1>1
  <2>2. <<e, f>> \in OverdueOrder(p, bk) <=>
          \/ Rank(p, Moment(p, e.stale_at)) < Rank(p, Moment(p, f.stale_at))
          \/ /\ Rank(p, Moment(p, e.stale_at)) = Rank(p, Moment(p, f.stale_at))
             /\ \/ e.monitor_id < f.monitor_id
                \/ e.monitor_id = f.monitor_id /\ e.location_id < f.location_id
    BY DEF OverdueOrder
  <2>3. <<r, s>> \in StaleRowOrder(p, db) <=>
          \/ Rank(p, r.stale_at) < Rank(p, s.stale_at)
          \/ /\ Rank(p, r.stale_at) = Rank(p, s.stale_at)
             /\ \/ r.monitor_id < s.monitor_id
                \/ r.monitor_id = s.monitor_id /\ r.location_id < s.location_id
    BY DEF StaleRowOrder
  <2>4. QED
    BY <2>1, <2>2, <2>3
<1>6. \A e \in E : \A r \in R : Keeps(p, r, e) => (e \in listed <=> r \in rows)
  <2>1. \A e \in E : \A r \in R : Keeps(p, r, e) =>
          (e \in FirstIn(Overdue(p, bk, now), limit, OverdueOrder(p, bk))
             <=> r \in FirstIn(StaleRows(p, db, now), limit, StaleRowOrder(p, db)))
    BY <1>0, <1>3, <1>4, <1>5, FirstPaired
  <2>2. QED
    BY <2>1 DEF OverdueListed, StaleRowsListed
<1>7. listed \subseteq E /\ rows \subseteq R
  BY <1>3 DEF OverdueListed, StaleRowsListed, FirstIn
<1>8. \A e \in E : \A r \in R : Keeps(p, r, e) =>
        HealthRead(p, r) = Back(p, e) /\ Lite!HealthReadable(r) /\ Pg!HealthReadable(r)
  BY <1>1, LocationHealthBack DEF HealthRead, Profiles
<1>9. {HealthRead(p, r) : r \in rows} = {Back(p, e) : e \in listed}
  <2> HIDE DEF E, R, rows, listed
  <2>1. QED
    BY <1>2, <1>6, <1>7, <1>8
<1>10. \A r \in R : Lite!HealthReadable(r) /\ Pg!HealthReadable(r)
  BY <1>2, <1>8
<1>11. StaleListCall(p, db, now, limit) = [db |-> db, value |-> {HealthRead(p, r) : r \in rows}, error |-> "none"]
  BY <1>10, StaleListIs
<1> HIDE DEF E, R, rows
<1>12. QED
  BY <1>9, <1>11 DEF listed

\* What is listed as stale is claimed by the deadline that the list shows.
LEMMA ListedClaimed ==
  ASSUME NEW p \in Profiles, NEW db, NEW bk, Inv(p, db, bk), NEW now \in Nat, NEW limit,
         NEW h \in StaleListCall(p, db, now, limit).value
  PROVE  ClaimStaleCall(p, db, h.monitor_id, h.location_id, h.stale_at, now).value
<1>0. "location_health" \in TableNames
  BY DEF TableNames
<1>1. PICK e \in OverdueListed(p, bk, now, limit) : h = Back(p, e)
  BY StaleListing
<1>2. /\ e \in bk["location_health"] /\ e.stale_at # Nothing
      /\ Rank(p, Moment(p, e.stale_at)) <= Rank(p, Moment(p, now))
  BY DEF OverdueListed, FirstIn, Overdue
<1>3. /\ e \in Entities("location_health") /\ IsRecord(e) /\ DOMAIN e = Columns("location_health")
  BY <1>0, <1>2, RowOf
<1>4. e.stale_at \in Nat
  BY <1>2, <1>3 DEF Entities, Maybe
<1>5. h = [c \in Columns("location_health") |-> BackColumn(p, c, e[c])]
  BY <1>1, <1>3, BackColumns
<1>6. /\ h.monitor_id = e.monitor_id /\ h.location_id = e.location_id
      /\ h.stale_at = Kept(p, e.stale_at)
  <2>1. /\ {"monitor_id", "location_id", "stale_at"} \subseteq Columns("location_health")
        /\ "stale_at" \in TimeColumns
        /\ "monitor_id" \notin TimeColumns \cup {"latency_ms"} /\ "location_id" \notin TimeColumns \cup {"latency_ms"}
    BY DEF Columns, TimeColumns
  <2>2. QED
    BY <1>5, <2>1 DEF BackColumn
<1>7. h.stale_at \in Nat /\ Moment(p, h.stale_at) = Moment(p, e.stale_at)
  <2>1. e.stale_at # Nothing /\ e.stale_at - (e.stale_at % Micro) \in Nat
        /\ (e.stale_at - (e.stale_at % Micro)) \div Micro = e.stale_at \div Micro
    <3>1. Micro \in Nat \ {0}
      BY Units DEF Micro
    <3>2. /\ e.stale_at \div Micro \in Nat /\ e.stale_at % Micro \in 0 .. Micro - 1
          /\ e.stale_at = Micro * (e.stale_at \div Micro) + (e.stale_at % Micro)
      BY <1>4, <3>1, Divides
    <3> DEFINE q == e.stale_at \div Micro
    <3>3. 0 \in 0 .. Micro - 1 /\ (Micro * q + 0) \div Micro = q
      BY <3>1, <3>2, DividesOnly
    <3>4. Micro * q \in Nat
      BY <3>1, <3>2
    <3>5. e.stale_at - (e.stale_at % Micro) = Micro * q + 0
      BY <3>2, <3>4
    <3>6. QED
      BY <1>2, <3>3, <3>4, <3>5
  <2>2. CASE p = "lite"
    BY <1>2, <1>4, <1>6, <2>2 DEF Kept
  <2>3. CASE p = "pg"
    <3>1. h.stale_at = e.stale_at - (e.stale_at % Micro)
      BY <1>2, <1>6, <2>3 DEF Kept
    <3>2. h.stale_at # Nothing
      BY <2>1, <3>1, NatIsSome
    <3>3. Pg!FormatTime(h.stale_at) = Pg!FormatTime(e.stale_at)
      BY <2>1, <3>1 DEF Pg!FormatTime, Pg!Micro, Micro
    <3>4. QED
      BY <1>2, <2>1, <2>3, <3>1, <3>2, <3>3 DEF Moment
  <2>4. QED
    BY <2>2, <2>3 DEF Profiles
<1>8. RowAtMost(p, Moment(p, e.stale_at), Moment(p, now))
  BY <1>2, <1>4, RankIs
<1> DEFINE reply == ClaimStaleCall(p, db, h.monitor_id, h.location_id, h.stale_at, now)
<1>9. StaleClaimingAnswers(p, db, bk, h.monitor_id, h.location_id, h.stale_at, now, reply)
  BY <1>7, StaleClaiming
<1> HIDE DEF reply
<1>10. reply.value <=> \E f \in bk["location_health"] :
         /\ f.monitor_id = h.monitor_id /\ f.location_id = h.location_id /\ f.stale_at # Nothing
         /\ Moment(p, f.stale_at) = Moment(p, h.stale_at) /\ RowAtMost(p, Moment(p, f.stale_at), Moment(p, now))
  BY <1>9 DEF StaleClaimingAnswers
<1>11. QED
  BY <1>2, <1>6, <1>7, <1>8, <1>10 DEF reply

LEMMA AllListedClaimed ==
  ASSUME StoreOK
  PROVE  ListedIsClaimed
<1>1. Instants \subseteq Nat /\ "lite" \in Profiles /\ "pg" \in Profiles
  BY ConformanceAssumption DEF Profiles
<1>2. \A now \in Instants : \A h \in Lite!HealthListStale(lite, now, 3).value :
        Lite!HealthClaimStale(lite, h.monitor_id, h.location_id, h.stale_at, now).value
  <2> SUFFICES ASSUME NEW now \in Instants, NEW h \in Lite!HealthListStale(lite, now, 3).value
               PROVE  Lite!HealthClaimStale(lite, h.monitor_id, h.location_id, h.stale_at, now).value
    OBVIOUS
  <2>1. now \in Nat /\ Inv("lite", lite, book) /\ h \in StaleListCall("lite", lite, now, 3).value
    BY <1>1 DEF StoreOK, StaleListCall
  <2>2. ClaimStaleCall("lite", lite, h.monitor_id, h.location_id, h.stale_at, now).value
    BY <1>1, <2>1, ListedClaimed
  <2>3. QED
    BY <2>2 DEF ClaimStaleCall
<1>3. \A now \in Instants : \A h \in Pg!HealthListStale(pg, now, 3).value :
        Pg!HealthClaimStale(pg, h.monitor_id, h.location_id, h.stale_at, now).value
  <2> SUFFICES ASSUME NEW now \in Instants, NEW h \in Pg!HealthListStale(pg, now, 3).value
               PROVE  Pg!HealthClaimStale(pg, h.monitor_id, h.location_id, h.stale_at, now).value
    OBVIOUS
  <2>0. PICK bk : Inv("pg", pg, bk)
    BY DEF StoreOK
  <2>1. now \in Nat /\ h \in StaleListCall("pg", pg, now, 3).value
    BY <1>1 DEF StaleListCall
  <2>2. ClaimStaleCall("pg", pg, h.monitor_id, h.location_id, h.stale_at, now).value
    BY <1>1, <2>0, <2>1, ListedClaimed
  <2>3. QED
    BY <2>2 DEF ClaimStaleCall
<1>4. QED
  BY <1>2, <1>3 DEF ListedIsClaimed

-----------------------------------------------------------------------------
\* Listing what is due.
DueListCall(p, db, now, limit) ==
  IF p = "lite" THEN Lite!MonitorsListDue(db, now, limit) ELSE Pg!MonitorsListDue(db, now, limit)

RowMonitor(db, a) == CHOOSE m \in db["monitors"] : m.id = a.monitor_id

MonitorRead(p, r) == IF p = "lite" THEN Lite!MapMonitor(r) ELSE Pg!MapMonitor(r)

DueRead(p, db, a) ==
  [monitor |-> MonitorRead(p, RowMonitor(db, a)), location_id |-> a.location_id, required |-> Flagged(p, a.required),
   next_run_at |-> IF p = "lite" THEN Lite!ParseTime(RowMonitor(db, a).next_run_at)
                                 ELSE Pg!ParseTime(RowMonitor(db, a).next_run_at)]

DueRows(p, db, now) ==
  {a \in db["monitor_locations"] : /\ Flagged(p, RowMonitor(db, a).enabled)
                                   /\ Rank(p, RowMonitor(db, a).next_run_at) <= Rank(p, Moment(p, now))}

DueRowOrder(p, db) ==
  {x \in db["monitor_locations"] \X db["monitor_locations"] :
     \/ Rank(p, RowMonitor(db, x[1]).next_run_at) < Rank(p, RowMonitor(db, x[2]).next_run_at)
     \/ /\ Rank(p, RowMonitor(db, x[1]).next_run_at) = Rank(p, RowMonitor(db, x[2]).next_run_at)
        /\ \/ x[1].monitor_id < x[2].monitor_id
           \/ x[1].monitor_id = x[2].monitor_id /\ x[1].location_id < x[2].location_id}

DueRowsListed(p, db, now, limit) == FirstIn(DueRows(p, db, now), limit, DueRowOrder(p, db))

LEMMA DueListIs ==
  ASSUME NEW p \in Profiles, NEW db, NEW now \in Nat, NEW limit,
         \A a \in db["monitor_locations"] : Lite!MonitorReadable(RowMonitor(db, a)) /\
             Pg!MonitorReadable(RowMonitor(db, a))
  PROVE  DueListCall(p, db, now, limit)
           = [db |-> db, value |-> {DueRead(p, db, a) : a \in DueRowsListed(p, db, now, limit)}, error |-> "none"]
<1>1. now # Nothing
  BY NatIsSome
<1> DEFINE rows == DueRowsListed(p, db, now, limit)
           open == DueRows(p, db, now)
<1>0. rows \subseteq db["monitor_locations"] /\ open \subseteq db["monitor_locations"]
  BY DEF DueRowsListed, FirstIn, DueRows
<1>2. CASE p = "lite"
  <2> DEFINE free == {a \in db["monitor_locations"] :
                        /\ Lite!MonitorOf(db, a).enabled = 1
                        /\ Lite!Julian(Lite!MonitorOf(db, a).next_run_at) <= Lite!Julian(Lite!FormatTime(now))}
             before(r) == {s \in free :
               Lite!Lexicographic(<<Lite!Julian(Lite!MonitorOf(db, s).next_run_at), s.monitor_id, s.location_id>>,
                                  <<Lite!Julian(Lite!MonitorOf(db, r).next_run_at), r.monitor_id, r.location_id>>)}
             first == {r \in free : Lite!Cardinality(before(r)) < limit}
             read(a) == [monitor |-> Lite!MapMonitor(Lite!MonitorOf(db, a)), location_id |-> a.location_id,
                         required |-> Lite!IntBool(a.required),
                         next_run_at |-> Lite!ParseTime(Lite!MonitorOf(db, a).next_run_at)]
  <2>0. \A a : Lite!MonitorOf(db, a) = RowMonitor(db, a)
    BY DEF Lite!MonitorOf, RowMonitor
  <2>1. DueListCall(p, db, now, limit)
          = IF \A r \in first : Lite!MonitorReadable(Lite!MonitorOf(db, r))
            THEN [db |-> db, value |-> {read(r) : r \in first}, error |-> "none"]
            ELSE [db |-> db, value |-> Nothing, error |-> "unreadable"]
    BY <1>2 DEF DueListCall, Lite!MonitorsListDue, Lite!ListDueMonitorLocations, Lite!Answer, Lite!First,
                Lite!Listed, Lite!Reply, Lite!RepositoryError, Lite!Unreadable
  <2>2. free = open
    BY <1>1, <1>2, <2>0 DEF DueRows, Rank, Moment, Flagged, Lite!IntBool
  <2>3. first = rows
    <3>1. \A r \in open : before(r) = {s \in open : <<s, r>> \in DueRowOrder(p, db)}
      <4>1. \A r, s \in open : <<s, r>> \in db["monitor_locations"] \X db["monitor_locations"]
        BY <1>0
      <4>2. \A r, s \in open :
              Lite!Lexicographic(<<Lite!Julian(Lite!MonitorOf(db, s).next_run_at), s.monitor_id, s.location_id>>,
                                 <<Lite!Julian(Lite!MonitorOf(db, r).next_run_at), r.monitor_id, r.location_id>>)
                <=> <<s, r>> \in DueRowOrder(p, db)
        <5>1. \A r, s \in open : <<s, r>> \in DueRowOrder(p, db) <=>
                \/ Rank(p, RowMonitor(db, s).next_run_at) < Rank(p, RowMonitor(db, r).next_run_at)
                \/ /\ Rank(p, RowMonitor(db, s).next_run_at) = Rank(p, RowMonitor(db, r).next_run_at)
                   /\ \/ s.monitor_id < r.monitor_id
                      \/ s.monitor_id = r.monitor_id /\ s.location_id < r.location_id
          <6> HIDE DEF open
          <6>1. QED
            BY <4>1 DEF DueRowOrder
        <5> HIDE DEF open
        <5>2. \A r, s : Lite!Lexicographic(<<Rank(p, RowMonitor(db, s).next_run_at), s.monitor_id, s.location_id>>,
                                           <<Rank(p, RowMonitor(db, r).next_run_at), r.monitor_id, r.location_id>>) <=>
                \/ Rank(p, RowMonitor(db, s).next_run_at) < Rank(p, RowMonitor(db, r).next_run_at)
                \/ /\ Rank(p, RowMonitor(db, s).next_run_at) = Rank(p, RowMonitor(db, r).next_run_at)
                   /\ \/ s.monitor_id < r.monitor_id
                      \/ s.monitor_id = r.monitor_id /\ s.location_id < r.location_id
          BY TripleOrder
        <5>3. \A x : Lite!Julian(x) = Rank(p, x)
          BY <1>2 DEF Rank
        <5>4. ASSUME NEW r \in open, NEW s \in open
              PROVE  Lite!Lexicographic(<<Lite!Julian(Lite!MonitorOf(db, s).next_run_at), s.monitor_id, s.location_id>>,
                                 <<Lite!Julian(Lite!MonitorOf(db, r).next_run_at), r.monitor_id, r.location_id>>)
                       <=> <<s, r>> \in DueRowOrder(p, db)
          <6>1. Lite!Julian(Lite!MonitorOf(db, s).next_run_at) = Rank(p, RowMonitor(db, s).next_run_at)
            BY <2>0, <5>3
          <6>2. Lite!Julian(Lite!MonitorOf(db, r).next_run_at) = Rank(p, RowMonitor(db, r).next_run_at)
            BY <2>0, <5>3
          <6>3. Lite!Lexicographic(<<Rank(p, RowMonitor(db, s).next_run_at), s.monitor_id, s.location_id>>,
                                 <<Rank(p, RowMonitor(db, r).next_run_at), r.monitor_id, r.location_id>>)
                       <=> <<s, r>> \in DueRowOrder(p, db)
            BY <5>1, <5>2
          <6>4. QED
            BY <6>1, <6>2, <6>3
        <5>5. QED
          BY <5>4
      <4> HIDE DEF open, free
      <4>3. QED
        BY <2>2, <4>2
    <3> HIDE DEF open, free, before
    <3>2. QED
      BY <2>2, <3>1, SameCardinality DEF DueRowsListed, FirstIn, open
  <2>4. \A a : read(a) = DueRead(p, db, a)
    BY <1>2, <2>0 DEF DueRead, MonitorRead, Flagged
  <2> HIDE DEF first, rows, read
  <2>5. QED
    BY <1>0, <2>0, <2>1, <2>3, <2>4 DEF rows
<1>3. CASE p = "pg"
  <2> DEFINE free == {a \in db["monitor_locations"] :
                        /\ Pg!MonitorOf(db, a).enabled
                        /\ Pg!MonitorOf(db, a).next_run_at <= Pg!FormatTime(now)}
             before(r) == {s \in free :
               Pg!Lexicographic(<<Pg!MonitorOf(db, s).next_run_at, s.monitor_id, s.location_id>>,
                                <<Pg!MonitorOf(db, r).next_run_at, r.monitor_id, r.location_id>>)}
             first == {r \in free : Pg!Cardinality(before(r)) < limit}
             read(a) == [monitor |-> Pg!MapMonitor(Pg!MonitorOf(db, a)), location_id |-> a.location_id,
                         required |-> a.required,
                         next_run_at |-> Pg!ParseTime(Pg!MonitorOf(db, a).next_run_at)]
  <2>0. \A a : Pg!MonitorOf(db, a) = RowMonitor(db, a)
    BY DEF Pg!MonitorOf, RowMonitor
  <2>1. DueListCall(p, db, now, limit)
          = IF \A r \in first : Pg!MonitorReadable(Pg!MonitorOf(db, r))
            THEN [db |-> db, value |-> {read(r) : r \in first}, error |-> "none"]
            ELSE [db |-> db, value |-> Nothing, error |-> "unreadable"]
    BY <1>3 DEF DueListCall, Pg!MonitorsListDue, Pg!ListDueMonitorLocations, Pg!Answer, Pg!First,
                Pg!Listed, Pg!Reply, Pg!RepositoryError, Pg!Unreadable
  <2>2. free = open
    BY <1>1, <1>3, <2>0 DEF DueRows, Rank, Moment, Flagged
  <2>3. first = rows
    <3>1. \A r \in open : before(r) = {s \in open : <<s, r>> \in DueRowOrder(p, db)}
      <4>1. \A r, s \in open : <<s, r>> \in db["monitor_locations"] \X db["monitor_locations"]
        BY <1>0
      <4>2. \A r, s \in open :
              Pg!Lexicographic(<<Pg!MonitorOf(db, s).next_run_at, s.monitor_id, s.location_id>>,
                               <<Pg!MonitorOf(db, r).next_run_at, r.monitor_id, r.location_id>>)
                <=> <<s, r>> \in DueRowOrder(p, db)
        <5>1. \A r, s \in open : <<s, r>> \in DueRowOrder(p, db) <=>
                \/ Rank(p, RowMonitor(db, s).next_run_at) < Rank(p, RowMonitor(db, r).next_run_at)
                \/ /\ Rank(p, RowMonitor(db, s).next_run_at) = Rank(p, RowMonitor(db, r).next_run_at)
                   /\ \/ s.monitor_id < r.monitor_id
                      \/ s.monitor_id = r.monitor_id /\ s.location_id < r.location_id
          <6> HIDE DEF open
          <6>1. QED
            BY <4>1 DEF DueRowOrder
        <5> HIDE DEF open
        <5>2. \A r, s : Pg!Lexicographic(<<Rank(p, RowMonitor(db, s).next_run_at), s.monitor_id, s.location_id>>,
                                         <<Rank(p, RowMonitor(db, r).next_run_at), r.monitor_id, r.location_id>>) <=>
                \/ Rank(p, RowMonitor(db, s).next_run_at) < Rank(p, RowMonitor(db, r).next_run_at)
                \/ /\ Rank(p, RowMonitor(db, s).next_run_at) = Rank(p, RowMonitor(db, r).next_run_at)
                   /\ \/ s.monitor_id < r.monitor_id
                      \/ s.monitor_id = r.monitor_id /\ s.location_id < r.location_id
          BY TripleOrder
        <5>3. \A x : x = Rank(p, x)
          BY <1>3 DEF Rank
        <5>4. ASSUME NEW r \in open, NEW s \in open
              PROVE  Pg!Lexicographic(<<Pg!MonitorOf(db, s).next_run_at, s.monitor_id, s.location_id>>,
                                 <<Pg!MonitorOf(db, r).next_run_at, r.monitor_id, r.location_id>>)
                       <=> <<s, r>> \in DueRowOrder(p, db)
          <6>1. Pg!MonitorOf(db, s).next_run_at = Rank(p, RowMonitor(db, s).next_run_at)
            BY <2>0, <5>3
          <6>2. Pg!MonitorOf(db, r).next_run_at = Rank(p, RowMonitor(db, r).next_run_at)
            BY <2>0, <5>3
          <6>3. Pg!Lexicographic(<<Rank(p, RowMonitor(db, s).next_run_at), s.monitor_id, s.location_id>>,
                                 <<Rank(p, RowMonitor(db, r).next_run_at), r.monitor_id, r.location_id>>)
                       <=> <<s, r>> \in DueRowOrder(p, db)
            BY <5>1, <5>2
          <6>4. QED
            BY <6>1, <6>2, <6>3
        <5>5. QED
          BY <5>4
      <4> HIDE DEF open, free
      <4>3. QED
        BY <2>2, <4>2
    <3> HIDE DEF open, free, before
    <3>2. QED
      BY <2>2, <3>1, SameCardinality DEF DueRowsListed, FirstIn, open
  <2>4. \A a : read(a) = DueRead(p, db, a)
    BY <1>3, <2>0 DEF DueRead, MonitorRead, Flagged
  <2> HIDE DEF first, rows, read
  <2>5. QED
    BY <1>0, <2>0, <2>1, <2>3, <2>4 DEF rows
<1>4. QED
  BY <1>2, <1>3 DEF Profiles

-----------------------------------------------------------------------------
\* The due listing in terms of the book.
MonitorIn(bk, a) == CHOOSE m \in bk["monitors"] : m.id = a.monitor_id

Due(p, bk, now) ==
  {a \in bk["monitor_locations"] : /\ MonitorIn(bk, a).enabled
                                   /\ Rank(p, Moment(p, MonitorIn(bk, a).next_run_at)) <= Rank(p, Moment(p, now))}

DueOrder(p, bk) ==
  {x \in bk["monitor_locations"] \X bk["monitor_locations"] :
     \/ Rank(p, Moment(p, MonitorIn(bk, x[1]).next_run_at)) < Rank(p, Moment(p, MonitorIn(bk, x[2]).next_run_at))
     \/ /\ Rank(p, Moment(p, MonitorIn(bk, x[1]).next_run_at)) = Rank(p, Moment(p, MonitorIn(bk, x[2]).next_run_at))
        /\ \/ x[1].monitor_id < x[2].monitor_id
           \/ x[1].monitor_id = x[2].monitor_id /\ x[1].location_id < x[2].location_id}

DueListed(p, bk, now, limit) == FirstIn(Due(p, bk, now), limit, DueOrder(p, bk))

\* The monitor of an assignment.
LEMMA AssignedMonitor ==
  ASSUME NEW p \in Profiles, NEW db, NEW bk, Inv(p, db, bk), NEW a \in bk["monitor_locations"]
  PROVE  /\ MonitorIn(bk, a) \in bk["monitors"] /\ MonitorIn(bk, a).id = a.monitor_id
         /\ \A m \in bk["monitors"] : m.id = a.monitor_id => m = MonitorIn(bk, a)
         /\ MonitorIn(bk, a) \in Entities("monitors") /\ WellFormed("monitors", MonitorIn(bk, a))
         /\ Valid("monitors", MonitorIn(bk, a)) /\ DOMAIN MonitorIn(bk, a) = Columns("monitors")
         /\ IsRecord(MonitorIn(bk, a))
         /\ MonitorIn(bk, a).next_run_at \in Nat /\ MonitorIn(bk, a).enabled \in BOOLEAN
<1>0. "monitors" \in TableNames /\ PrimaryKey("monitors") = {"id"}
  BY DEF TableNames, PrimaryKey
<1>1. \E m \in bk["monitors"] : m.id = a.monitor_id
  BY DEF Inv, BookInv
<1>2. MonitorIn(bk, a) \in bk["monitors"] /\ MonitorIn(bk, a).id = a.monitor_id
  BY <1>1 DEF MonitorIn
<1>3. /\ \A e \in bk["monitors"] : e \in Entities("monitors") /\ WellFormed("monitors", e) /\ Valid("monitors", e)
                                   /\ IsRecord(e) /\ DOMAIN e = Columns("monitors")
      /\ \A e, f \in bk["monitors"] : Equal(e, f, {"id"}) => e = f
  BY <1>0, RowOf
<1>4. \A e \in Entities("monitors") : e.next_run_at \in Nat /\ e.enabled \in BOOLEAN
  BY DEF Entities
<1>5. QED
  BY <1>2, <1>3, <1>4 DEF Equal

LEMMA AssignedRow ==
  ASSUME NEW p \in Profiles, NEW db, NEW bk, Inv(p, db, bk), NEW a \in bk["monitor_locations"],
         NEW r \in db["monitor_locations"], Keeps(p, r, a)
  PROVE  /\ r.monitor_id = a.monitor_id /\ r.location_id = a.location_id
         /\ RowMonitor(db, r) \in db["monitors"] /\ Keeps(p, RowMonitor(db, r), MonitorIn(bk, a))
         /\ RowMonitor(db, r).next_run_at = Moment(p, MonitorIn(bk, a).next_run_at)
         /\ Flagged(p, RowMonitor(db, r).enabled) = MonitorIn(bk, a).enabled
<1>0. "monitors" \in TableNames /\ "monitor_locations" \in TableNames
  BY DEF TableNames
<1>1. /\ {"monitor_id", "location_id"} \subseteq (PlainColumns \ {"probe_json"}) \cap Columns("monitor_locations")
      /\ "id" \in (PlainColumns \ {"probe_json"}) \cap Columns("monitors")
      /\ "next_run_at" \in TimeColumns \cap Columns("monitors")
      /\ "enabled" \in Columns("monitors") \ {"probe_json"}
  BY DEF PlainColumns, Columns, TimeColumns
<1>2. r.monitor_id = a.monitor_id /\ r.location_id = a.location_id
  BY <1>0, <1>1, ColumnsKept
<1> DEFINE m == MonitorIn(bk, a)
<1>3. /\ m \in bk["monitors"] /\ m.id = a.monitor_id /\ m.next_run_at \in Nat /\ m.enabled \in BOOLEAN
      /\ \A o \in bk["monitors"] : o.id = a.monitor_id => o = m
      /\ DOMAIN m = Columns("monitors")
  BY AssignedMonitor
<1> HIDE DEF m
<1>4. /\ \A s \in db["monitors"] : \E e \in bk["monitors"] : Keeps(p, s, e)
      /\ \A e \in bk["monitors"] : \E s \in db["monitors"] : Keeps(p, s, e)
  BY <1>0, RowOf
<1>5. \A s \in db["monitors"] : \A e \in bk["monitors"] : Keeps(p, s, e) => s.id = e.id
  BY <1>0, <1>1, ColumnsKept
<1>6. \E s \in db["monitors"] : s.id = r.monitor_id
  BY <1>2, <1>3, <1>4, <1>5
<1> DEFINE s == RowMonitor(db, r)
<1>7. s \in db["monitors"] /\ s.id = r.monitor_id
  BY <1>6 DEF RowMonitor
<1> HIDE DEF s
<1>8. Keeps(p, s, m)
  BY <1>2, <1>3, <1>4, <1>5, <1>7
<1>9. s.next_run_at = Moment(p, m.next_run_at)
  BY <1>0, <1>1, <1>3, <1>8, ColumnsKept
<1>10. s["enabled"] = Flag(p, m.enabled)
  <2>1. s["enabled"] = In(p, "enabled", m["enabled"])
    BY <1>1, <1>3, <1>8 DEF Keeps
  <2>2. "enabled" \notin TimeColumns /\ "enabled" \notin {"interval_ms", "timeout_ms", "latency_ms"}
    BY DEF TimeColumns
  <2>3. QED
    BY <2>1, <2>2 DEF In
<1>11. Flagged(p, s["enabled"]) = m.enabled
  BY <1>3, <1>10, FlaggedFlag
<1>12. QED
  BY <1>2, <1>7, <1>8, <1>9, <1>11 DEF m, s

\* What the listing shows of the entities.
DueShown(p, bk, now, limit, value) ==
  /\ \A d \in value : \E a \in DueListed(p, bk, now, limit) :
       d.monitor.id = a.monitor_id /\ d.next_run_at = Kept(p, MonitorIn(bk, a).next_run_at)
  /\ \A a \in DueListed(p, bk, now, limit) : \E d \in value : d.monitor.id = a.monitor_id

LEMMA DueListing ==
  ASSUME NEW p \in Profiles, NEW db, NEW bk, Inv(p, db, bk), NEW now \in Nat, NEW limit
  PROVE  /\ DueListCall(p, db, now, limit).error = "none"
         /\ DueShown(p, bk, now, limit, DueListCall(p, db, now, limit).value)
<1>0. "monitor_locations" \in TableNames
  BY DEF TableNames
<1> DEFINE E == bk["monitor_locations"]
           R == db["monitor_locations"]
           rows == DueRowsListed(p, db, now, limit)
           listed == DueListed(p, bk, now, limit)
<1>1. \A e \in E : \A r \in R : Keeps(p, r, e) =>
        /\ r.monitor_id = e.monitor_id /\ r.location_id = e.location_id
        /\ Keeps(p, RowMonitor(db, r), MonitorIn(bk, e))
        /\ RowMonitor(db, r).next_run_at = Moment(p, MonitorIn(bk, e).next_run_at)
        /\ Flagged(p, RowMonitor(db, r).enabled) = MonitorIn(bk, e).enabled
  BY AssignedRow
<1>2. /\ \A r \in R : \E e \in E : Keeps(p, r, e)
      /\ \A e \in E : \E r \in R : Keeps(p, r, e)
  BY <1>0, RowOf
<1>3. Due(p, bk, now) \in SUBSET E /\ DueRows(p, db, now) \in SUBSET R
  BY DEF Due, DueRows
<1>4. \A e \in E : \A r \in R : Keeps(p, r, e) => (e \in Due(p, bk, now) <=> r \in DueRows(p, db, now))
  BY <1>1 DEF Due, DueRows
<1>5. \A e, f \in E : \A r, s \in R :
        Keeps(p, r, e) /\ Keeps(p, s, f) => (<<e, f>> \in DueOrder(p, bk) <=> <<r, s>> \in DueRowOrder(p, db))
  <2> SUFFICES ASSUME NEW e \in E, NEW f \in E, NEW r \in R, NEW s \in R, Keeps(p, r, e), Keeps(p, s, f)
               PROVE  <<e, f>> \in DueOrder(p, bk) <=> <<r, s>> \in DueRowOrder(p, db)
    OBVIOUS
  <2>1. /\ RowMonitor(db, r).next_run_at = Moment(p, MonitorIn(bk, e).next_run_at)
        /\ r.monitor_id = e.monitor_id /\ r.location_id = e.location_id
        /\ RowMonitor(db, s).next_run_at = Moment(p, MonitorIn(bk, f).next_run_at)
        /\ s.monitor_id = f.monitor_id /\ s.location_id = f.location_id
    BY <1>1
  <2>2. <<e, f>> \in DueOrder(p, bk) <=>
          \/ Rank(p, Moment(p, MonitorIn(bk, e).next_run_at)) < Rank(p, Moment(p, MonitorIn(bk, f).next_run_at))
          \/ /\ Rank(p, Moment(p, MonitorIn(bk, e).next_run_at)) = Rank(p, Moment(p, MonitorIn(bk, f).next_run_at))
             /\ \/ e.monitor_id < f.monitor_id
                \/ e.monitor_id = f.monitor_id /\ e.location_id < f.location_id
    BY DEF DueOrder
  <2>3. <<r, s>> \in DueRowOrder(p, db) <=>
          \/ Rank(p, RowMonitor(db, r).next_run_at) < Rank(p, RowMonitor(db, s).next_run_at)
          \/ /\ Rank(p, RowMonitor(db, r).next_run_at) = Rank(p, RowMonitor(db, s).next_run_at)
             /\ \/ r.monitor_id < s.monitor_id
                \/ r.monitor_id = s.monitor_id /\ r.location_id < s.location_id
    BY DEF DueRowOrder
  <2>4. QED
    BY <2>1, <2>2, <2>3
<1>6. \A e \in E : \A r \in R : Keeps(p, r, e) => (e \in listed <=> r \in rows)
  <2>1. \A e \in E : \A r \in R : Keeps(p, r, e) =>
          (e \in FirstIn(Due(p, bk, now), limit, DueOrder(p, bk))
             <=> r \in FirstIn(DueRows(p, db, now), limit, DueRowOrder(p, db)))
    BY <1>0, <1>3, <1>4, <1>5, FirstPaired
  <2>2. QED
    BY <2>1 DEF DueListed, DueRowsListed
<1>7. listed \subseteq E /\ rows \subseteq R
  BY <1>3 DEF DueListed, DueRowsListed, FirstIn
<1>8. \A e \in E : \A r \in R : Keeps(p, r, e) =>
        /\ DueRead(p, db, r).monitor.id = e.monitor_id
        /\ DueRead(p, db, r).next_run_at = Kept(p, MonitorIn(bk, e).next_run_at)
        /\ Lite!MonitorReadable(RowMonitor(db, r)) /\ Pg!MonitorReadable(RowMonitor(db, r))
  <2> SUFFICES ASSUME NEW e \in E, NEW r \in R, Keeps(p, r, e)
               PROVE  /\ DueRead(p, db, r).monitor.id = e.monitor_id
                      /\ DueRead(p, db, r).next_run_at = Kept(p, MonitorIn(bk, e).next_run_at)
                      /\ Lite!MonitorReadable(RowMonitor(db, r)) /\ Pg!MonitorReadable(RowMonitor(db, r))
    OBVIOUS
  <2> DEFINE m == MonitorIn(bk, e)
             s == RowMonitor(db, r)
  <2>1. /\ m.id = e.monitor_id /\ WellFormed("monitors", m) /\ Valid("monitors", m)
        /\ DOMAIN m = Columns("monitors") /\ IsRecord(m) /\ m.next_run_at \in Nat
    BY AssignedMonitor
  <2>2. Keeps(p, s, m) /\ s.next_run_at = Moment(p, m.next_run_at)
    BY <1>1
  <2>3. /\ p = "lite" => Lite!MapMonitor(s) = Back(p, m)
        /\ p = "pg" => Pg!MapMonitor(s) = Back(p, m)
        /\ Lite!MonitorReadable(s) /\ Pg!MonitorReadable(s)
    BY <2>1, <2>2, MonitorBack
  <2>4. MonitorRead(p, s) = Back(p, m)
    BY <2>3 DEF MonitorRead, Profiles
  <2>5. Back(p, m).id = m.id
    <3>1. Back(p, m) = [c \in DOMAIN m |-> BackColumn(p, c, m[c])]
      BY <2>1, BackColumns
    <3>2. "id" \in Columns("monitors") /\ "id" \notin TimeColumns /\ "id" # "latency_ms"
      BY DEF Columns, TimeColumns
    <3>3. QED
      BY <2>1, <3>1, <3>2 DEF BackColumn
  <2>6. Parsed(p, Moment(p, m.next_run_at)) = Kept(p, m.next_run_at) /\ Moment(p, m.next_run_at) # Null
    <3>1. m.next_run_at \in Maybe(Nat) /\ Nothing \in Maybe(Nat) /\ m.next_run_at # Nothing
      BY <2>1, NatIsSome DEF Maybe
    <3>2. Moment(p, m.next_run_at) = Null <=> m.next_run_at = Nothing
      BY <3>1, SameMoment
    <3>3. QED
      BY <3>1, <3>2, ParsedMoment
  <2> HIDE DEF m, s
  <2>7. /\ DueRead(p, db, r).monitor = MonitorRead(p, s)
        /\ DueRead(p, db, r).next_run_at = Parsed(p, s.next_run_at)
    BY <2>2, <2>6 DEF DueRead, Parsed, s
  <2>8. QED
    BY <2>1, <2>2, <2>3, <2>4, <2>5, <2>6, <2>7 DEF m, s
<1>9. \A r \in R : Lite!MonitorReadable(RowMonitor(db, r)) /\ Pg!MonitorReadable(RowMonitor(db, r))
  BY <1>2, <1>8
<1>10. DueListCall(p, db, now, limit) = [db |-> db, value |-> {DueRead(p, db, r) : r \in rows}, error |-> "none"]
  BY <1>9, DueListIs
<1> HIDE DEF E, R, rows
<1>11. DueShown(p, bk, now, limit, {DueRead(p, db, r) : r \in rows})
  <2> HIDE DEF listed
  <2>1. \A r \in rows : \E e \in listed :
          DueRead(p, db, r).monitor.id = e.monitor_id /\ DueRead(p, db, r).next_run_at = Kept(p, MonitorIn(bk,
              e).next_run_at)
    BY <1>2, <1>6, <1>7, <1>8
  <2>2. \A e \in listed : \E r \in rows : DueRead(p, db, r).monitor.id = e.monitor_id
    BY <1>2, <1>6, <1>7, <1>8
  <2>3. QED
    BY <2>1, <2>2 DEF DueShown, listed
<1>12. QED
  BY <1>10, <1>11

-----------------------------------------------------------------------------
\* Advancing a monitor that is listed as due.
LEMMA IntervalIs ==
  /\ Interval \in Nat /\ Interval >= Lite!Second /\ Interval >= 1
  /\ \E j \in Nat : Interval = Micro * j
<1>1. /\ Base \in Nat /\ Base >= 2 /\ Lite!Milli = Base * Base /\ Lite!Milli \in Nat
      /\ Lite!Second = Base * Lite!Milli /\ Lite!Second \in Nat \ {0}
  BY Units
<1>2. Interval \in Nat \ {0} /\ Interval % (Base * Base * Base) = 0
  BY ConformanceAssumption
<1>3. Base * Base * Base = Lite!Second
  <2>1. (Base * Base) * Base = Base * (Base * Base)
    BY <1>1
  <2>2. QED
    BY <1>1, <2>1
<1> DEFINE q == Interval \div Lite!Second
<1>4. q \in Nat /\ Interval = Lite!Second * q + (Interval % Lite!Second)
  <2>1. Interval \in Nat /\ Lite!Second \in Nat \ {0}
    BY <1>1, <1>2
  <2>2. /\ Interval \div Lite!Second \in Nat /\ Interval % Lite!Second \in 0 .. Lite!Second - 1
        /\ Interval = Lite!Second * (Interval \div Lite!Second) + (Interval % Lite!Second)
    BY <2>1, Divides
  <2>3. QED
    BY <2>2
<1>5. Interval = Lite!Second * q
  <2>1. Interval % Lite!Second = 0
    BY <1>2, <1>3
  <2> HIDE DEF q
  <2>2. Lite!Second * q \in Nat
    BY <1>1, <1>4
  <2>3. QED
    BY <1>4, <2>1, <2>2
<1> HIDE DEF q
<1>6. q >= 1
  BY <1>1, <1>2, <1>4, <1>5
<1>7. Lite!Second * q >= Lite!Second
  BY <1>1, <1>4, <1>6
<1>8. Lite!Second * q = Micro * (Lite!Milli * q) /\ Lite!Milli * q \in Nat
  <2>1. Lite!Milli * q \in Nat
    BY <1>1, <1>4
  <2>2. (Base * Lite!Milli) * q = Base * (Lite!Milli * q)
    BY <1>1, <1>4
  <2>3. QED
    BY <1>1, <2>1, <2>2 DEF Micro
<1>9. QED
  BY <1>1, <1>2, <1>5, <1>7, <1>8

LEMMA OnGrid ==
  ASSUME NEW from \in Nat, NEW now \in Nat, NEW next, next = NextOnGrid(from, now)
  PROVE  /\ next \in Nat /\ now < next /\ from + Lite!Second <= next
         /\ \E k \in Nat : next = from + Micro * k
<1>1. /\ Interval \in Nat /\ Interval >= Lite!Second /\ Interval >= 1 /\ Lite!Second \in Nat
  BY IntervalIs, Units
<1>2. PICK j \in Nat : Interval = Micro * j
  BY IntervalIs
<1>3. Micro \in Nat
  BY Units DEF Micro
<1>4. CASE now < from
  <2>1. next = from + Interval
    BY <1>4 DEF NextOnGrid
  <2>2. QED
    BY <1>1, <1>2, <1>4, <2>1
<1>5. CASE ~ (now < from)
  <2> DEFINE q == (now - from) \div Interval
  <2>1. now - from \in Nat /\ Interval \in Nat \ {0}
    BY <1>1, <1>5
  <2>2. /\ q \in Nat /\ (now - from) % Interval \in 0 .. Interval - 1
        /\ now - from = Interval * q + ((now - from) % Interval)
    BY <2>1, Divides
  <2>3. next = from + (q + 1) * Interval
    BY <1>5 DEF NextOnGrid
  <2> HIDE DEF q
  <2>4. (q + 1) * Interval = Interval * q + Interval /\ Interval * q \in Nat
    BY <1>1, <2>2
  <2>5. next \in Nat /\ now < next /\ from + Lite!Second <= next
    BY <1>1, <2>1, <2>2, <2>3, <2>4
  <2>6. (q + 1) * Interval = Micro * (j * (q + 1)) /\ j * (q + 1) \in Nat
    <3>1. j * (q + 1) \in Nat
      BY <1>2, <2>2
    <3>2. (q + 1) * (Micro * j) = Micro * (j * (q + 1))
      BY <1>2, <1>3, <2>2
    <3>3. QED
      BY <1>2, <3>1, <3>2
  <2>7. QED
    BY <2>3, <2>5, <2>6
<1>6. QED
  BY <1>4, <1>5

\* The microsecond that PostgreSQL keeps.
LEMMA KeptMoment ==
  ASSUME NEW p \in Profiles, NEW v \in Nat
  PROVE  /\ Kept(p, v) \in Nat /\ Moment(p, Kept(p, v)) = Moment(p, v)
         /\ p = "lite" => Kept(p, v) = v
         /\ p = "pg" => \E q \in Nat : Kept(p, v) = Micro * q
<1>1. Micro \in Nat \ {0}
  BY Units DEF Micro
<1>2. /\ v \div Micro \in Nat /\ v % Micro \in 0 .. Micro - 1 /\ v = Micro * (v \div Micro) + (v % Micro)
  BY <1>1, Divides
<1> DEFINE q == v \div Micro
<1>3. 0 \in 0 .. Micro - 1 /\ (Micro * q + 0) \div Micro = q
  BY <1>1, <1>2, DividesOnly
<1>4. Micro * q \in Nat
  BY <1>1, <1>2
<1>5. v - (v % Micro) = Micro * q + 0
  BY <1>2, <1>4
<1>6. v # Nothing
  BY NatIsSome
<1>7. CASE p = "lite"
  BY <1>6, <1>7 DEF Kept
<1>8. CASE p = "pg"
  <2>1. Kept(p, v) = v - (v % Micro)
    BY <1>6, <1>8 DEF Kept
  <2>2. Kept(p, v) \in Nat /\ Kept(p, v) = Micro * q /\ Kept(p, v) \div Micro = v \div Micro
    BY <1>3, <1>4, <1>5, <2>1
  <2>3. Kept(p, v) # Nothing
    BY <2>2, NatIsSome
  <2>4. Pg!FormatTime(Kept(p, v)) = Pg!FormatTime(v)
    BY <2>2 DEF Pg!FormatTime, Pg!Micro, Micro
  <2>5. Moment(p, Kept(p, v)) = Moment(p, v)
    BY <1>6, <1>8, <2>3, <2>4 DEF Moment
  <2> HIDE DEF q
  <2>6. q \in Nat
    BY <1>2 DEF q
  <2>7. QED
    BY <1>8, <2>2, <2>5, <2>6
<1>9. QED
  BY <1>7, <1>8 DEF Profiles

LEMMA DueAdvanced ==
  ASSUME NEW p \in Profiles, NEW db, NEW bk, Inv(p, db, bk), NEW now \in Nat, NEW limit,
         NEW d \in DueListCall(p, db, now, limit).value,
         NEW next, next = NextOnGrid(d.next_run_at, now),
         NEW reply, reply = AdvanceCall(p, db, d.monitor.id, next, now)
  PROVE  /\ reply.value
         /\ next \in Nat /\ now < next
         /\ p = "pg" => \E q \in Nat : next = Micro * q
         /\ \A e \in DueListCall(p, reply.db, now, limit).value : e.monitor.id = d.monitor.id =>
              e.next_run_at = Kept(p, next) /\ Rank(p, Moment(p, next)) <= Rank(p, Moment(p, now))
<1>0. "monitors" \in TableNames /\ PrimaryKey("monitors") = {"id"}
  BY DEF TableNames, PrimaryKey
<1>1. PICK a \in DueListed(p, bk, now, limit) :
        d.monitor.id = a.monitor_id /\ d.next_run_at = Kept(p, MonitorIn(bk, a).next_run_at)
  <2>1. /\ DueListCall(p, db, now, limit).error = "none"
        /\ DueShown(p, bk, now, limit, DueListCall(p, db, now, limit).value)
    BY DueListing
  <2>2. QED
    BY <2>1 DEF DueShown
<1>2. a \in bk["monitor_locations"]
  BY DEF DueListed, FirstIn, Due
<1> DEFINE m == MonitorIn(bk, a)
<1>3. /\ m \in bk["monitors"] /\ m.id = a.monitor_id /\ m.next_run_at \in Nat
      /\ IsRecord(m) /\ DOMAIN m = Columns("monitors")
  BY <1>2, AssignedMonitor
<1>4. d.next_run_at = Kept(p, m.next_run_at) /\ d.monitor.id = m.id
  BY <1>1, <1>3
<1> HIDE DEF m
<1>5. /\ d.next_run_at \in Nat /\ Moment(p, d.next_run_at) = Moment(p, m.next_run_at)
      /\ p = "pg" => \E q \in Nat : d.next_run_at = Micro * q
  BY <1>3, <1>4, KeptMoment
<1>6. /\ next \in Nat /\ now < next /\ d.next_run_at + Lite!Second <= next
      /\ \E k \in Nat : next = d.next_run_at + Micro * k
  <2>1. d.next_run_at \in Nat /\ next = NextOnGrid(d.next_run_at, now)
    BY <1>5
  <2> DEFINE from == d.next_run_at
  <2>2. from \in Nat /\ next = NextOnGrid(from, now)
    BY <2>1
  <2> HIDE DEF from
  <2>3. /\ next \in Nat /\ now < next /\ from + Lite!Second <= next
        /\ \E k \in Nat : next = from + Micro * k
    BY <2>2, OnGrid
  <2>4. QED
    BY <2>3 DEF from
<1>7. Moment(p, d.next_run_at) = (IF p = "lite" THEN Lite!FormatTime(d.next_run_at) ELSE Pg!FormatTime(d.next_run_at))
      /\ Moment(p, next) = (IF p = "lite" THEN Lite!FormatTime(next) ELSE Pg!FormatTime(next))
  BY <1>5, <1>6, NatIsSome DEF Moment
<1>8. RowSooner(p, Moment(p, m.next_run_at), Moment(p, next))
  <2>1. Lite!TextBefore(Lite!FormatTime(d.next_run_at), Lite!FormatTime(next))
    BY <1>5, <1>6, TextOrder
  <2>2. Pg!FormatTime(d.next_run_at) < Pg!FormatTime(next)
    <3>1. Milli \in Nat /\ Lite!Second \in Nat /\ Milli <= Lite!Second
      <4>1. Base \in Nat /\ Base >= 2 /\ Milli \in Nat /\ Lite!Second = Base * Milli /\ Lite!Second \in Nat
        BY Units DEF Milli
      <4>2. Base * Milli >= Milli
        BY <4>1
      <4>3. QED
        BY <4>1, <4>2
    <3>2. d.next_run_at + Milli <= next
      BY <1>5, <1>6, <3>1
    <3>3. QED
      BY <1>5, <1>6, <3>2, PgTimes
  <2>3. QED
    BY <1>5, <1>7, <2>1, <2>2 DEF RowSooner
<1>9. AdvancingAnswers(p, db, bk, m.id, next, now, reply)
  BY <1>4, <1>6, Advancing
<1>10. reply.value
  BY <1>3, <1>8, <1>9 DEF AdvancingAnswers
<1> DEFINE new == AdvancedTo(m, next, now)
           bk2 == PutIn(bk, "monitors", new)
<1>11. Inv(p, reply.db, bk2)
  BY <1>3, <1>9, <1>10 DEF AdvancingAnswers
<1>12. new.id = m.id /\ new.next_run_at = next
  BY <1>3 DEF AdvancedTo, IsRecord, Columns
<1>13. new \in bk2["monitors"]
  <2>1. bk = [t \in TableNames |-> bk[t]]
    BY DEF Inv, BookInv
  <2> HIDE DEF new
  <2>2. QED
    BY <1>0, <2>1, PutAt
<1> HIDE DEF new, bk2
<1>14. ASSUME NEW e \in DueListCall(p, reply.db, now, limit).value, e.monitor.id = d.monitor.id
       PROVE  e.next_run_at = Kept(p, next) /\ Rank(p, Moment(p, next)) <= Rank(p, Moment(p, now))
  <2>1. DueShown(p, bk2, now, limit, DueListCall(p, reply.db, now, limit).value)
    BY <1>11, DueListing
  <2>2. PICK b \in DueListed(p, bk2, now, limit) :
          e.monitor.id = b.monitor_id /\ e.next_run_at = Kept(p, MonitorIn(bk2, b).next_run_at)
    BY <2>1 DEF DueShown
  <2>3. b \in bk2["monitor_locations"] /\ Rank(p, Moment(p, MonitorIn(bk2, b).next_run_at)) <= Rank(p, Moment(p, now))
    BY DEF DueListed, FirstIn, Due
  <2>4. new = MonitorIn(bk2, b)
    <3>1. \A o \in bk2["monitors"] : o.id = b.monitor_id => o = MonitorIn(bk2, b)
      BY <1>11, <2>3, AssignedMonitor
    <3>2. QED
      BY <1>4, <1>12, <1>13, <1>14, <2>2, <3>1
  <2>5. QED
    BY <1>12, <2>2, <2>3, <2>4
<1>15. ASSUME p = "pg" PROVE \E q \in Nat : next = Micro * q
  <2>1. PICK q \in Nat : d.next_run_at = Micro * q
    BY <1>5, <1>15
  <2>2. PICK k \in Nat : next = d.next_run_at + Micro * k
    BY <1>6
  <2>3. Micro \in Nat
    BY Units DEF Micro
  <2>4. Micro * q + Micro * k = Micro * (q + k) /\ q + k \in Nat
    BY <2>3
  <2>5. QED
    BY <2>1, <2>2, <2>4
<1>16. QED
  BY <1>6, <1>10, <1>14, <1>15

LEMMA AllDueAdvanced ==
  ASSUME StoreOK
  PROVE  DueIsAdvanced
<1>1. Instants \subseteq Nat /\ "lite" \in Profiles /\ "pg" \in Profiles
  BY ConformanceAssumption DEF Profiles
<1>2. ASSUME NEW now \in Instants, NEW d \in Lite!MonitorsListDue(lite, now, 3).value,
             NEW next, next = NextOnGrid(d.next_run_at, now),
             NEW after, after = Lite!MonitorsAdvanceNextRun(lite, d.monitor.id, next, now)
      PROVE  after.value /\ \A e \in Lite!MonitorsListDue(after.db, now, 3).value :
                              e.monitor.id = d.monitor.id => now < e.next_run_at /\ e.next_run_at < now + Milli
  <2>1. /\ now \in Nat /\ Inv("lite", lite, book) /\ d \in DueListCall("lite", lite, now, 3).value
        /\ after = AdvanceCall("lite", lite, d.monitor.id, next, now)
    BY <1>1, <1>2 DEF StoreOK, DueListCall, AdvanceCall
  <2>2. /\ after.value
        /\ next \in Nat /\ now < next
        /\ "lite" = "pg" => \E q \in Nat : next = Micro * q
        /\ \A e \in DueListCall("lite", after.db, now, 3).value : e.monitor.id = d.monitor.id =>
             e.next_run_at = Kept("lite", next) /\ Rank("lite", Moment("lite", next)) <= Rank("lite", Moment("lite",
                 now))
    BY <1>1, <1>2, <2>1, DueAdvanced
  <2>3. Kept("lite", next) = next
    BY <1>1, <2>2, KeptMoment
  <2>4. ASSUME Rank("lite", Moment("lite", next)) <= Rank("lite", Moment("lite", now)) PROVE next < now + Milli
    <3>1. Milli \in Nat
      BY Units DEF Milli
    <3>2. \A s, t \in Nat : s + Milli <= t => Lite!Julian(Lite!FormatTime(s)) < Lite!Julian(Lite!FormatTime(t))
      BY JulianOrder
    <3>3. Lite!Julian(Lite!FormatTime(now)) \in Nat /\ Lite!Julian(Lite!FormatTime(next)) \in Nat
      BY <2>1, <2>2, JulianOrder
    <3>4. Lite!Julian(Lite!FormatTime(next)) <= Lite!Julian(Lite!FormatTime(now))
      BY <2>1, <2>2, <2>4, NatIsSome DEF Rank, Moment
    <3>5. QED
      BY <2>1, <2>2, <3>1, <3>2, <3>3, <3>4
  <2>5. DueListCall("lite", after.db, now, 3) = Lite!MonitorsListDue(after.db, now, 3)
    BY DEF DueListCall
  <2>6. QED
    BY <2>2, <2>3, <2>4, <2>5
<1>3. ASSUME NEW now \in Instants, NEW d \in Pg!MonitorsListDue(pg, now, 3).value,
             NEW next, next = NextOnGrid(d.next_run_at, now),
             NEW after, after = Pg!MonitorsAdvanceNextRun(pg, d.monitor.id, next, now)
      PROVE  after.value /\ ~ \E e \in Pg!MonitorsListDue(after.db, now, 3).value : e.monitor.id = d.monitor.id
  <2>0. PICK bk : Inv("pg", pg, bk)
    BY DEF StoreOK
  <2>1. /\ now \in Nat /\ d \in DueListCall("pg", pg, now, 3).value
        /\ after = AdvanceCall("pg", pg, d.monitor.id, next, now)
    BY <1>1, <1>3 DEF DueListCall, AdvanceCall
  <2>2. /\ after.value
        /\ next \in Nat /\ now < next
        /\ "pg" = "pg" => \E q \in Nat : next = Micro * q
        /\ \A e \in DueListCall("pg", after.db, now, 3).value : e.monitor.id = d.monitor.id =>
             e.next_run_at = Kept("pg", next) /\ Rank("pg", Moment("pg", next)) <= Rank("pg", Moment("pg", now))
    BY <1>1, <1>3, <2>0, <2>1, DueAdvanced
  <2>3. Rank("pg", Moment("pg", next)) > Rank("pg", Moment("pg", now))
    <3>1. Rank("pg", Moment("pg", next)) = next \div Micro /\ Rank("pg", Moment("pg", now)) = now \div Micro
      BY <2>1, <2>2, NatIsSome DEF Rank, Moment, Pg!FormatTime, Pg!Micro, Micro
    <3>2. PICK q \in Nat : next = Micro * q
      BY <2>2
    <3>3. Micro \in Nat \ {0}
      BY Units DEF Micro
    <3>4. next \div Micro = q
      <4>1. 0 \in 0 .. Micro - 1 /\ (Micro * q + 0) \div Micro = q
        BY <3>2, <3>3, DividesOnly
      <4>2. Micro * q + 0 = next
        BY <2>2, <3>2
      <4>3. QED
        BY <4>1, <4>2
    <3> DEFINE n == now \div Micro
    <3>5. n \in Nat /\ now = Micro * n + (now % Micro) /\ now % Micro \in 0 .. Micro - 1
      BY <2>1, <3>3, Divides
    <3>6. n \in Nat /\ Micro * n <= now
      <4> HIDE DEF n
      <4>1. Micro * n \in Nat
        BY <3>3, <3>5
      <4>2. QED
        BY <3>3, <3>5, <4>1
    <3> HIDE DEF n
    <3>7. n < q
      <4>1. CASE n >= q
        <5>1. Micro * n >= Micro * q
          BY <3>2, <3>3, <3>6, <4>1
        <5>2. Micro * n \in Nat
          BY <3>3, <3>6
        <5>3. QED
          BY <2>1, <2>2, <3>2, <3>6, <5>1, <5>2
      <4>2. QED
        BY <3>2, <3>6, <4>1
    <3>8. QED
      BY <3>1, <3>4, <3>6, <3>7 DEF n
  <2>4. Rank("pg", Moment("pg", next)) \in Nat /\ Rank("pg", Moment("pg", now)) \in Nat
    BY <1>1, <2>1, <2>2, RankIs
  <2>5. DueListCall("pg", after.db, now, 3) = Pg!MonitorsListDue(after.db, now, 3)
    BY DEF DueListCall
  <2>6. QED
    BY <2>2, <2>3, <2>4, <2>5
<1>4. QED
  BY <1>2, <1>3 DEF DueIsAdvanced

(***************************************************************************)
(* What a worker is listed as stale or as due, it can take, and a monitor  *)
(* taken is not due before its next run, to the millisecond in SQLite      *)
(* (ListStale and ClaimStale, ListDue and AdvanceNextRun).                 *)
(***************************************************************************)
THEOREM StoresListWhatCanBeTaken == StoreSpec => []ListedIsTaken
<1>1. StoreOK => ListedIsTaken
  BY AllListedClaimed, AllDueAdvanced DEF ListedIsTaken
<1>2. QED
  BY <1>1, StoreInvariance, PTL

-----------------------------------------------------------------------------
\* Both profiles compare instants alike that are equal or a millisecond apart,
\* and so they list the same entities.
LEMMA RankSame ==
  ASSUME NEW S, Apart(Milli, S), NEW s \in S, NEW t \in S, s \in Nat, t \in Nat
  PROVE  /\ Rank("lite", Moment("lite", s)) <= Rank("lite", Moment("lite", t))
              <=> Rank("pg", Moment("pg", s)) <= Rank("pg", Moment("pg", t))
         /\ Rank("lite", Moment("lite", s)) < Rank("lite", Moment("lite", t))
              <=> Rank("pg", Moment("pg", s)) < Rank("pg", Moment("pg", t))
         /\ Rank("lite", Moment("lite", s)) = Rank("lite", Moment("lite", t))
              <=> Rank("pg", Moment("pg", s)) = Rank("pg", Moment("pg", t))
<1>1. Milli \in Nat /\ "lite" \in Profiles /\ "pg" \in Profiles
  BY Units DEF Milli, Profiles
<1>2. s = t \/ s + Milli <= t \/ t + Milli <= s
  BY <1>1, ApartIs
<1>3. /\ Rank("lite", Moment("lite", s)) <= Rank("lite", Moment("lite", t)) <=> s <= t
      /\ Rank("lite", Moment("lite", s)) < Rank("lite", Moment("lite", t)) <=> s < t
      /\ Rank("lite", Moment("lite", s)) = Rank("lite", Moment("lite", t)) <=> s = t
  BY <1>1, <1>2, RankExact
<1>4. /\ Rank("pg", Moment("pg", s)) <= Rank("pg", Moment("pg", t)) <=> s <= t
      /\ Rank("pg", Moment("pg", s)) < Rank("pg", Moment("pg", t)) <=> s < t
      /\ Rank("pg", Moment("pg", s)) = Rank("pg", Moment("pg", t)) <=> s = t
  BY <1>1, <1>2, RankExact
<1>5. QED
  BY <1>3, <1>4

LEMMA FirstSame ==
  ASSUME NEW S, NEW before, NEW sooner, \A x, y \in S : <<y, x>> \in before <=> <<y, x>> \in sooner, NEW n
  PROVE  FirstIn(S, n, before) = FirstIn(S, n, sooner)
<1>1. \A x \in S : {y \in S : <<y, x>> \in before} = {y \in S : <<y, x>> \in sooner}
  OBVIOUS
<1>2. QED
  BY <1>1 DEF FirstIn

LEMMA OverdueSame ==
  ASSUME Inv("pg", pg, book), NEW now \in Nat, Apart(Milli, {now} \cup Deadlines), NEW limit
  PROVE  OverdueListed("lite", book, now, limit) = OverdueListed("pg", book, now, limit)
<1>0. "location_health" \in TableNames /\ "pg" \in Profiles /\ "lite" \in Profiles
  BY DEF TableNames, Profiles
<1> DEFINE E == book["location_health"]
           D == {now} \cup Deadlines
<1>1. \A e \in E : e.stale_at # Nothing => e.stale_at \in Nat /\ e.stale_at \in D
  <2> SUFFICES ASSUME NEW e \in E, e.stale_at # Nothing PROVE e.stale_at \in Nat /\ e.stale_at \in Deadlines
    OBVIOUS
  <2>1. e \in Entities("location_health") /\ DOMAIN e = Columns("location_health")
    BY <1>0, RowOf
  <2>2. e.stale_at \in Nat
    BY <2>1 DEF Entities, Maybe
  <2>3. "stale_at" \in DeadlineColumns \cap DOMAIN e
    BY <2>1 DEF DeadlineColumns, Columns
  <2>4. e["stale_at"] \in Deadlines
    BY <1>0, <2>3, DeadlineIs
  <2>5. QED
    BY <2>2, <2>4
<1>2. Apart(Milli, D) /\ now \in D
  OBVIOUS
<1> HIDE DEF D
<1>3. \A e \in E : e.stale_at # Nothing =>
        (Rank("lite", Moment("lite", e.stale_at)) <= Rank("lite", Moment("lite", now))
           <=> Rank("pg", Moment("pg", e.stale_at)) <= Rank("pg", Moment("pg", now)))
  BY <1>1, <1>2, RankSame
<1>4. Overdue("lite", book, now) = Overdue("pg", book, now)
  BY <1>3 DEF Overdue
<1>5. \A e, f \in Overdue("pg", book, now) :
        <<f, e>> \in OverdueOrder("lite", book) <=> <<f, e>> \in OverdueOrder("pg", book)
  <2> SUFFICES ASSUME NEW e \in Overdue("pg", book, now), NEW f \in Overdue("pg", book, now)
               PROVE  <<f, e>> \in OverdueOrder("lite", book) <=> <<f, e>> \in OverdueOrder("pg", book)
    OBVIOUS
  <2>1. e \in E /\ f \in E /\ e.stale_at # Nothing /\ f.stale_at # Nothing
    BY DEF Overdue
  <2>2. /\ e.stale_at \in D /\ f.stale_at \in D /\ e.stale_at \in Nat /\ f.stale_at \in Nat
    BY <1>1, <2>1
  <2>3. /\ Rank("lite", Moment("lite", f.stale_at)) < Rank("lite", Moment("lite", e.stale_at))
             <=> Rank("pg", Moment("pg", f.stale_at)) < Rank("pg", Moment("pg", e.stale_at))
        /\ Rank("lite", Moment("lite", f.stale_at)) = Rank("lite", Moment("lite", e.stale_at))
             <=> Rank("pg", Moment("pg", f.stale_at)) = Rank("pg", Moment("pg", e.stale_at))
    BY <1>2, <2>2, RankSame
  <2>4. \A p : <<f, e>> \in OverdueOrder(p, book) <=>
          \/ Rank(p, Moment(p, f.stale_at)) < Rank(p, Moment(p, e.stale_at))
          \/ /\ Rank(p, Moment(p, f.stale_at)) = Rank(p, Moment(p, e.stale_at))
             /\ \/ f.monitor_id < e.monitor_id
                \/ f.monitor_id = e.monitor_id /\ f.location_id < e.location_id
    BY <2>1 DEF OverdueOrder
  <2>5. QED
    BY <2>3, <2>4
<1>6. QED
  BY <1>4, <1>5, FirstSame DEF OverdueListed

LEMMA StaleSame ==
  ASSUME Inv("lite", lite, book), Inv("pg", pg, book), NEW now \in Nat, Apart(Milli, {now} \cup Deadlines), NEW limit
  PROVE  OnColumns(Lite!HealthListStale(lite, now, limit), {"monitor_id", "location_id"})
           = OnColumns(Pg!HealthListStale(pg, now, limit), {"monitor_id", "location_id"})
<1>0. "location_health" \in TableNames /\ "pg" \in Profiles /\ "lite" \in Profiles
  BY DEF TableNames, Profiles
<1> DEFINE listed == OverdueListed("lite", book, now, limit)
           key(e) == [c \in {"monitor_id", "location_id"} |-> e[c]]
<1>1. listed \subseteq book["location_health"] /\ listed = OverdueListed("pg", book, now, limit)
  <2>1. listed \subseteq book["location_health"]
    BY DEF OverdueListed, FirstIn, Overdue
  <2>2. QED
    BY <2>1, OverdueSame
<1> HIDE DEF listed
<1>2. /\ Lite!HealthListStale(lite, now, limit).value = {Back("lite", e) : e \in listed}
      /\ Pg!HealthListStale(pg, now, limit).value = {Back("pg", e) : e \in listed}
  <2>1. /\ StaleListCall("lite", lite, now, limit).error = "none"
        /\ StaleListCall("lite", lite, now, limit).value = {Back("lite", e) : e \in OverdueListed("lite", book, now,
               limit)}
    BY <1>0, StaleListing
  <2>2. /\ StaleListCall("pg", pg, now, limit).error = "none"
        /\ StaleListCall("pg", pg, now, limit).value = {Back("pg", e) : e \in OverdueListed("pg", book, now, limit)}
    BY <1>0, StaleListing
  <2>3. QED
    BY <1>1, <2>1, <2>2 DEF StaleListCall, listed
<1>3. \A p \in Profiles : \A e \in listed : key(Back(p, e)) = key(e)
  <2> SUFFICES ASSUME NEW p \in Profiles, NEW e \in listed
               PROVE  Back(p, e)["monitor_id"] = e["monitor_id"] /\ Back(p, e)["location_id"] = e["location_id"]
    OBVIOUS
  <2>1. IsRecord(e) /\ DOMAIN e = Columns("location_health")
    BY <1>0, <1>1, RowOf
  <2>2. Back(p, e) = [c \in DOMAIN e |-> BackColumn(p, c, e[c])]
    BY <2>1, BackColumns
  <2>3. /\ {"monitor_id", "location_id"} \subseteq Columns("location_health")
        /\ "monitor_id" \notin TimeColumns \cup {"latency_ms"} /\ "location_id" \notin TimeColumns \cup {"latency_ms"}
    BY DEF Columns, TimeColumns
  <2>4. QED
    BY <2>1, <2>2, <2>3 DEF BackColumn
<1>4. /\ OnColumns(Lite!HealthListStale(lite, now, limit), {"monitor_id", "location_id"}) = {key(h) : h \in {Back("lite",
             e) : e \in listed}}
      /\ OnColumns(Pg!HealthListStale(pg, now, limit), {"monitor_id", "location_id"}) = {key(h) : h \in {Back("pg",
             e) : e \in listed}}
  BY <1>2 DEF OnColumns
<1> HIDE DEF key
<1>5. /\ {key(h) : h \in {Back("lite", e) : e \in listed}} = {key(e) : e \in listed}
      /\ {key(h) : h \in {Back("pg", e) : e \in listed}} = {key(e) : e \in listed}
  BY <1>0, <1>3
<1>6. QED
  BY <1>4, <1>5

-----------------------------------------------------------------------------
LEMMA DueListedSame ==
  ASSUME Inv("pg", pg, book), NEW now \in Nat, Apart(Milli, {now} \cup Deadlines), NEW limit
  PROVE  DueListed("lite", book, now, limit) = DueListed("pg", book, now, limit)
<1>0. "monitors" \in TableNames /\ "pg" \in Profiles /\ "lite" \in Profiles
  BY DEF TableNames, Profiles
<1> DEFINE E == book["monitor_locations"]
           D == {now} \cup Deadlines
           at(e) == MonitorIn(book, e).next_run_at
<1>1. \A e \in E : at(e) \in Nat /\ at(e) \in D
  <2> SUFFICES ASSUME NEW e \in E PROVE at(e) \in Nat /\ at(e) \in Deadlines
    OBVIOUS
  <2>1. MonitorIn(book, e) \in book["monitors"] /\ at(e) \in Nat /\ DOMAIN MonitorIn(book, e) = Columns("monitors")
    BY <1>0, AssignedMonitor
  <2>2. "next_run_at" \in DeadlineColumns \cap DOMAIN MonitorIn(book, e)
    BY <2>1 DEF DeadlineColumns, Columns
  <2>3. at(e) # Nothing
    BY <2>1, NatIsSome
  <2> DEFINE m == MonitorIn(book, e)
  <2>4. m \in book["monitors"] /\ "next_run_at" \in DeadlineColumns \cap DOMAIN m /\ m["next_run_at"] # Nothing
    BY <2>1, <2>2, <2>3
  <2> HIDE DEF m
  <2>5. m["next_run_at"] \in Deadlines
    BY <1>0, <2>4, DeadlineIs
  <2>6. QED
    BY <2>1, <2>5 DEF m
<1>2. Apart(Milli, D) /\ now \in D
  OBVIOUS
<1> HIDE DEF D, at
<1>3. \A e \in E : Rank("lite", Moment("lite", at(e))) <= Rank("lite", Moment("lite", now))
                     <=> Rank("pg", Moment("pg", at(e))) <= Rank("pg", Moment("pg", now))
  BY <1>1, <1>2, RankSame
<1>4. Due("lite", book, now) = Due("pg", book, now)
  BY <1>3 DEF Due, at
<1>5. \A e, f \in Due("pg", book, now) :
        <<f, e>> \in DueOrder("lite", book) <=> <<f, e>> \in DueOrder("pg", book)
  <2> SUFFICES ASSUME NEW e \in Due("pg", book, now), NEW f \in Due("pg", book, now)
               PROVE  <<f, e>> \in DueOrder("lite", book) <=> <<f, e>> \in DueOrder("pg", book)
    OBVIOUS
  <2>1. e \in E /\ f \in E
    BY DEF Due
  <2>2. /\ at(e) \in D /\ at(f) \in D /\ at(e) \in Nat /\ at(f) \in Nat
    BY <1>1, <2>1
  <2>3. /\ Rank("lite", Moment("lite", at(f))) < Rank("lite", Moment("lite", at(e)))
             <=> Rank("pg", Moment("pg", at(f))) < Rank("pg", Moment("pg", at(e)))
        /\ Rank("lite", Moment("lite", at(f))) = Rank("lite", Moment("lite", at(e)))
             <=> Rank("pg", Moment("pg", at(f))) = Rank("pg", Moment("pg", at(e)))
    BY <1>2, <2>2, RankSame
  <2>4. \A p : <<f, e>> \in DueOrder(p, book) <=>
          \/ Rank(p, Moment(p, at(f))) < Rank(p, Moment(p, at(e)))
          \/ /\ Rank(p, Moment(p, at(f))) = Rank(p, Moment(p, at(e)))
             /\ \/ f.monitor_id < e.monitor_id
                \/ f.monitor_id = e.monitor_id /\ f.location_id < e.location_id
    BY <2>1 DEF DueOrder, at
  <2>5. QED
    BY <2>3, <2>4
<1>6. QED
  BY <1>4, <1>5, FirstSame DEF DueListed

LEMMA DueSame ==
  ASSUME Inv("lite", lite, book), Inv("pg", pg, book), NEW now \in Nat, Apart(Milli, {now} \cup Deadlines), NEW limit
  PROVE  {d.monitor.id : d \in Lite!MonitorsListDue(lite, now, limit).value}
           = {d.monitor.id : d \in Pg!MonitorsListDue(pg, now, limit).value}
<1>0. "pg" \in Profiles /\ "lite" \in Profiles
  BY DEF Profiles
<1> DEFINE l == Lite!MonitorsListDue(lite, now, limit).value
           p == Pg!MonitorsListDue(pg, now, limit).value
           listed == DueListed("lite", book, now, limit)
<1>1. listed = DueListed("pg", book, now, limit)
  BY DueListedSame
<1>2. DueShown("lite", book, now, limit, l)
  <2>1. /\ DueListCall("lite", lite, now, limit).error = "none"
        /\ DueShown("lite", book, now, limit, DueListCall("lite", lite, now, limit).value)
    BY <1>0, DueListing
  <2>2. QED
    BY <2>1 DEF DueListCall
<1>3. DueShown("pg", book, now, limit, p)
  <2>1. /\ DueListCall("pg", pg, now, limit).error = "none"
        /\ DueShown("pg", book, now, limit, DueListCall("pg", pg, now, limit).value)
    BY <1>0, DueListing
  <2>2. QED
    BY <2>1 DEF DueListCall
<1>4. /\ \A d \in l : \E a \in listed : d.monitor.id = a.monitor_id
      /\ \A a \in listed : \E d \in l : d.monitor.id = a.monitor_id
  BY <1>2 DEF DueShown
<1>5. /\ \A d \in p : \E a \in listed : d.monitor.id = a.monitor_id
      /\ \A a \in listed : \E d \in p : d.monitor.id = a.monitor_id
  BY <1>1, <1>3 DEF DueShown
<1> HIDE DEF l, p, listed
<1>6. {d.monitor.id : d \in l} = {d.monitor.id : d \in p}
  <2> DEFINE ids(S) == {d.monitor.id : d \in S}
  <2>1. \A i : i \in ids(l) <=> \E a \in listed : i = a.monitor_id
    BY <1>4
  <2>2. \A i : i \in ids(p) <=> \E a \in listed : i = a.monitor_id
    BY <1>5
  <2>3. QED
    BY <2>1, <2>2
<1>7. QED
  BY <1>6 DEF l, p

-----------------------------------------------------------------------------
\* Finding a session.
SessionCall(p, db, hash, now) ==
  IF p = "lite" THEN Lite!SessionsFindActiveByTokenHash(db, hash, now) ELSE Pg!SessionsFindActiveByTokenHash(db, hash,
      now)

SessionRows(p, db, hash, now) ==
  {r \in db["sessions"] : /\ r.token_hash = hash /\ Rank(p, r.expires_at) > Rank(p, Moment(p, now)) /\
                                 r.revoked_at = Null}

SessionRead(p, r) ==
  IF p = "lite" THEN [r EXCEPT !.expires_at = Lite!ParseTime(@), !.revoked_at = Lite!ParseNullableTime(@)]
  ELSE [r EXCEPT !.expires_at = Pg!ParseTime(@), !.revoked_at = Pg!ParseNullableTime(@)]

LEMMA SessionIs ==
  ASSUME NEW p \in Profiles, NEW db, NEW hash, NEW now \in Nat, NEW rows, rows = SessionRows(p, db, hash, now)
  PROVE  /\ rows = {} => SessionCall(p, db, hash, now) = [db |-> db, value |-> Nothing, error |-> "not_found"]
         /\ \A s : rows = {s} => SessionCall(p, db, hash, now) = [db |-> db, value |-> SessionRead(p, s),
                error |-> "none"]
<1>1. now # Nothing
  BY NatIsSome
<1>2. \A s : (CHOOSE x \in {s} : TRUE) = s
  OBVIOUS
<1>3. CASE p = "lite"
  <2> DEFINE answer == Lite!One(Lite!Answer(db, rows))
  <2>0. rows = {r \in db["sessions"] : /\ r.token_hash = hash /\
                                              Lite!Julian(r.expires_at) > Lite!Julian(Lite!FormatTime(now))
                                       /\ r.revoked_at = Null}
    BY <1>1, <1>3 DEF SessionRows, Rank, Moment
  <2>1. Lite!FindActiveSessionByTokenHash(db, [token_hash |-> hash, now |-> Lite!FormatTime(now)]) = answer
    BY <2>0 DEF Lite!FindActiveSessionByTokenHash, Lite!Select
  <2>2. SessionCall(p, db, hash, now)
          = Lite!Found(answer, Lite!Always,
                       LAMBDA r : [r EXCEPT !.expires_at = Lite!ParseTime(@), !.revoked_at = Lite!ParseNullableTime(@)])
    BY <1>3, <2>1 DEF SessionCall, Lite!SessionsFindActiveByTokenHash
  <2> HIDE DEF answer
  <2>3. ASSUME rows = {} PROVE SessionCall(p, db, hash, now) = [db |-> db, value |-> Nothing, error |-> "not_found"]
    <3>1. answer = [db |-> db, rows |-> {}, error |-> "no_rows"]
      BY <2>3, OneMissing DEF answer
    <3>2. QED
      BY <2>2, <3>1 DEF Lite!Found, Lite!Wrote, Lite!Reply, Lite!RepositoryError
  <2>4. ASSUME NEW s, rows = {s}
        PROVE  SessionCall(p, db, hash, now) = [db |-> db, value |-> SessionRead(p, s), error |-> "none"]
    <3>1. answer = [db |-> db, rows |-> {s}, error |-> "none"]
      BY <2>4, OneFound DEF answer
    <3>2. QED
      BY <1>2, <1>3, <2>2, <3>1 DEF Lite!Found, Lite!Reply, Lite!RepositoryError, Lite!Always, SessionRead
  <2>5. QED
    BY <2>3, <2>4
<1>4. CASE p = "pg"
  <2> DEFINE answer == Pg!One(Pg!Answer(db, rows))
  <2>0. rows = {r \in db["sessions"] : /\ r.token_hash = hash /\ r.expires_at > Pg!FormatTime(now)
                                       /\ r.revoked_at = Null}
    BY <1>1, <1>4 DEF SessionRows, Rank, Moment
  <2>1. Pg!FindActiveSessionByTokenHash(db, [token_hash |-> hash, now |-> Pg!FormatTime(now)]) = answer
    BY <2>0 DEF Pg!FindActiveSessionByTokenHash, Pg!Select
  <2>2. SessionCall(p, db, hash, now)
          = Pg!Found(answer, Pg!Always,
                     LAMBDA r : [r EXCEPT !.expires_at = Pg!ParseTime(@), !.revoked_at = Pg!ParseNullableTime(@)])
    BY <1>4, <2>1 DEF SessionCall, Pg!SessionsFindActiveByTokenHash
  <2> HIDE DEF answer
  <2>3. ASSUME rows = {} PROVE SessionCall(p, db, hash, now) = [db |-> db, value |-> Nothing, error |-> "not_found"]
    <3>1. answer = [db |-> db, rows |-> {}, error |-> "no_rows"]
      BY <2>3, OneMissing DEF answer
    <3>2. QED
      BY <2>2, <3>1 DEF Pg!Found, Pg!Wrote, Pg!Reply, Pg!RepositoryError
  <2>4. ASSUME NEW s, rows = {s}
        PROVE  SessionCall(p, db, hash, now) = [db |-> db, value |-> SessionRead(p, s), error |-> "none"]
    <3>1. answer = [db |-> db, rows |-> {s}, error |-> "none"]
      BY <2>4, OneFound DEF answer
    <3>2. QED
      BY <1>2, <1>4, <2>2, <3>1 DEF Pg!Found, Pg!Reply, Pg!RepositoryError, Pg!Always, SessionRead
  <2>5. QED
    BY <2>3, <2>4
<1>5. QED
  BY <1>3, <1>4 DEF Profiles

CanOpen(p, s, now) == Rank(p, Moment(p, s.expires_at)) > Rank(p, Moment(p, now)) /\ s.revoked_at = Nothing

LEMMA SessionFinding ==
  ASSUME NEW p \in Profiles, NEW db, NEW bk, Inv(p, db, bk), NEW s \in bk["sessions"], NEW now \in Nat,
         NEW reply, reply = SessionCall(p, db, s.token_hash, now)
  PROVE  /\ CanOpen(p, s, now) => reply.error = "none" /\ reply.value = Back(p, s)
         /\ ~ CanOpen(p, s, now) => reply.error = "not_found" /\ reply.value = Nothing
<1>0. "sessions" \in TableNames
  BY DEF TableNames
<1> DEFINE rows == SessionRows(p, db, s.token_hash, now)
<1>1. /\ {"token_hash"} \subseteq (PlainColumns \ {"probe_json"}) \cap Columns("sessions")
      /\ {"expires_at", "revoked_at"} \subseteq TimeColumns \cap Columns("sessions")
  BY DEF PlainColumns, Columns, TimeColumns
<1>2. \A e \in bk["sessions"] : \A r \in db["sessions"] : Keeps(p, r, e) =>
        /\ r.token_hash = e.token_hash /\ r.expires_at = Moment(p, e.expires_at)
        /\ r.revoked_at = Null <=> e.revoked_at = Nothing
  <2> SUFFICES ASSUME NEW e \in bk["sessions"], NEW r \in db["sessions"], Keeps(p, r, e)
               PROVE  /\ r.token_hash = e.token_hash /\ r.expires_at = Moment(p, e.expires_at)
                      /\ r.revoked_at = Null <=> e.revoked_at = Nothing
    OBVIOUS
  <2>1. /\ r.token_hash = e.token_hash /\ r.expires_at = Moment(p, e.expires_at)
        /\ r.revoked_at = Moment(p, e.revoked_at)
    BY <1>0, <1>1, ColumnsKept
  <2>2. e \in Entities("sessions")
    BY <1>0, RowOf
  <2>3. e.revoked_at \in Maybe(Nat) /\ Nothing \in Maybe(Nat)
    BY <2>2 DEF Entities, Maybe
  <2>4. Moment(p, e.revoked_at) = Null <=> e.revoked_at = Nothing
    BY <2>3, SameMoment
  <2>5. QED
    BY <2>1, <2>4
<1>3. \A e \in bk["sessions"] : e.token_hash = s.token_hash => e = s
  <2>1. {"token_hash"} \in KeysOf("sessions")
    BY DEF KeysOf, Unique
  <2>2. \A a, b \in bk["sessions"] : SameKey(a, b, {"token_hash"}) => a = b
    BY <1>0, <2>1, OneEntity
  <2>3. QED
    BY <2>2 DEF SameKey, Equal
<1>4. \A r \in db["sessions"] : \A e \in bk["sessions"] : Keeps(p, r, e) =>
        (r \in rows <=> (e = s /\ CanOpen(p, s, now)))
  BY <1>2, <1>3 DEF SessionRows, CanOpen
<1>5. rows \subseteq db["sessions"]
  BY DEF SessionRows
<1>6. /\ rows = {} => SessionCall(p, db, s.token_hash, now) = [db |-> db, value |-> Nothing, error |-> "not_found"]
      /\ \A r : rows = {r} => SessionCall(p, db, s.token_hash, now) = [db |-> db, value |-> SessionRead(p, r),
             error |-> "none"]
  BY SessionIs
<1> HIDE DEF rows
<1>7. CASE CanOpen(p, s, now)
  <2>1. \A r \in db["sessions"] : \A o \in bk["sessions"] : Keeps(p, r, o) => (r \in rows <=> o = s)
    BY <1>4, <1>7
  <2>2. PICK r \in db["sessions"] : rows = {r} /\ Keeps(p, r, s)
    BY <1>0, <1>5, <2>1, OneRow
  <2>3. WellFormed("sessions", s)
    BY <1>0, RowOf
  <2>4. SessionRead(p, r) = Back(p, s)
    <3>1. /\ p = "lite" => [r EXCEPT !.expires_at = Lite!ParseTime(@),
                 !.revoked_at = Lite!ParseNullableTime(@)] = Back(p, s)
          /\ p = "pg" => [r EXCEPT !.expires_at = Pg!ParseTime(@), !.revoked_at = Pg!ParseNullableTime(@)] = Back(p, s)
      BY <2>2, <2>3, SessionBack
    <3>2. CASE p = "lite"
      BY <3>1, <3>2 DEF SessionRead
    <3>3. CASE p = "pg"
      BY <3>1, <3>3 DEF SessionRead
    <3>4. QED
      BY <3>2, <3>3 DEF Profiles
  <2>5. SessionCall(p, db, s.token_hash, now) = [db |-> db, value |-> SessionRead(p, r), error |-> "none"]
    BY <1>6, <2>2
  <2>6. reply = [db |-> db, value |-> Back(p, s), error |-> "none"]
    BY <2>4, <2>5
  <2>7. QED
    BY <1>7, <2>6
<1>8. CASE ~ CanOpen(p, s, now)
  <2>1. \A r \in db["sessions"] : \E e \in bk["sessions"] : Keeps(p, r, e)
    BY <1>0, RowOf
  <2>2. rows = {}
    BY <1>4, <1>5, <1>8, <2>1
  <2>3. QED
    BY <1>6, <1>8, <2>2
<1>9. QED
  BY <1>7, <1>8

LEMMA SessionSame ==
  ASSUME Inv("lite", lite, book), Inv("pg", pg, book), NEW now \in Nat, Apart(Milli, {now} \cup Deadlines),
         NEW s \in book["sessions"]
  PROVE  SameReply(Lite!SessionsFindActiveByTokenHash(lite, s.token_hash, now),
                   Pg!SessionsFindActiveByTokenHash(pg, s.token_hash, now), SameEntity)
<1>0. "sessions" \in TableNames /\ "pg" \in Profiles /\ "lite" \in Profiles
  BY DEF TableNames, Profiles
<1> DEFINE l == SessionCall("lite", lite, s.token_hash, now)
           p == SessionCall("pg", pg, s.token_hash, now)
           D == {now} \cup Deadlines
<1>1. /\ CanOpen("lite", s, now) => l.error = "none" /\ l.value = Back("lite", s)
      /\ ~ CanOpen("lite", s, now) => l.error = "not_found" /\ l.value = Nothing
  BY <1>0, SessionFinding
<1>2. /\ CanOpen("pg", s, now) => p.error = "none" /\ p.value = Back("pg", s)
      /\ ~ CanOpen("pg", s, now) => p.error = "not_found" /\ p.value = Nothing
  BY <1>0, SessionFinding
<1>3. s \in Entities("sessions") /\ WellFormed("sessions", s) /\ DOMAIN s = Columns("sessions")
  BY <1>0, RowOf
<1>4. CanOpen("lite", s, now) <=> CanOpen("pg", s, now)
  <2>1. s.expires_at \in Nat
    BY <1>3 DEF Entities
  <2>2. s["expires_at"] # Nothing /\ "expires_at" \in DeadlineColumns \cap DOMAIN s
    BY <1>3, <2>1, NatIsSome DEF DeadlineColumns, Columns
  <2>3. s["expires_at"] \in Deadlines
    BY <1>0, <2>2, DeadlineIs
  <2>4. Apart(Milli, D) /\ now \in D /\ s.expires_at \in D
    BY <2>3
  <2> HIDE DEF D
  <2>5. /\ Rank("lite", Moment("lite", s.expires_at)) <= Rank("lite", Moment("lite", now))
             <=> Rank("pg", Moment("pg", s.expires_at)) <= Rank("pg", Moment("pg", now))
    BY <2>1, <2>4, RankSame
  <2>6. /\ Rank("lite", Moment("lite", s.expires_at)) \in Nat /\ Rank("lite", Moment("lite", now)) \in Nat
        /\ Rank("pg", Moment("pg", s.expires_at)) \in Nat /\ Rank("pg", Moment("pg", now)) \in Nat
    BY <1>0, <2>1, RankIs
  <2>7. QED
    BY <2>5, <2>6 DEF CanOpen
<1>5. SameEntity(Back("lite", s), Back("pg", s))
  <2>1. /\ SameEntity(Back("lite", s), Back("pg", s))
        /\ Back("lite", s) = s /\ Back("lite", s) # Nothing /\ Back("pg", s) # Nothing
    BY <1>3, SameBack
  <2>2. QED
    BY <2>1
<1> HIDE DEF l, p
<1>6. SameReply(l, p, SameEntity)
  BY <1>1, <1>2, <1>4, <1>5 DEF SameReply
<1>7. QED
  BY <1>6 DEF l, p, SessionCall

-----------------------------------------------------------------------------
\* Listing the required locations of a monitor.
RequiredCall(p, db, monitor) ==
  IF p = "lite" THEN Lite!HealthListRequiredLocations(db, monitor) ELSE Pg!HealthListRequiredLocations(db, monitor)

RequiredRows(p, db, monitor) == {a \in db["monitor_locations"] : a.monitor_id = monitor /\ Flagged(p, a.required)}

OwnRows(db, a) == {h \in db["location_health"] : h.monitor_id = a.monitor_id /\ h.location_id = a.location_id}

RowHealth(db, a) ==
  IF OwnRows(db, a) = {} THEN Lite!PendingRow(a) ELSE CHOOSE h \in OwnRows(db, a) : TRUE

LEMMA RequiredIs ==
  ASSUME NEW p \in Profiles, NEW db, NEW monitor, NEW rows, rows = RequiredRows(p, db, monitor),
         \A a \in rows : Lite!HealthReadable(RowHealth(db, a)) /\ Pg!HealthReadable(RowHealth(db, a))
  PROVE  RequiredCall(p, db, monitor) = [db |-> db, value |-> {HealthRead(p, RowHealth(db, a)) : a \in rows},
      error |-> "none"]
<1>1. CASE p = "lite"
  <2>1. \A a : Lite!HealthRow(db, a) = RowHealth(db, a)
    <3> SUFFICES ASSUME NEW a PROVE Lite!HealthRow(db, a) = RowHealth(db, a)
      OBVIOUS
    <3> DEFINE same == {h \in db["location_health"] : Lite!Equal(h, a, {"monitor_id", "location_id"})}
    <3>1. Lite!HealthRow(db, a) = IF same = {} THEN Lite!PendingRow(a) ELSE CHOOSE h \in same : TRUE
      BY DEF Lite!HealthRow
    <3>2. same = OwnRows(db, a)
      BY DEF OwnRows, Lite!Equal
    <3>3. Pg!PendingRow(a) = Lite!PendingRow(a)
      BY DEF Pg!PendingRow, Lite!PendingRow
    <3> HIDE DEF same
    <3>4. QED
      BY <3>1, <3>2, <3>3 DEF RowHealth
  <2> DEFINE own == {a \in db["monitor_locations"] : a.monitor_id = monitor /\ a.required = 1}
             answer == [db |-> db, rows |-> {Lite!HealthRow(db, a) : a \in own}, error |-> "none"]
  <2>2. own = rows
    BY <1>1 DEF RequiredRows, Flagged, Lite!IntBool
  <2>3. RequiredCall(p, db, monitor) = Lite!Listed(answer, Lite!HealthReadable, Lite!MapLocationHealth)
    BY <1>1 DEF RequiredCall, Lite!HealthListRequiredLocations, Lite!ListRequiredLocationHealth, Lite!Answer
  <2> HIDE DEF own
  <2>4. answer.rows = {RowHealth(db, a) : a \in rows} /\ answer.db = db /\ answer.error = "none"
    BY <2>1, <2>2
  <2> HIDE DEF answer
  <2>5. QED
    BY <1>1, <2>3, <2>4 DEF Lite!Listed, Lite!Reply, Lite!RepositoryError, HealthRead
<1>2. CASE p = "pg"
  <2>1. \A a : Pg!HealthRow(db, a) = RowHealth(db, a)
    <3> SUFFICES ASSUME NEW a PROVE Pg!HealthRow(db, a) = RowHealth(db, a)
      OBVIOUS
    <3> DEFINE same == {h \in db["location_health"] : Pg!Equal(h, a, {"monitor_id", "location_id"})}
    <3>1. Pg!HealthRow(db, a) = IF same = {} THEN Pg!PendingRow(a) ELSE CHOOSE h \in same : TRUE
      BY DEF Pg!HealthRow
    <3>2. same = OwnRows(db, a)
      BY DEF OwnRows, Pg!Equal
    <3>3. Pg!PendingRow(a) = Lite!PendingRow(a)
      BY DEF Pg!PendingRow, Lite!PendingRow
    <3> HIDE DEF same
    <3>4. QED
      BY <3>1, <3>2, <3>3 DEF RowHealth
  <2> DEFINE own == {a \in db["monitor_locations"] : a.monitor_id = monitor /\ a.required}
             answer == [db |-> db, rows |-> {Pg!HealthRow(db, a) : a \in own}, error |-> "none"]
  <2>2. own = rows
    BY <1>2 DEF RequiredRows, Flagged
  <2>3. RequiredCall(p, db, monitor) = Pg!Listed(answer, Pg!HealthReadable, Pg!MapLocationHealth)
    BY <1>2 DEF RequiredCall, Pg!HealthListRequiredLocations, Pg!ListRequiredLocationHealth, Pg!Answer
  <2> HIDE DEF own
  <2>4. answer.rows = {RowHealth(db, a) : a \in rows} /\ answer.db = db /\ answer.error = "none"
    BY <2>1, <2>2
  <2> HIDE DEF answer
  <2>5. QED
    BY <1>2, <2>3, <2>4 DEF Pg!Listed, Pg!Reply, Pg!RepositoryError, HealthRead
<1>3. QED
  BY <1>1, <1>2 DEF Profiles

\* The state of a required location: its own, or pending.
Required(bk, monitor) == {a \in bk["monitor_locations"] : a.monitor_id = monitor /\ a.required}

IsState(bk, a, state) ==
  \/ \E h \in bk["location_health"] : h.monitor_id = a.monitor_id /\ h.location_id = a.location_id /\ state = h.state
  \/ /\ ~ \E h \in bk["location_health"] : h.monitor_id = a.monitor_id /\ h.location_id = a.location_id
     /\ state = "pending"

RequiredShown(bk, monitor, value) ==
  /\ \A h \in value : \E a \in Required(bk, monitor) : h.location_id = a.location_id /\ IsState(bk, a, h.state)
  /\ \A a \in Required(bk, monitor) : \E h \in value : h.location_id = a.location_id /\ IsState(bk, a, h.state)

LEMMA RequiredRead ==
  ASSUME NEW p \in Profiles, NEW db, NEW bk, Inv(p, db, bk), NEW a \in bk["monitor_locations"],
         NEW r \in db["monitor_locations"], Keeps(p, r, a), NEW h, h = RowHealth(db, r)
  PROVE  /\ Lite!HealthReadable(h) /\ Pg!HealthReadable(h)
         /\ HealthRead(p, h).location_id = a.location_id /\ IsState(bk, a, HealthRead(p, h).state)
<1>0. "location_health" \in TableNames /\ "monitor_locations" \in TableNames
  BY DEF TableNames
<1>1. r.monitor_id = a.monitor_id /\ r.location_id = a.location_id
  BY AssignedRow
<1>2. /\ \A s \in db["location_health"] : \E e \in bk["location_health"] : Keeps(p, s, e)
      /\ \A e \in bk["location_health"] : \E s \in db["location_health"] : Keeps(p, s, e)
  BY <1>0, RowOf
<1>3. \A e \in bk["location_health"] : \A s \in db["location_health"] : Keeps(p, s, e) =>
        /\ s.monitor_id = e.monitor_id /\ s.location_id = e.location_id
        /\ WellFormed("location_health", e)
  BY HealthColumns
<1>4. CASE OwnRows(db, r) = {}
  <2>1. h = Lite!PendingRow(r)
    BY <1>4 DEF RowHealth
  <2>2. ~ \E e \in bk["location_health"] : e.monitor_id = a.monitor_id /\ e.location_id = a.location_id
    BY <1>1, <1>2, <1>3, <1>4 DEF OwnRows
  <2>3. h.consecutive_failures = 0 /\ h.consecutive_successes = 0
    BY <2>1 DEF Lite!PendingRow
  <2>4. Lite!HealthReadable(h) /\ Pg!HealthReadable(h)
    BY <2>3, ConformanceAssumption DEF Lite!HealthReadable, Pg!HealthReadable
  <2>5. HealthRead(p, h).location_id = r.location_id /\ HealthRead(p, h).state = "pending"
    BY <2>1 DEF HealthRead, Lite!PendingRow, Lite!MapLocationHealth, Pg!MapLocationHealth
  <2>6. QED
    BY <1>1, <2>2, <2>4, <2>5 DEF IsState
<1>5. CASE OwnRows(db, r) # {}
  <2>1. h \in OwnRows(db, r)
    BY <1>5 DEF RowHealth
  <2>2. h \in db["location_health"] /\ h.monitor_id = r.monitor_id /\ h.location_id = r.location_id
    BY <2>1 DEF OwnRows
  <2>3. PICK e \in bk["location_health"] : Keeps(p, h, e)
    BY <1>2, <2>2
  <2>4. e.monitor_id = a.monitor_id /\ e.location_id = a.location_id /\ WellFormed("location_health", e)
    BY <1>1, <1>3, <2>2, <2>3
  <2>5. /\ p = "lite" => Lite!MapLocationHealth(h) = Back(p, e)
        /\ p = "pg" => Pg!MapLocationHealth(h) = Back(p, e)
        /\ Lite!HealthReadable(h) /\ Pg!HealthReadable(h)
    BY <2>3, <2>4, LocationHealthBack
  <2>6. HealthRead(p, h) = Back(p, e)
    BY <2>5 DEF HealthRead, Profiles
  <2>7. Back(p, e)["location_id"] = e["location_id"] /\ Back(p, e)["state"] = e["state"]
    <3>1. IsRecord(e) /\ DOMAIN e = Columns("location_health")
      BY <1>0, <2>3, RowOf
    <3>2. Back(p, e) = [c \in DOMAIN e |-> BackColumn(p, c, e[c])]
      BY <3>1, BackColumns
    <3>3. /\ {"state", "location_id"} \subseteq Columns("location_health")
          /\ "state" \notin TimeColumns \cup {"latency_ms"} /\ "location_id" \notin TimeColumns \cup {"latency_ms"}
      BY DEF Columns, TimeColumns
    <3>4. QED
      BY <3>1, <3>2, <3>3 DEF BackColumn
  <2>8. QED
    BY <2>3, <2>4, <2>5, <2>6, <2>7 DEF IsState
<1>6. QED
  BY <1>4, <1>5

LEMMA RequiredListing ==
  ASSUME NEW p \in Profiles, NEW db, NEW bk, Inv(p, db, bk), NEW monitor
  PROVE  RequiredShown(bk, monitor, RequiredCall(p, db, monitor).value)
<1>0. "monitor_locations" \in TableNames
  BY DEF TableNames
<1> DEFINE E == bk["monitor_locations"]
           R == db["monitor_locations"]
           rows == RequiredRows(p, db, monitor)
<1>1. /\ \A r \in R : \E e \in E : Keeps(p, r, e)
      /\ \A e \in E : \E r \in R : Keeps(p, r, e)
  BY <1>0, RowOf
<1>2. \A e \in E : \A r \in R : Keeps(p, r, e) =>
        /\ Lite!HealthReadable(RowHealth(db, r)) /\ Pg!HealthReadable(RowHealth(db, r))
        /\ HealthRead(p, RowHealth(db, r)).location_id = e.location_id
        /\ IsState(bk, e, HealthRead(p, RowHealth(db, r)).state)
  BY RequiredRead
<1>3. \A e \in E : \A r \in R : Keeps(p, r, e) => (r \in rows <=> e \in Required(bk, monitor))
  <2> SUFFICES ASSUME NEW e \in E, NEW r \in R, Keeps(p, r, e) PROVE r \in rows <=> e \in Required(bk, monitor)
    OBVIOUS
  <2>1. r.monitor_id = e.monitor_id
    BY AssignedRow
  <2>2. e \in Entities("monitor_locations") /\ DOMAIN e = Columns("monitor_locations")
    BY <1>0, RowOf
  <2>3. e.required \in BOOLEAN
    BY <2>2 DEF Entities
  <2>4. r["required"] = Flag(p, e.required)
    <3>1. "required" \in Columns("monitor_locations") \ {"probe_json"} /\ "required" \notin TimeColumns
          /\ "required" \notin {"interval_ms", "timeout_ms", "latency_ms"}
      BY DEF Columns, TimeColumns
    <3>2. r["required"] = In(p, "required", e["required"])
      BY <2>2, <3>1 DEF Keeps
    <3>3. QED
      BY <3>1, <3>2 DEF In
  <2>5. Flagged(p, r["required"]) = e.required
    BY <2>3, <2>4, FlaggedFlag
  <2>6. QED
    BY <2>1, <2>5 DEF RequiredRows, Required
<1>4. rows \subseteq R /\ Required(bk, monitor) \subseteq E
  BY DEF RequiredRows, Required
<1>5. \A r \in rows : Lite!HealthReadable(RowHealth(db, r)) /\ Pg!HealthReadable(RowHealth(db, r))
  <2> HIDE DEF rows
  <2>1. QED
    BY <1>1, <1>2, <1>4
<1>6. RequiredCall(p, db, monitor) = [db |-> db, value |-> {HealthRead(p, RowHealth(db, r)) : r \in rows},
          error |-> "none"]
  BY <1>5, RequiredIs
<1> HIDE DEF E, R, rows
<1>7. RequiredShown(bk, monitor, {HealthRead(p, RowHealth(db, r)) : r \in rows})
  <2>1. \A r \in rows : \E e \in Required(bk, monitor) :
          /\ HealthRead(p, RowHealth(db, r)).location_id = e.location_id
          /\ IsState(bk, e, HealthRead(p, RowHealth(db, r)).state)
    BY <1>1, <1>2, <1>3, <1>4
  <2>2. \A e \in Required(bk, monitor) : \E r \in rows :
          /\ HealthRead(p, RowHealth(db, r)).location_id = e.location_id
          /\ IsState(bk, e, HealthRead(p, RowHealth(db, r)).state)
    BY <1>1, <1>2, <1>3, <1>4
  <2>3. QED
    BY <2>1, <2>2 DEF RequiredShown
<1>8. QED
  BY <1>6, <1>7

-----------------------------------------------------------------------------
\* What each profile shows of the required locations of a monitor is the same,
\* and so all of the answers are.
LEMMA StateUnique ==
  ASSUME NEW p \in Profiles, NEW db, NEW bk, Inv(p, db, bk),
         NEW a, NEW s, NEW t, IsState(bk, a, s), IsState(bk, a, t)
  PROVE  s = t
<1>0. "location_health" \in TableNames
  BY DEF TableNames
<1>1. \A e, f \in bk["location_health"] : Equal(e, f, {"monitor_id", "location_id"}) => e = f
  BY <1>0, RowOf DEF PrimaryKey
<1>2. \A e, f \in bk["location_health"] :
        e.monitor_id = a.monitor_id /\ e.location_id = a.location_id
        /\ f.monitor_id = a.monitor_id /\ f.location_id = a.location_id => e = f
  BY <1>1 DEF Equal
<1>3. QED
  BY <1>2 DEF IsState

LEMMA AssignmentUnique ==
  ASSUME NEW value, NEW bk, NEW monitor, RequiredShown(bk, monitor, value), NEW other, RequiredShown(bk, monitor,
      other),
         NEW h \in value,
         \A a, s, t : IsState(bk, a, s) /\ IsState(bk, a, t) => s = t
  PROVE  \E k \in other : k.location_id = h.location_id /\ k.state = h.state
<1>1. PICK a \in Required(bk, monitor) : h.location_id = a.location_id /\ IsState(bk, a, h.state)
  BY DEF RequiredShown
<1>2. PICK k \in other : k.location_id = a.location_id /\ IsState(bk, a, k.state)
  BY <1>1 DEF RequiredShown
<1>3. k.state = h.state
  BY <1>1, <1>2
<1>4. QED
  BY <1>1, <1>2, <1>3

LEMMA RequiredSame ==
  ASSUME Inv("lite", lite, book), Inv("pg", pg, book), NEW monitor
  PROVE  OnColumns(Lite!HealthListRequiredLocations(lite, monitor), {"location_id", "state"})
           = OnColumns(Pg!HealthListRequiredLocations(pg, monitor), {"location_id", "state"})
<1>0. "pg" \in Profiles /\ "lite" \in Profiles
  BY DEF Profiles
<1> DEFINE l == RequiredCall("lite", lite, monitor)
           p == RequiredCall("pg", pg, monitor)
           key(e) == [c \in {"location_id", "state"} |-> e[c]]
<1>1. RequiredShown(book, monitor, l.value)
  BY <1>0, RequiredListing
<1>2. RequiredShown(book, monitor, p.value)
  BY <1>0, RequiredListing
<1>3. \A a, s, t : IsState(book, a, s) /\ IsState(book, a, t) => s = t
  BY <1>0, StateUnique
<1>4. l = Lite!HealthListRequiredLocations(lite, monitor) /\ p = Pg!HealthListRequiredLocations(pg, monitor)
  BY DEF RequiredCall
<1> HIDE DEF l, p
<1>5. /\ \A h \in l.value : \E k \in p.value : k.location_id = h.location_id /\ k.state = h.state
      /\ \A h \in p.value : \E k \in l.value : k.location_id = h.location_id /\ k.state = h.state
  BY <1>1, <1>2, <1>3, AssignmentUnique
<1>6. \A h, k : k.location_id = h.location_id /\ k.state = h.state => key(k) = key(h)
  OBVIOUS
<1>7. OnColumns(l, {"location_id", "state"}) = {key(h) : h \in l.value} /\
          OnColumns(p, {"location_id", "state"}) = {key(h) : h \in p.value}
  BY DEF OnColumns
<1> HIDE DEF key
<1>8. {key(h) : h \in l.value} = {key(h) : h \in p.value}
  BY <1>5, <1>6
<1>9. QED
  BY <1>4, <1>7, <1>8

LEMMA AdminsSame ==
  ASSUME Inv("lite", lite, book), Inv("pg", pg, book)
  PROVE  Lite!AdminsCount(lite) = Pg!AdminsCount(pg)
<1>0. "pg" \in Profiles /\ "lite" \in Profiles /\ "admins" \in TableNames
  BY DEF Profiles, TableNames
<1>1. IsFiniteSet(book["admins"]) /\ IsFiniteSet(lite["admins"]) /\
          Cardinality(lite["admins"]) = Cardinality(book["admins"])
  BY <1>0, RowsCounted
<1>2. IsFiniteSet(book["admins"]) /\ IsFiniteSet(pg["admins"]) /\
          Cardinality(pg["admins"]) = Cardinality(book["admins"])
  BY <1>0, RowsCounted
<1>3. Lite!AdminsCount(lite) = Cardinality(lite["admins"]) /\ Pg!AdminsCount(pg) = Cardinality(pg["admins"])
  BY SameCardinality DEF Lite!AdminsCount, Lite!CountAdmins, Pg!AdminsCount, Pg!CountAdmins
<1>4. QED
  BY <1>1, <1>2, <1>3

LEMMA ReadsSame ==
  ASSUME Inv("lite", lite, book), Inv("pg", pg, book), NEW now \in Nat, Apart(Milli, {now} \cup Deadlines)
  PROVE  SameReads(now)
<1>1. \A s \in book.sessions : SameReply(Lite!SessionsFindActiveByTokenHash(lite, s.token_hash, now),
                                         Pg!SessionsFindActiveByTokenHash(pg, s.token_hash, now), SameEntity)
  BY SessionSame
<1>2. \A limit : {d.monitor.id : d \in Lite!MonitorsListDue(lite, now, limit).value}
                   = {d.monitor.id : d \in Pg!MonitorsListDue(pg, now, limit).value}
  BY DueSame
<1>3. \A limit : OnColumns(Lite!HealthListStale(lite, now, limit), {"monitor_id", "location_id"})
                   = OnColumns(Pg!HealthListStale(pg, now, limit), {"monitor_id", "location_id"})
  BY StaleSame
<1>4. \A m \in book.monitors : OnColumns(Lite!HealthListRequiredLocations(lite, m.id), {"location_id", "state"})
                                = OnColumns(Pg!HealthListRequiredLocations(pg, m.id), {"location_id", "state"})
  BY RequiredSame
<1>5. QED
  BY <1>1, <1>2, <1>3, <1>4 DEF SameReads

(***************************************************************************)
(* Both profiles answer every call alike, and list, find and count alike,  *)
(* until two instants that are too close are compared.                     *)
(***************************************************************************)
THEOREM StoresAgree == StoreSpec => []ProfilesAgree
<1>1. StoreOK => ProfilesAgree
  <2> SUFFICES ASSUME StoreOK PROVE ProfilesAgree
    OBVIOUS
  <2>1. ASSUME clear, NEW now \in Instants, Apart(Milli, {now} \cup Deadlines) PROVE SameReads(now)
    BY <2>1, ReadsSame, ConformanceAssumption DEF StoreOK
  <2>2. ASSUME clear PROVE Lite!AdminsCount(lite) = Pg!AdminsCount(pg)
    BY <2>2, AdminsSame DEF StoreOK
  <2>3. QED
    BY <2>1, <2>2 DEF ProfilesAgree, StoreOK
<1>2. QED
  BY <1>1, StoreInvariance, PTL
=============================================================================
