--------------------------- MODULE StoreRowProofs ---------------------------
(***************************************************************************)
(* Lemmas about the rows of the two stores, for any base of the digits,    *)
(* any instants and any entities: how an instant is written, read and      *)
(* compared, which row a profile keeps of an entity, what the keys and the *)
(* other constraints let in, and what each statement and each mapping does *)
(* to the rows, in the terms of the entities they keep.                    *)
(*                                                                         *)
(* Inv(p, db, bk) says that the database db of the profile p keeps the     *)
(* book bk: its tables hold one row for each entity of the book, and the   *)
(* entities of the book are distinct by each key and well formed. Every    *)
(* lemma of this module holds of one profile, of any database and of any   *)
(* book that it keeps.                                                     *)
(***************************************************************************)
EXTENDS Conformance, Lemmas, SequenceTheorems, FunctionTheorems, FiniteSetTheorems

-----------------------------------------------------------------------------
\* Facts of integer division.
LEMMA Divides ==
  ASSUME NEW t \in Nat, NEW d \in Nat \ {0}
  PROVE  /\ t \div d \in Nat /\ t % d \in 0 .. d - 1
         /\ t = d * (t \div d) + (t % d)
OBVIOUS

LEMMA DividesOnly ==
  ASSUME NEW q \in Nat, NEW d \in Nat \ {0}, NEW r \in 0 .. d - 1
  PROVE  (d * q + r) \div d = q /\ (d * q + r) % d = r
OBVIOUS

LEMMA DivideOrder ==
  ASSUME NEW s \in Nat, NEW t \in Nat, NEW d \in Nat \ {0}
  PROVE  /\ s <= t => s \div d <= t \div d
         /\ s + d <= t => s \div d < t \div d
OBVIOUS

-----------------------------------------------------------------------------
\* The units of an instant.
LEMMA Units ==
  /\ Base \in Nat /\ Base >= 2
  /\ Lite!Milli = Base * Base /\ Lite!Milli \in Nat \ {0, 1} /\ Lite!Second = Base * Lite!Milli
  /\ Lite!Second \in Nat \ {0, 1}
<1>1. Base \in Nat /\ Base >= 2
  BY ConformanceAssumption
<1>2. \A m \in Nat : m >= 2 => Base * m \in Nat /\ Base * m >= 2
  BY <1>1
<1>3. Base * Base \in Nat /\ Base * Base >= 2
  BY <1>1, <1>2
<1>4. Base * (Base * Base) \in Nat /\ Base * (Base * Base) >= 2
  BY <1>2, <1>3
<1>5. Lite!Milli = Base * Base /\ Lite!Second = Base * Base * Base
  BY DEF Lite!Milli, Lite!Second
<1>6. Base * Base * Base = Base * (Base * Base)
  BY <1>1
<1>7. QED
  BY <1>1, <1>3, <1>4, <1>5, <1>6

\* The digits of the fraction of a second.
Digits(t) == <<(t % Lite!Second) \div Lite!Milli, (t % Lite!Milli) \div Base, t % Base>>

LEMMA DigitsAre ==
  ASSUME NEW t \in Nat
  PROVE  /\ \A i \in 1 .. 3 : Digits(t)[i] \in 0 .. Base - 1
         /\ t % Lite!Second = Digits(t)[1] * Lite!Milli + Digits(t)[2] * Base + Digits(t)[3]
<1> DEFINE q == t \div Base
           c == t % Base
           p == q \div Base
           b == q % Base
           s == p \div Base
           a == p % Base
<1>0. Base \in Nat \ {0}
  BY Units
<1>1. q \in Nat /\ c \in 0 .. Base - 1 /\ t = Base * q + c
  BY <1>0, Divides
<1>2. p \in Nat /\ b \in 0 .. Base - 1 /\ q = Base * p + b
  BY <1>0, <1>1, Divides
<1>3. s \in Nat /\ a \in 0 .. Base - 1 /\ p = Base * s + a
  BY <1>0, <1>2, Divides
<1>4. a \in Nat /\ b \in Nat /\ c \in Nat /\ Base \in Nat
  BY <1>1, <1>2, <1>3, Units
<1> HIDE DEF q, c, p, b, s, a
<1> DEFINE M == Base * Base
           low == Base * b + c
           all == M * a + low
<1>5. low \in 0 .. M - 1
  <2>1. Base * b <= Base * (Base - 1) /\ Base * b \in Nat
    BY <1>2, <1>4
  <2>2. QED
    BY <1>1, <1>4, <2>1
<1>6. t = M * p + low
  <2>1. Base * (Base * p + b) = M * p + Base * b
    BY <1>2, <1>4
  <2>2. QED
    BY <1>1, <1>2, <1>4, <2>1
<1>7. M \in Nat \ {0}
  BY Units
<1>8. t % M = low
  BY <1>2, <1>5, <1>6, <1>7, DividesOnly
<1>9. all \in 0 .. Base * M - 1 /\ t = (Base * M) * s + all
  <2>1. M * a <= M * (Base - 1) /\ M * a \in Nat
    BY <1>3, <1>4, <1>7
  <2>2. M * (Base - 1) = Base * M - M
    BY <1>4, <1>7
  <2>3. M * (Base * s + a) = (Base * M) * s + M * a
    BY <1>3, <1>4, <1>7
  <2> HIDE DEF M
  <2>4. all \in 0 .. Base * M - 1
    BY <1>4, <1>5, <1>7, <2>1, <2>2
  <2>5. t = M * (Base * s + a) + low
    BY <1>3, <1>6
  <2>6. /\ t \in Nat /\ M * (Base * s + a) \in Nat /\ low \in Nat /\ M * a \in Nat
        /\ (Base * M) * s \in Nat
    BY <1>3, <1>4, <1>5, <1>7, <2>1
  <2> DEFINE x == M * (Base * s + a)
             y == (Base * M) * s
             z == M * a
  <2> HIDE DEF x, y, z, low
  <2>7. t = y + (z + low)
    BY <2>3, <2>5, <2>6 DEF x, y, z
  <2>8. QED
    BY <2>4, <2>7 DEF y, z
<1>10. Lite!Milli = M /\ Lite!Second = Base * M /\ Base * M \in Nat \ {0}
  BY Units
<1>11. t % Lite!Second = all
  BY <1>3, <1>9, <1>10, DividesOnly
<1>12. all \div M = a /\ low \div Base = b
  BY <1>1, <1>2, <1>3, <1>4, <1>5, <1>7, Units, DividesOnly
<1>13. Digits(t)[1] = a /\ Digits(t)[2] = b /\ Digits(t)[3] = c
  BY <1>8, <1>10, <1>11, <1>12 DEF Digits, c
<1>14. \A i \in 1 .. 3 : i = 1 \/ i = 2 \/ i = 3
  OBVIOUS
<1>15. QED
  BY <1>1, <1>2, <1>3, <1>4, <1>7, <1>10, <1>11, <1>13, <1>14

LEMMA FirstTwo ==
  ASSUME NEW a \in Nat, NEW b \in Nat, NEW c \in Nat
  PROVE  SubSeq(<<a, b, c>>, 1, 2) = <<a, b>> /\ SubSeq(<<a, b, c>>, 1, 1) = <<a>>
<1>1. <<a, b, c>> \in Seq(Nat) /\ Len(<<a, b, c>>) = 3 /\ 1 \in Int /\ 2 \in Int
  OBVIOUS
<1>2. \A n \in {1, 2} : /\ SubSeq(<<a, b, c>>, 1, n) \in Seq(Nat) /\ Len(SubSeq(<<a, b, c>>, 1, n)) = n
                        /\ \A i \in 1 .. n : SubSeq(<<a, b, c>>, 1, n)[i] = <<a, b, c>>[i]
  BY <1>1, SubSeqProperties
<1>3. \A s \in Seq(Nat) : (Len(s) = 2 => s = <<s[1], s[2]>>) /\ (Len(s) = 1 => s = <<s[1]>>)
  OBVIOUS
<1>4. /\ SubSeq(<<a, b, c>>, 1, 2)[1] = a /\ SubSeq(<<a, b, c>>, 1, 2)[2] = b
      /\ SubSeq(<<a, b, c>>, 1, 1)[1] = a
  BY <1>2
<1>5. QED
  BY <1>2, <1>3, <1>4

\* What formatTime writes, parseTime reads back, to the nanosecond; and the
\* text is no NULL.
LEMMA FractionIs ==
  ASSUME NEW t \in Nat
  PROVE  /\ Lite!Fraction(Lite!FormatTime(t)) = t % Lite!Second
         /\ Lite!FormatTime(t).second = t \div Lite!Second
         /\ Lite!FormatTime(t) \in [second : Nat, fraction : Seq(Nat)]
<1> DEFINE d == Digits(t)
           f == Lite!Trim(d)
<1>1. /\ \A i \in 1 .. 3 : d[i] \in Nat
      /\ t % Lite!Second = d[1] * Lite!Milli + d[2] * Base + d[3]
  BY DigitsAre, Units
<1>0. d = <<d[1], d[2], d[3]>>
  BY DEF Digits
<1>2. /\ Base \in Nat /\ Lite!Milli \in Nat /\ t \div Lite!Second \in Nat
  BY Units, Divides
<1>3. Lite!FormatTime(t) = [second |-> t \div Lite!Second, fraction |-> f]
  BY DEF Lite!FormatTime, Digits
<1>4. d[1] \in Nat /\ d[2] \in Nat /\ d[3] \in Nat
  BY <1>1
<1> HIDE DEF d
<1>5. /\ f \in Seq(Nat)
      /\ \A i \in 1 .. 3 : (IF i <= Len(f) THEN f[i] ELSE 0) = d[i]
  <2>1. CASE d[3] # 0
    <3>1. f = <<d[1], d[2], d[3]>>
      BY <1>0, <2>1 DEF Lite!Trim
    <3>2. QED
      BY <1>4, <3>1
  <2>2. CASE d[3] = 0 /\ d[2] # 0
    <3>1. f = <<d[1], d[2]>>
      BY <1>0, <2>2, FirstTwo, <1>4 DEF Lite!Trim
    <3>2. QED
      BY <1>4, <2>2, <3>1
  <2>3. CASE d[3] = 0 /\ d[2] = 0 /\ d[1] # 0
    <3>1. f = <<d[1]>>
      BY <1>0, <2>3, FirstTwo, <1>4 DEF Lite!Trim
    <3>2. QED
      BY <1>4, <2>3, <3>1
  <2>4. CASE d[3] = 0 /\ d[2] = 0 /\ d[1] = 0
    <3>1. f = <<>>
      BY <2>4 DEF Lite!Trim
    <3>2. QED
      BY <2>4, <3>1
  <2>5. QED
    BY <2>1, <2>2, <2>3, <2>4
<1> HIDE DEF f
<1>6. \A i \in 1 .. 3 : Lite!Digit(Lite!FormatTime(t), i) = d[i]
  BY <1>3, <1>5 DEF Lite!Digit
<1>7. Lite!Fraction(Lite!FormatTime(t)) = d[1] * Lite!Milli + d[2] * Base + d[3]
  BY <1>6 DEF Lite!Fraction
<1>8. QED
  BY <1>1, <1>2, <1>3, <1>5, <1>7

LEMMA LiteTimes ==
  ASSUME NEW t \in Nat
  PROVE  /\ Lite!ParseTime(Lite!FormatTime(t)) = t
         /\ Lite!FormatTime(t) # Null
         /\ Lite!Julian(Lite!FormatTime(t)) = (t + Milli \div 2) \div Milli
<1> DEFINE text == Lite!FormatTime(t)
           q == t \div Lite!Second
           m == t % Lite!Second
<1>0. Lite!Second \in Nat \ {0} /\ Lite!Milli = Milli /\ Milli \in Nat
  BY Units DEF Milli
<1>1. q \in Nat /\ m \in Nat /\ t = Lite!Second * q + m
  BY <1>0, Divides
<1>2. /\ text.second = q /\ Lite!Fraction(text) = m /\ text # Null
  BY FractionIs, SentinelAssumption
<1> HIDE DEF text, q, m
<1>3. text.second * Lite!Second + Lite!Fraction(text) = t
  BY <1>0, <1>1, <1>2
<1>4. QED
  BY <1>0, <1>3 , <1>2 DEF Lite!ParseTime, Lite!Julian, text

\* julianday compares to the millisecond: it never turns two instants round,
\* and tells two that are a millisecond apart.
LEMMA JulianOrder ==
  ASSUME NEW s \in Nat, NEW t \in Nat
  PROVE  /\ Lite!Julian(Lite!FormatTime(s)) \in Nat
         /\ s <= t => Lite!Julian(Lite!FormatTime(s)) <= Lite!Julian(Lite!FormatTime(t))
         /\ s + Milli <= t => Lite!Julian(Lite!FormatTime(s)) < Lite!Julian(Lite!FormatTime(t))
<1> DEFINE h == Milli \div 2
<1>1. Milli \in Nat \ {0}
  BY Units DEF Milli
<1>2. h \in Nat
  BY <1>1
<1> HIDE DEF h
<1>3. s + h \in Nat /\ t + h \in Nat
  BY <1>2
<1>4. /\ (s + h) \div Milli \in Nat
      /\ s + h <= t + h => (s + h) \div Milli <= (t + h) \div Milli
      /\ s + h + Milli <= t + h => (s + h) \div Milli < (t + h) \div Milli
  BY <1>1, <1>3, Divides, DivideOrder
<1>5. /\ Lite!Julian(Lite!FormatTime(s)) = (s + h) \div Milli
      /\ Lite!Julian(Lite!FormatTime(t)) = (t + h) \div Milli
  BY LiteTimes DEF h
<1>6. QED
  BY <1>1, <1>2, <1>4, <1>5

\* The text of a later second is after the text of an earlier one, whatever
\* their fractions; a text is not before itself.
LEMMA TextOrder ==
  ASSUME NEW s \in Nat, NEW t \in Nat
  PROVE  /\ s + Lite!Second <= t => Lite!TextBefore(Lite!FormatTime(s), Lite!FormatTime(t))
         /\ t + Lite!Second <= s => ~ Lite!TextBefore(Lite!FormatTime(s), Lite!FormatTime(t))
         /\ s = t => ~ Lite!TextBefore(Lite!FormatTime(s), Lite!FormatTime(t))
<1> DEFINE a == Lite!FormatTime(s)
           b == Lite!FormatTime(t)
           x == <<a.second, Lite!Char(a, 1), Lite!Char(a, 2), Lite!Char(a, 3)>>
           y == <<b.second, Lite!Char(b, 1), Lite!Char(b, 2), Lite!Char(b, 3)>>
<1>1. Lite!Second \in Nat \ {0}
  BY Units
<1>2. /\ a.second = s \div Lite!Second /\ b.second = t \div Lite!Second
      /\ a.second \in Nat /\ b.second \in Nat
      /\ a.fraction \in Seq(Nat) /\ b.fraction \in Seq(Nat)
  BY FractionIs
<1>3. /\ s + Lite!Second <= t => a.second < b.second
      /\ t + Lite!Second <= s => b.second < a.second
  BY <1>1, <1>2, DivideOrder
<1>4. Lite!TextBefore(a, b) <=> \E i \in DOMAIN x : x[i] < y[i] /\ \A j \in 1 .. i - 1 : x[j] = y[j]
  BY DEF Lite!TextBefore, Lite!Lexicographic
<1>5. /\ DOMAIN x = 1 .. 4 /\ x[1] = a.second /\ y[1] = b.second
      /\ \A i \in 1 .. 4 : (i = 1 \/ 1 \in 1 .. i - 1)
      /\ s = t => \A i \in 1 .. 4 : x[i] = y[i]
  OBVIOUS
<1>6. Base \in Nat /\ \A i \in 1 .. 4 : x[i] \in Int
  <2>1. \A i \in Nat \ {0} : Lite!Char(a, i) \in Int
    BY <1>2, Units DEF Lite!Char
  <2>2. QED
    BY <1>2, <2>1, Units
<1> HIDE DEF x, y
<1>7. ASSUME s + Lite!Second <= t PROVE Lite!TextBefore(a, b)
  <2>1. 1 \in DOMAIN x /\ x[1] < y[1] /\ \A j \in 1 .. 1 - 1 : x[j] = y[j]
    BY <1>3, <1>5, <1>7
  <2>2. QED
    BY <1>4, <2>1
<1>8. ASSUME t + Lite!Second <= s PROVE ~ Lite!TextBefore(a, b)
  <2>1. y[1] < x[1] /\ x[1] \in Nat /\ y[1] \in Nat
    BY <1>2, <1>3, <1>5, <1>8
  <2>2. QED
    BY <1>4, <1>5, <2>1
<1>9. ASSUME s = t PROVE ~ Lite!TextBefore(a, b)
  <2>1. \A i \in 1 .. 4 : ~ (x[i] < y[i])
    BY <1>5, <1>6, <1>9
  <2>2. QED
    BY <1>4, <1>5, <2>1
<1>10. QED
  BY <1>7, <1>8, <1>9

\* PostgreSQL keeps the microsecond.
LEMMA PgTimes ==
  ASSUME NEW t \in Nat
  PROVE  /\ Pg!FormatTime(t) \in Nat /\ Pg!FormatTime(t) # Null
         /\ Pg!ParseTime(Pg!FormatTime(t)) = t - (t % Micro)
         /\ \A s \in Nat : /\ s <= t => Pg!FormatTime(s) <= Pg!FormatTime(t)
                           /\ s + Milli <= t => Pg!FormatTime(s) < Pg!FormatTime(t)
<1>1. Base \in Nat \ {0} /\ Milli \in Nat /\ Base <= Milli
  <2>1. Base \in Nat /\ Base >= 2
    BY Units
  <2>2. Base * 1 <= Base * Base
    BY <2>1
  <2>3. QED
    BY <2>1, <2>2, Units DEF Milli
<1>2. Pg!FormatTime(t) = t \div Base /\ t \div Base \in Nat /\ t = Base * (t \div Base) + (t % Base) /\ t % Base \in Nat
  BY <1>1, Divides DEF Pg!FormatTime, Pg!Micro
<1>3. Pg!ParseTime(Pg!FormatTime(t)) = (t \div Base) * Base /\ Micro = Base
  BY <1>2 DEF Pg!ParseTime, Pg!Micro, Micro
<1>4. ASSUME NEW s \in Nat
      PROVE  /\ s <= t => Pg!FormatTime(s) <= Pg!FormatTime(t)
             /\ s + Milli <= t => Pg!FormatTime(s) < Pg!FormatTime(t)
  <2>1. s + Milli <= t => s + Base <= t
    BY <1>1
  <2>2. QED
    BY <1>1, <2>1, DivideOrder DEF Pg!FormatTime, Pg!Micro
<1>5. Pg!ParseTime(Pg!FormatTime(t)) = t - (t % Micro)
  <2> DEFINE q == t \div Base
             m == t % Base
  <2>1. q \in Nat /\ m \in Nat /\ t = Base * q + m /\ Base \in Nat
    BY <1>1, <1>2
  <2> HIDE DEF q, m
  <2>2. q * Base = t - m
    BY <2>1
  <2>3. QED
    BY <1>3, <2>2 DEF q, m
<1>6. t \div Base # Null
  BY <1>2, SentinelAssumption
<1>7. QED
  BY <1>2, <1>4, <1>5, <1>6

-----------------------------------------------------------------------------
(***************************************************************************)
(* Rows and entities.  Both profiles keep an entity as a row of the same   *)
(* columns; p is "lite" or "pg".                                           *)
(***************************************************************************)
Profiles == {"lite", "pg"}

NullableColumns == {"version", "error_code", "previous_state", "lease_agent_id", "lease_token_hash", "observed_status"}

PlainColumns ==
  {"id", "email", "password_hash", "admin_id", "token_hash", "name", "kind", "failure_threshold", "recovery_threshold",
   "monitor_id", "location_id", "credential_hash", "credential_generation", "capabilities_json", "probe_json",
   "probe_kind", "status", "lease_attempt", "run_id", "agent_id", "diagnostic_sample", "state",
   "consecutive_failures", "consecutive_successes", "severity", "incident_id"}

\* An instant, a flag and any other value of an entity, as a column holds it.
Moment(p, v) == IF v = Nothing THEN Null ELSE IF p = "lite" THEN Lite!FormatTime(v) ELSE Pg!FormatTime(v)
Flag(p, v)   == IF p = "lite" THEN Lite!BoolInt(v) ELSE v

In(p, c, v) ==
  IF c \in TimeColumns THEN Moment(p, v)
  ELSE IF c \in {"interval_ms", "timeout_ms", "latency_ms"} THEN v \div Milli
  ELSE IF c \in {"enabled", "required"} THEN Flag(p, v)
  ELSE IF c = "body_assertion_passed" THEN IF v = Nothing THEN Null ELSE Flag(p, v)
  ELSE IF c = "outcome" THEN Lite!Outcome(v)
  ELSE IF c \in NullableColumns THEN IF v = Nothing THEN Null ELSE v
  ELSE v

IsRecord(f) == f = [c \in DOMAIN f |-> f[c]]

\* The row r is what profile p keeps of the entity e.  A probe stored before
\* the second migration has no kind.
Keeps(p, r, e) ==
  /\ IsRecord(r) /\ DOMAIN r = DOMAIN e
  /\ \A c \in DOMAIN e \ {"probe_json"} : r[c] = In(p, c, e[c])
  /\ "probe_json" \in DOMAIN e =>
       \/ r.probe_json = e.probe_json
       \/ e.probe_json.kind = "http" /\ r.probe_json = [e.probe_json EXCEPT !.kind = Nothing]

\* What holds of every entity that a repository took.
WellFormed(t, e) ==
  /\ e \in Entities(t)
  /\ t = "monitors" => WholeMilliseconds(e) /\ e.probe_json.kind = e.kind
  /\ t = "check_runs" => /\ e.timeout_ms % Milli = 0 /\ e.probe_json.kind = e.probe_kind
                         /\ e.status = "leased" => e.lease_expires_at # Nothing

Valid(t, e) == t = "monitors" => 0 < e.timeout_ms /\ e.timeout_ms < e.interval_ms

\* The only key that excludes nothing but open rows is that of the incidents.
SameKey(a, b, key) == Equal(a, b, key) /\ ("recovered_at" \in key => a.recovered_at = Nothing)

KeysOf(t) == Unique(t) \cup {PrimaryKey(t)}

BookInv(bk) ==
  /\ bk = [t \in TableNames |-> bk[t]]
  /\ \A a \in bk["monitor_locations"] : \E m \in bk["monitors"] : m.id = a.monitor_id
  /\ \A t \in TableNames : /\ IsFiniteSet(bk[t])
                           /\ \A e \in bk[t] : WellFormed(t, e) /\ Valid(t, e)
                           /\ \A key \in KeysOf(t) : \A a, b \in bk[t] : SameKey(a, b, key) => a = b

\* A database that keeps the book: its rows are those of the entities, one row
\* to an entity.
StoreInv(p, db, bk) ==
  /\ db = [t \in TableNames |-> db[t]]
  /\ \A t \in TableNames : /\ \A r \in db[t] : \E e \in bk[t] : Keeps(p, r, e)
                           /\ \A e \in bk[t] : \E r \in db[t] : Keeps(p, r, e)
                           /\ \A r, s \in db[t] : Equal(r, s, PrimaryKey(t)) => r = s

Inv(p, db, bk) == BookInv(bk) /\ StoreInv(p, db, bk)

\* The row that profile p writes for an entity.
Row(p, e) == [c \in DOMAIN e |-> In(p, c, e[c])]

Columns(t) ==
  CASE t = "admins" -> {"id", "email", "password_hash", "created_at"}
    [] t = "sessions" -> {"id", "admin_id", "token_hash", "expires_at", "revoked_at"}
    [] t = "locations" -> {"id", "name", "created_at"}
    [] t = "monitors" ->
         {"id", "name", "kind", "interval_ms", "timeout_ms", "failure_threshold", "recovery_threshold", "probe_json",
          "enabled", "next_run_at", "created_at", "updated_at"}
    [] t = "monitor_locations" -> {"monitor_id", "location_id", "required"}
    [] t = "agents" ->
         {"id", "location_id", "name", "credential_hash", "credential_generation", "capabilities_json", "version",
          "last_seen_at", "revoked_at", "created_at"}
    [] t = "agent_enrollment_tokens" -> {"id", "location_id", "token_hash", "expires_at", "consumed_at", "created_at"}
    [] t = "check_runs" ->
         {"id", "monitor_id", "location_id", "scheduled_for", "probe_json", "probe_kind", "timeout_ms", "status",
          "lease_agent_id", "lease_token_hash", "lease_attempt", "lease_expires_at", "resolved_at"}
    [] t = "probe_results" ->
         {"id", "run_id", "agent_id", "started_at", "finished_at", "received_at", "outcome", "latency_ms",
          "observed_status", "body_assertion_passed", "error_code", "diagnostic_sample", "tls_not_after"}
    [] t = "location_health" ->
         {"monitor_id", "location_id", "state", "consecutive_failures", "consecutive_successes", "last_observed_at",
          "last_transition_at", "stale_at"}
    [] t = "monitor_health" -> {"monitor_id", "state", "last_transition_at"}
    [] t = "incidents" ->
         {"id", "monitor_id", "state", "severity", "opened_at", "last_transition_at", "recovered_at"}
    [] t = "incident_events" -> {"id", "incident_id", "previous_state", "state", "severity", "created_at"}

-----------------------------------------------------------------------------
LEMMA InTime == ASSUME NEW p, NEW v, NEW c \in TimeColumns PROVE In(p, c, v) = Moment(p, v)
BY DEF In

LEMMA InPlain == ASSUME NEW p, NEW v, NEW c \in PlainColumns PROVE In(p, c, v) = v
BY DEF In, TimeColumns, NullableColumns, PlainColumns

LEMMA InNullable ==
  ASSUME NEW p, NEW v, NEW c \in NullableColumns PROVE In(p, c, v) = IF v = Nothing THEN Null ELSE v
BY DEF In, TimeColumns, NullableColumns

LEMMA NoSentinel ==
  /\ \A v \in Int : v # Nothing /\ v # Null
  /\ \A v \in STRING : v # Nothing /\ v # Null
  /\ \A v \in BOOLEAN : v # Nothing /\ v # Null
BY SentinelAssumption

\* An entity is kept by the row whose columns are its own, as p writes them.
LEMMA KeepsByColumns ==
  ASSUME NEW p, NEW e, NEW r, IsRecord(r), DOMAIN r = DOMAIN e, \A c \in DOMAIN e : r[c] = In(p, c, e[c])
  PROVE  Keeps(p, r, e)
<1>1. "probe_json" \in DOMAIN e => r.probe_json = e.probe_json
  BY InPlain DEF PlainColumns
<1>2. QED
  BY <1>1 DEF Keeps

LEMMA KeepsPlain ==
  ASSUME NEW p, NEW e, NEW r, Keeps(p, r, e), NEW c \in (PlainColumns \ {"probe_json"}) \cap DOMAIN e
  PROVE  r[c] = e[c]
BY InPlain DEF Keeps

LEMMA KeepsTime ==
  ASSUME NEW p, NEW e, NEW r, Keeps(p, r, e), NEW c \in TimeColumns \cap DOMAIN e
  PROVE  r[c] = Moment(p, e[c])
<1>1. c # "probe_json"
  BY DEF TimeColumns
<1>2. QED
  BY <1>1, InTime DEF Keeps

LEMMA SameRecord ==
  ASSUME NEW f, NEW g, IsRecord(f), IsRecord(g), DOMAIN f = DOMAIN g, \A c \in DOMAIN f : f[c] = g[c]
  PROVE  f = g
BY DEF IsRecord

\* Two instants are kept alike only when they are the same: in SQLite always, in
\* PostgreSQL when they are a millisecond apart.
LEMMA SameMoment ==
  ASSUME NEW p \in Profiles, NEW v \in Maybe(Nat), NEW w \in Maybe(Nat),
         p = "lite" \/ v = Nothing \/ w = Nothing \/ v = w \/ v + Milli <= w \/ w + Milli <= v
  PROVE  /\ Moment(p, v) = Moment(p, w) <=> v = w
         /\ Moment(p, v) = Null <=> v = Nothing
<1>1. \A x \in Nat : x # Nothing /\ Moment(p, x) # Null
  BY LiteTimes, PgTimes, NoSentinel DEF Moment
<1>2. Moment(p, Nothing) = Null
  BY DEF Moment
<1>3. ASSUME v \in Nat, w \in Nat, v # w PROVE Moment(p, v) # Moment(p, w)
  <2>1. CASE p = "lite"
    BY <1>1, <1>3, <2>1, LiteTimes DEF Moment
  <2>2. CASE p = "pg"
    <3>1. v + Milli <= w \/ w + Milli <= v
      BY <1>1, <1>3, <2>2
    <3>2. /\ Pg!FormatTime(v) \in Nat /\ Pg!FormatTime(w) \in Nat
          /\ Pg!FormatTime(v) < Pg!FormatTime(w) \/ Pg!FormatTime(w) < Pg!FormatTime(v)
      BY <1>3, <3>1, PgTimes
    <3>3. Moment(p, v) = Pg!FormatTime(v) /\ Moment(p, w) = Pg!FormatTime(w)
      BY <1>1, <1>3, <2>2 DEF Moment
    <3>4. QED
      BY <3>2, <3>3
  <2>3. QED
    BY <2>1, <2>2 DEF Profiles
<1>4. QED
  BY <1>1, <1>2, <1>3 DEF Maybe

-----------------------------------------------------------------------------
\* Tables, keys and columns.
LEMMA EntityColumns ==
  ASSUME NEW t \in TableNames, NEW e \in Entities(t)
  PROVE  IsRecord(e) /\ DOMAIN e = Columns(t)
<1>1. CASE t = "admins"
  BY <1>1 DEF Entities, Columns, IsRecord
<1>2. CASE t = "sessions"
  BY <1>2 DEF Entities, Columns, IsRecord
<1>3. CASE t = "locations"
  BY <1>3 DEF Entities, Columns, IsRecord
<1>4. CASE t = "monitors"
  BY <1>4 DEF Entities, Columns, IsRecord
<1>5. CASE t = "monitor_locations"
  BY <1>5 DEF Entities, Columns, IsRecord
<1>6. CASE t = "agents"
  BY <1>6 DEF Entities, Columns, IsRecord
<1>7. CASE t = "agent_enrollment_tokens"
  BY <1>7 DEF Entities, Columns, IsRecord
<1>8. CASE t = "check_runs"
  BY <1>8 DEF Entities, Columns, IsRecord
<1>9. CASE t = "probe_results"
  BY <1>9 DEF Entities, Columns, IsRecord
<1>10. CASE t = "location_health"
  BY <1>10 DEF Entities, Columns, IsRecord
<1>11. CASE t = "monitor_health"
  BY <1>11 DEF Entities, Columns, IsRecord
<1>12. CASE t = "incidents"
  BY <1>12 DEF Entities, Columns, IsRecord
<1>13. CASE t = "incident_events"
  BY <1>13 DEF Entities, Columns, IsRecord
<1>14. QED
  BY <1>1, <1>2, <1>3, <1>4, <1>5, <1>6, <1>7, <1>8, <1>9, <1>10, <1>11, <1>12, <1>13 DEF TableNames

\* Keys are made of plain columns, but for the instant of a run and the
\* recovery of an incident.
LEMMA KeyColumns ==
  ASSUME NEW t \in TableNames, NEW key \in KeysOf(t), NEW c \in key
  PROVE  /\ c \in Columns(t)
         /\ \/ c \in PlainColumns \ {"probe_json"} /\ c \notin {"scheduled_for", "recovered_at"}
            \/ c = "scheduled_for" /\ t = "check_runs"
            \/ c = "recovered_at" /\ t = "incidents"
BY DEF KeysOf, Unique, PrimaryKey, Columns, PlainColumns, TableNames

LEMMA PrimaryColumns ==
  ASSUME NEW t \in TableNames, NEW c \in PrimaryKey(t)
  PROVE  c \in Columns(t) /\ c \in PlainColumns \ {"probe_json"}
BY DEF PrimaryKey, Columns, PlainColumns, TableNames

LEMMA ParentColumns ==
  ASSUME NEW t \in TableNames, NEW c \in DOMAIN Parents(t)
  PROVE  /\ c \in Columns(t) /\ c \in PlainColumns \ {"probe_json"}
         /\ Parents(t)[c] \in TableNames /\ "id" \in Columns(Parents(t)[c])
BY DEF Parents, Columns, PlainColumns, TableNames

LEMMA SameTables ==
  /\ \A t : Lite!Unique(t) = Unique(t) /\ Pg!Unique(t) = Unique(t)
  /\ \A t : Lite!PrimaryKey(t) = PrimaryKey(t) /\ Pg!PrimaryKey(t) = PrimaryKey(t)
  /\ \A t : Lite!Parents(t) = Parents(t) /\ Pg!Parents(t) = Parents(t)
BY DEF Lite!Unique, Unique, Pg!Unique, Lite!PrimaryKey, PrimaryKey, Pg!PrimaryKey, Lite!Parents, Parents, Pg!Parents

LEMMA SameAllowed == ASSUME NEW db, NEW t, NEW row
    PROVE Lite!Allowed(db, t, row) = Allowed(db, t, row) /\ Pg!Allowed(db, t, row) = Allowed(db, t, row)
<1>1. \A rows, key : Lite!Clash(rows, row, key) = Clash(rows, row, key) /\
          Pg!Clash(rows, row, key) = Clash(rows, row, key)
  BY DEF Lite!Clash, Clash, Pg!Clash, Lite!Equal, Equal, Pg!Equal
<1>2. Lite!Checked(t, row) = Checked(t, row) /\ Pg!Checked(t, row) = Checked(t, row)
  BY DEF Lite!Checked, Checked, Pg!Checked
<1>3. QED
  BY <1>1, <1>2, SameTables DEF Lite!Allowed, Allowed, Pg!Allowed

LEMMA SameInsert == ASSUME NEW db, NEW t, NEW row
    PROVE Lite!Insert(db, t, row) = Insert(db, t, row) /\ Pg!Insert(db, t, row) = Insert(db, t, row)
BY SameAllowed
    DEF Lite!Insert, Insert, Pg!Insert, Lite!Answer, Answer, Pg!Answer, Lite!Violation, Violation, Pg!Violation

LEMMA SameUpsert == ASSUME NEW db, NEW t, NEW row
    PROVE Lite!Upsert(db, t, row) = Upsert(db, t, row) /\ Pg!Upsert(db, t, row) = Upsert(db, t, row)
<1>1. \A rows, key : Lite!Clash(rows, row, key) = Clash(rows, row, key) /\
          Pg!Clash(rows, row, key) = Clash(rows, row, key)
  BY DEF Lite!Clash, Clash, Pg!Clash, Lite!Equal, Equal, Pg!Equal
<1>2. QED
 BY <1>1, SameInsert, SameTables DEF Lite!Upsert, Upsert, Pg!Upsert, Lite!Answer, Answer, Pg!Answer, Lite!Equal, Equal,
     Pg!Equal, Lite!Update, Update, Pg!Update

-----------------------------------------------------------------------------
LEMMA RowKeeps ==
  ASSUME NEW p, NEW e PROVE Keeps(p, Row(p, e), e)
<1>1. IsRecord(Row(p, e)) /\ DOMAIN Row(p, e) = DOMAIN e /\ \A c \in DOMAIN e : Row(p, e)[c] = In(p, c, e[c])
  BY DEF IsRecord, Row
<1>2. QED
  BY <1>1, KeepsByColumns

LEMMA RowIs ==
  ASSUME NEW p, NEW e, NEW r, IsRecord(r), DOMAIN r = DOMAIN e, \A c \in DOMAIN e : r[c] = In(p, c, e[c])
  PROVE  r = Row(p, e)
BY DEF IsRecord, Row

\* Two instants that the profile tells apart.
Told(p, v, w) ==
  p = "lite" \/ v = Nothing \/ w = Nothing \/ v = w \/ v + Milli <= w \/ w + Milli <= v

\* Rows exclude each other where their entities do.
RowSame(r, s, key) == Equal(r, s, key) /\ ("recovered_at" \in key => s.recovered_at = Null)

LEMMA SameKeys ==
  ASSUME NEW p \in Profiles, NEW t \in TableNames, NEW a \in Entities(t), NEW b \in Entities(t),
         NEW r, NEW s, Keeps(p, r, a), Keeps(p, s, b), NEW key \in KeysOf(t)
  PROVE  /\ SameKey(a, b, key) => RowSame(r, s, key)
         /\ (t = "check_runs" => Told(p, a.scheduled_for, b.scheduled_for)) => (RowSame(r, s, key) =>
                SameKey(a, b, key))
<1>1. DOMAIN a = Columns(t) /\ DOMAIN b = Columns(t)
  BY EntityColumns
<1>2. \A c \in key : c \in PlainColumns \ {"probe_json"} => r[c] = a[c] /\ s[c] = b[c]
  BY <1>1, KeyColumns, KeepsPlain
<1>3. \A c \in key : c \in {"scheduled_for", "recovered_at"} => r[c] = Moment(p, a[c]) /\ s[c] = Moment(p, b[c])
  <2>1. {"scheduled_for", "recovered_at"} \subseteq TimeColumns
    BY DEF TimeColumns
  <2>2. QED
    BY <1>1, <2>1, KeyColumns, KeepsTime
<1>4. "recovered_at" \in key => /\ t = "incidents" /\ a.recovered_at \in Maybe(Nat) /\ b.recovered_at \in Maybe(Nat)
                                /\ s.recovered_at = Null <=> b.recovered_at = Nothing
                                /\ r.recovered_at = Null <=> a.recovered_at = Nothing
  <2>1. "recovered_at" \in key => t = "incidents"
    BY KeyColumns
  <2>2. t = "incidents" => a.recovered_at \in Maybe(Nat) /\ b.recovered_at \in Maybe(Nat)
    BY DEF Entities
  <2>3. QED
    BY <1>3, <2>1, <2>2, SameMoment
<1>5. "scheduled_for" \in key => t = "check_runs" /\ a.scheduled_for \in Nat /\ b.scheduled_for \in Nat
  <2>1. "scheduled_for" \in key => t = "check_runs"
    BY KeyColumns
  <2>2. t = "check_runs" => a.scheduled_for \in Nat /\ b.scheduled_for \in Nat
    BY DEF Entities
  <2>3. QED
    BY <2>1, <2>2
<1>6. ASSUME SameKey(a, b, key) PROVE RowSame(r, s, key)
  <2>1. \A c \in key : a[c] = b[c]
    BY <1>6 DEF SameKey, Equal
  <2>2. \A c \in key : r[c] = s[c]
    BY <1>2, <1>3, <2>1, KeyColumns
  <2>3. QED
    BY <1>4, <1>6, <2>1, <2>2 DEF RowSame, Equal, SameKey
<1>7. ASSUME RowSame(r, s, key), t = "check_runs" => Told(p, a.scheduled_for, b.scheduled_for)
      PROVE  SameKey(a, b, key)
  <2>1. \A c \in key : r[c] = s[c]
    BY <1>7 DEF RowSame, Equal
  <2>2. "recovered_at" \in key => a.recovered_at = Nothing /\ b.recovered_at = Nothing
    BY <1>4, <1>7, <2>1 DEF RowSame
  <2>3. "scheduled_for" \in key => a.scheduled_for = b.scheduled_for
    BY <1>3, <1>5, <1>7, <2>1, SameMoment DEF Told, Maybe
  <2>4. \A c \in key : a[c] = b[c]
    BY <1>2, <2>1, <2>2, <2>3, KeyColumns
  <2>5. QED
    BY <2>2, <2>4 DEF SameKey, Equal
<1>8. QED
  BY <1>6, <1>7

LEMMA SamePrimary ==
  ASSUME NEW p \in Profiles, NEW t \in TableNames, NEW a \in Entities(t), NEW b \in Entities(t),
         NEW r, NEW s, Keeps(p, r, a), Keeps(p, s, b)
  PROVE  /\ Equal(r, s, PrimaryKey(t)) <=> Equal(a, b, PrimaryKey(t))
         /\ SameKey(a, b, PrimaryKey(t)) <=> Equal(a, b, PrimaryKey(t))
<1>1. \A c \in PrimaryKey(t) : r[c] = a[c] /\ s[c] = b[c]
  BY EntityColumns, PrimaryColumns, KeepsPlain
<1>2. "recovered_at" \notin PrimaryKey(t)
  BY PrimaryColumns DEF PlainColumns
<1>3. QED
  BY <1>1, <1>2 DEF Equal, SameKey

-----------------------------------------------------------------------------
\* The book with e in the place of the entity with its primary key.
PutIn(bk, t, e) == [bk EXCEPT ![t] = {o \in @ : ~ Equal(o, e, PrimaryKey(t))} \cup {e}]

\* The database with r in the place of the row with its primary key.
PutRow(db, t, r) == [db EXCEPT ![t] = {o \in @ : ~ Equal(o, r, PrimaryKey(t))} \cup {r}]

LEMMA PutAt ==
  ASSUME NEW bk, NEW t \in TableNames, NEW e, bk = [u \in TableNames |-> bk[u]]
  PROVE  /\ PutIn(bk, t, e) = [u \in TableNames |-> PutIn(bk, t, e)[u]]
         /\ PutIn(bk, t, e)[t] = {o \in bk[t] : ~ Equal(o, e, PrimaryKey(t))} \cup {e}
         /\ \A u \in TableNames \ {t} : PutIn(bk, t, e)[u] = bk[u]
BY DEF PutIn

LEMMA PutRowAt ==
  ASSUME NEW db, NEW t \in TableNames, NEW r, db = [u \in TableNames |-> db[u]]
  PROVE  /\ PutRow(db, t, r) = [u \in TableNames |-> PutRow(db, t, r)[u]]
         /\ PutRow(db, t, r)[t] = {o \in db[t] : ~ Equal(o, r, PrimaryKey(t))} \cup {r}
         /\ \A u \in TableNames \ {t} : PutRow(db, t, r)[u] = db[u]
BY DEF PutRow

LEMMA BookPut ==
  ASSUME NEW bk, BookInv(bk), NEW t \in TableNames, NEW e, WellFormed(t, e), Valid(t, e),
         t = "monitor_locations" => \E m \in bk["monitors"] : m.id = e.monitor_id,
         \A key \in Unique(t) : \A o \in bk[t] : SameKey(o, e, key) => Equal(o, e, PrimaryKey(t))
  PROVE  BookInv(PutIn(bk, t, e))
<1> DEFINE new == PutIn(bk, t, e)
<1>1. /\ new = [u \in TableNames |-> new[u]]
      /\ new[t] = {o \in bk[t] : ~ Equal(o, e, PrimaryKey(t))} \cup {e}
      /\ \A u \in TableNames \ {t} : new[u] = bk[u]
  BY PutAt DEF BookInv
<1> HIDE DEF new
<1>2. IsFiniteSet(new[t])
  <2>1. IsFiniteSet({o \in bk[t] : ~ Equal(o, e, PrimaryKey(t))})
    BY FS_Subset DEF BookInv
  <2>2. QED
    BY <1>1, <2>1, FS_AddElement
<1>3. \A o \in new[t] : WellFormed(t, o) /\ Valid(t, o)
  BY <1>1 DEF BookInv
<1>4. ASSUME NEW key \in KeysOf(t), NEW a \in new[t], NEW b \in new[t], SameKey(a, b, key)
      PROVE  a = b
  <2>1. CASE a # e /\ b # e
    BY <1>1, <1>4, <2>1 DEF BookInv
  <2>2. ASSUME NEW o \in bk[t], SameKey(o, e, key) PROVE Equal(o, e, PrimaryKey(t))
    <3>1. CASE key \in Unique(t)
      BY <2>2, <3>1
    <3>2. CASE key = PrimaryKey(t)
      BY <2>2, <3>2 DEF SameKey
    <3>3. QED
      BY <1>4, <3>1, <3>2 DEF KeysOf
  <2>3. \A x, y : SameKey(x, y, key) => SameKey(y, x, key)
    BY DEF SameKey, Equal
  <2>4. \A o \in new[t] : o # e => o \in bk[t] /\ ~ Equal(o, e, PrimaryKey(t))
    BY <1>1
  <2>5. QED
    BY <1>4, <2>1, <2>2, <2>3, <2>4
<1>5. ASSUME NEW a \in new["monitor_locations"] PROVE \E m \in new["monitors"] : m.id = a.monitor_id
  <2>1. "monitors" \in TableNames /\ "monitor_locations" \in TableNames /\ PrimaryKey("monitors") = {"id"}
    BY DEF TableNames, PrimaryKey
  <2>2. PICK m \in bk["monitors"] : m.id = a.monitor_id
    BY <1>1, <1>5, <2>1 DEF BookInv
  <2>3. CASE t = "monitors"
    <3>1. Equal(m, e, {"id"}) <=> m.id = e.id
      BY DEF Equal
    <3>2. e \in new[t] /\ (~ Equal(m, e, {"id"}) => m \in new[t])
      BY <1>1, <2>1, <2>2, <2>3
    <3>3. QED
      BY <2>2, <2>3, <3>1, <3>2
  <2>4. CASE t # "monitors"
    BY <1>1, <2>1, <2>2, <2>4
  <2>5. QED
    BY <2>3, <2>4
<1>6. \A u \in TableNames : /\ IsFiniteSet(new[u])
                            /\ \A o \in new[u] : WellFormed(u, o) /\ Valid(u, o)
                            /\ \A key \in KeysOf(u) : \A a, b \in new[u] : SameKey(a, b, key) => a = b
  <2>1. ASSUME NEW u \in TableNames \ {t}
        PROVE  /\ IsFiniteSet(bk[u])
               /\ \A o \in bk[u] : WellFormed(u, o) /\ Valid(u, o)
               /\ \A key \in KeysOf(u) : \A a, b \in bk[u] : SameKey(a, b, key) => a = b
    BY DEF BookInv
  <2>2. QED
    BY <1>1, <1>2, <1>3, <1>4, <2>1
<1>7. QED
  BY <1>1, <1>5, <1>6 DEF BookInv, new

LEMMA StorePut ==
  ASSUME NEW p \in Profiles, NEW db, NEW bk, Inv(p, db, bk), NEW t \in TableNames, NEW e, NEW r,
         WellFormed(t, e), Keeps(p, r, e)
  PROVE  StoreInv(p, PutRow(db, t, r), PutIn(bk, t, e))
<1> DEFINE new == PutIn(bk, t, e)
           rows == PutRow(db, t, r)
<1>1. /\ new[t] = {o \in bk[t] : ~ Equal(o, e, PrimaryKey(t))} \cup {e}
      /\ \A u \in TableNames \ {t} : new[u] = bk[u]
  BY PutAt DEF Inv, BookInv
<1>2. /\ rows = [u \in TableNames |-> rows[u]]
      /\ rows[t] = {o \in db[t] : ~ Equal(o, r, PrimaryKey(t))} \cup {r}
      /\ \A u \in TableNames \ {t} : rows[u] = db[u]
  BY PutRowAt DEF Inv, StoreInv
<1> HIDE DEF new, rows
<1>3. \A o \in bk[t] : \A s : Keeps(p, s, o) => (Equal(s, r, PrimaryKey(t)) <=> Equal(o, e, PrimaryKey(t)))
  BY SamePrimary DEF Inv, BookInv, WellFormed
<1>4. \A s \in rows[t] : \E o \in new[t] : Keeps(p, s, o)
  <2>1. ASSUME NEW s \in db[t], ~ Equal(s, r, PrimaryKey(t)) PROVE \E o \in new[t] : Keeps(p, s, o)
    <3>1. PICK o \in bk[t] : Keeps(p, s, o)
      BY DEF Inv, StoreInv
    <3>2. QED
      BY <1>1, <1>3, <2>1, <3>1
  <2>2. QED
    BY <1>1, <1>2, <2>1
<1>5. \A o \in new[t] : \E s \in rows[t] : Keeps(p, s, o)
  <2>1. ASSUME NEW o \in bk[t], ~ Equal(o, e, PrimaryKey(t)) PROVE \E s \in rows[t] : Keeps(p, s, o)
    <3>1. PICK s \in db[t] : Keeps(p, s, o)
      BY DEF Inv, StoreInv
    <3>2. QED
      BY <1>2, <1>3, <2>1, <3>1
  <2>2. QED
    BY <1>1, <1>2, <2>1
<1>6. ASSUME NEW s \in rows[t], NEW u \in rows[t], Equal(s, u, PrimaryKey(t)) PROVE s = u
  <2>1. \A x, y : Equal(x, y, PrimaryKey(t)) => Equal(y, x, PrimaryKey(t))
    BY DEF Equal
  <2>2. \A x, y \in db[t] : Equal(x, y, PrimaryKey(t)) => x = y
    BY DEF Inv, StoreInv
  <2>3. QED
    BY <1>2, <1>6, <2>1, <2>2
<1>7. \A u \in TableNames \ {t} : /\ \A s \in rows[u] : \E o \in new[u] : Keeps(p, s, o)
                                  /\ \A o \in new[u] : \E s \in rows[u] : Keeps(p, s, o)
                                  /\ \A s, v \in rows[u] : Equal(s, v, PrimaryKey(u)) => s = v
  <2>1. ASSUME NEW u \in TableNames
        PROVE  /\ \A s \in db[u] : \E o \in bk[u] : Keeps(p, s, o)
               /\ \A o \in bk[u] : \E s \in db[u] : Keeps(p, s, o)
               /\ \A s, v \in db[u] : Equal(s, v, PrimaryKey(u)) => s = v
    BY DEF Inv, StoreInv
  <2>2. QED
    BY <1>1, <1>2, <2>1
<1>8. QED
  BY <1>2, <1>4, <1>5, <1>6, <1>7 DEF StoreInv, new, rows

\* A row that clashes with no other, written in the place of the one with its
\* primary key, if any.
LEMMA Written ==
  ASSUME NEW p \in Profiles, NEW db, NEW bk, Inv(p, db, bk), NEW t \in TableNames, NEW e, NEW r,
         WellFormed(t, e), Valid(t, e), Keeps(p, r, e),
         t = "monitor_locations" => \E m \in bk["monitors"] : m.id = e.monitor_id,
         \A key \in Unique(t) : \A o \in db[t] : RowSame(o, r, key) => Equal(o, r, PrimaryKey(t))
  PROVE  Inv(p, PutRow(db, t, r), PutIn(bk, t, e))
<1>1. ASSUME NEW key \in Unique(t), NEW o \in bk[t], SameKey(o, e, key) PROVE Equal(o, e, PrimaryKey(t))
  <2>1. PICK s \in db[t] : Keeps(p, s, o)
    BY DEF Inv, StoreInv
  <2>2. o \in Entities(t) /\ e \in Entities(t) /\ key \in KeysOf(t)
    BY DEF Inv, BookInv, WellFormed, KeysOf
  <2>3. RowSame(s, r, key)
    BY <1>1, <2>1, <2>2, SameKeys
  <2>4. QED
    BY <2>1, <2>2, <2>3, SamePrimary
<1>2. BookInv(PutIn(bk, t, e))
  BY <1>1, BookPut DEF Inv
<1>3. QED
  BY <1>2, StorePut DEF Inv

\* An entity changed in columns that no key is made of; a recovery may free a key.
LEMMA Changed ==
  ASSUME NEW p \in Profiles, NEW db, NEW bk, Inv(p, db, bk), NEW t \in TableNames,
         NEW e \in bk[t], NEW new, NEW r, WellFormed(t, new), Valid(t, new), Keeps(p, r, new),
         \A key \in KeysOf(t) : \A c \in key :
           new[c] = e[c] \/ (c = "recovered_at" /\ new.recovered_at # Nothing)
  PROVE  Inv(p, PutRow(db, t, r), PutIn(bk, t, new)) /\ Equal(e, new, PrimaryKey(t))
<1>1. Equal(e, new, PrimaryKey(t))
  BY PrimaryColumns DEF Equal, KeysOf, PlainColumns
<1>2. ASSUME NEW key \in Unique(t), NEW o \in bk[t], SameKey(o, new, key) PROVE Equal(o, new, PrimaryKey(t))
  <2>1. SameKey(o, e, key)
    BY <1>2 DEF SameKey, Equal, KeysOf
  <2>2. o = e
    BY <2>1 DEF Inv, BookInv, KeysOf
  <2>3. QED
    BY <1>1, <2>2
<1>3. t = "monitor_locations" => \E m \in bk["monitors"] : m.id = new.monitor_id
  BY <1>1 DEF Inv, BookInv, Equal, PrimaryKey
<1>4. BookInv(PutIn(bk, t, new))
  BY <1>2, <1>3, BookPut DEF Inv
<1>5. QED
  BY <1>1, <1>4, StorePut DEF Inv

-----------------------------------------------------------------------------
\* What the constraints allow, in terms of the book.
BookAllows(bk, t, e) ==
  /\ \A key \in KeysOf(t) : \A o \in bk[t] : ~ SameKey(o, e, key)
  /\ \A c \in DOMAIN Parents(t) : \E parent \in bk[Parents(t)[c]] : parent.id = e[c]
  /\ Valid(t, e)

BookUpserts(bk, t, e) == (\E o \in bk[t] : Equal(o, e, PrimaryKey(t))) \/ BookAllows(bk, t, e)

LEMMA ParentsAre ==
  ASSUME NEW p \in Profiles, NEW db, NEW bk, Inv(p, db, bk), NEW t \in TableNames, NEW e \in Entities(t),
         NEW r, Keeps(p, r, e), NEW c \in DOMAIN Parents(t)
  PROVE  (\E parent \in db[Parents(t)[c]] : parent.id = r[c]) <=> (\E parent \in bk[Parents(t)[c]] : parent.id = e[c])
<1> DEFINE u == Parents(t)[c]
<1>1. u \in TableNames /\ "id" \in Columns(u) /\ c \in Columns(t) /\ c \in PlainColumns \ {"probe_json"}
  BY ParentColumns
<1> HIDE DEF u
<1>2. r[c] = e[c]
  BY <1>1, EntityColumns, KeepsPlain
<1>3. \A o \in bk[u] : \A s : Keeps(p, s, o) => s.id = o.id
  <2>1. ASSUME NEW o \in bk[u], NEW s, Keeps(p, s, o) PROVE s["id"] = o["id"]
    <3>1. o \in Entities(u)
      BY <1>1 DEF Inv, BookInv, WellFormed
    <3>2. "id" \in (PlainColumns \ {"probe_json"}) \cap DOMAIN o
      BY <1>1, <3>1, EntityColumns DEF PlainColumns
    <3>3. QED
      BY <2>1, <3>2, KeepsPlain
  <2>2. QED
    BY <2>1
<1>4. /\ \A s \in db[u] : \E o \in bk[u] : Keeps(p, s, o)
      /\ \A o \in bk[u] : \E s \in db[u] : Keeps(p, s, o)
  BY <1>1 DEF Inv, StoreInv
<1>5. (\E parent \in db[u] : parent.id = r[c]) <=> (\E parent \in bk[u] : parent.id = e[c])
  BY <1>2, <1>3, <1>4
<1>6. QED
  BY <1>5 DEF u

LEMMA WholeMillisecondsOrder ==
  ASSUME NEW s \in Nat, NEW t \in Nat, s % Milli = 0, t % Milli = 0
  PROVE  /\ 0 < s \div Milli <=> 0 < s
         /\ s \div Milli < t \div Milli <=> s < t
         /\ (s \div Milli) * Milli = s
<1>1. Milli \in Nat \ {0}
  BY Units DEF Milli
<1> DEFINE a == s \div Milli
           b == t \div Milli
<1>2. a \in Nat /\ b \in Nat /\ s = Milli * a /\ t = Milli * b
  BY <1>1, Divides
<1> HIDE DEF a, b
<1>3. /\ a < b => Milli * a + Milli <= Milli * b
      /\ b <= a => Milli * b <= Milli * a
      /\ 0 < a => Milli <= Milli * a
      /\ a = 0 => Milli * a = 0
      /\ a * Milli = Milli * a
  <2>1. \A x, y \in Nat : x <= y => Milli * x <= Milli * y
    BY <1>1
  <2>2. a < b => Milli * (a + 1) <= Milli * b
    BY <1>2, <2>1
  <2>3. 0 < a => Milli * 1 <= Milli * a
    BY <1>2, <2>1
  <2>4. Milli * (a + 1) = Milli * a + Milli /\ Milli * 1 = Milli
    BY <1>1, <1>2
  <2>5. QED
    BY <1>1, <1>2, <2>1, <2>2, <2>3, <2>4
<1>4. Milli * a \in Nat /\ Milli * b \in Nat
  BY <1>2
<1>5. QED
  BY <1>1, <1>2, <1>3, <1>4 DEF a, b

LEMMA CheckedIs ==
  ASSUME NEW p \in Profiles, NEW t \in TableNames, NEW e, NEW r, WellFormed(t, e), Keeps(p, r, e)
  PROVE  Checked(t, r) <=> Valid(t, e)
<1>1. CASE t = "monitors"
  <2>1. e \in Entities(t) /\ e.interval_ms \in Nat /\ e.timeout_ms \in Nat /\ WholeMilliseconds(e)
        /\ e.failure_threshold \in Thresholds /\ e.recovery_threshold \in Thresholds
    BY <1>1 DEF WellFormed, Entities
  <2>2. DOMAIN e = Columns(t)
    BY <2>1, EntityColumns
  <2>3. r.interval_ms = e.interval_ms \div Milli /\ r.timeout_ms = e.timeout_ms \div Milli
    BY <1>1, <2>2 DEF Keeps, In, TimeColumns, Columns
  <2>4. r.failure_threshold = e.failure_threshold /\ r.recovery_threshold = e.recovery_threshold
    BY <1>1, <2>2, KeepsPlain DEF PlainColumns, Columns
  <2>5. e.failure_threshold > 0 /\ e.recovery_threshold > 0
    BY <2>1, ConformanceAssumption DEF Thresholds
  <2>6. QED
    BY <1>1, <2>1, <2>3, <2>4, <2>5, WholeMillisecondsOrder DEF Checked, Valid, WholeMilliseconds
<1>2. CASE t # "monitors"
  BY <1>2 DEF Checked, Valid
<1>3. QED
  BY <1>1, <1>2

\* The entity clashes with none of the table, where a run's instant can be told
\* from those of the others.
LEMMA ClashIs ==
  ASSUME NEW p \in Profiles, NEW db, NEW bk, Inv(p, db, bk), NEW t \in TableNames, NEW e \in Entities(t), NEW r,
         Keeps(p, r, e), NEW key \in KeysOf(t)
  PROVE  /\ Clash(db[t], r, key) <=> \E s \in db[t] : RowSame(s, r, key)
         /\ (\E o \in bk[t] : SameKey(o, e, key)) => Clash(db[t], r, key)
         /\ (t = "check_runs" => \A o \in bk[t] : Told(p, o.scheduled_for, e.scheduled_for))
              => (Clash(db[t], r, key) => \E o \in bk[t] : SameKey(o, e, key))
<1>1. Clash(db[t], r, key) <=> \E s \in db[t] : RowSame(s, r, key)
  BY DEF Clash, RowSame
<1>2. /\ \A s \in db[t] : \E o \in bk[t] : Keeps(p, s, o)
      /\ \A o \in bk[t] : \E s \in db[t] : Keeps(p, s, o)
  BY DEF Inv, StoreInv
<1>3. \A o \in bk[t] : o \in Entities(t)
  BY DEF Inv, BookInv, WellFormed
<1>4. \A o \in bk[t] : \A s : Keeps(p, s, o) =>
         /\ SameKey(o, e, key) => RowSame(s, r, key)
         /\ (t = "check_runs" => Told(p, o.scheduled_for, e.scheduled_for)) => (RowSame(s, r, key) =>
                SameKey(o, e, key))
  BY <1>3, SameKeys
<1>5. QED
  BY <1>1, <1>2, <1>4

LEMMA AllowedIs ==
  ASSUME NEW p \in Profiles, NEW db, NEW bk, Inv(p, db, bk), NEW t \in TableNames, NEW e, NEW r,
         WellFormed(t, e), Keeps(p, r, e)
  PROVE  /\ Allowed(db, t, r) => BookAllows(bk, t, e)
         /\ (t = "check_runs" => \A o \in bk[t] : Told(p, o.scheduled_for, e.scheduled_for))
              => (BookAllows(bk, t, e) => Allowed(db, t, r))
<1>1. e \in Entities(t)
  BY DEF WellFormed
<1>2. Checked(t, r) <=> Valid(t, e)
  BY CheckedIs
<1>3. (\A c \in DOMAIN Parents(t) : \E parent \in db[Parents(t)[c]] : parent.id = r[c])
        <=> (\A c \in DOMAIN Parents(t) : \E parent \in bk[Parents(t)[c]] : parent.id = e[c])
  BY <1>1, ParentsAre
<1>4. Allowed(db, t, r) <=> /\ \A key \in KeysOf(t) : ~ Clash(db[t], r, key)
                            /\ \A c \in DOMAIN Parents(t) : \E parent \in db[Parents(t)[c]] : parent.id = r[c]
                            /\ Checked(t, r)
  BY DEF Allowed, KeysOf
<1>5. BookAllows(bk, t, e) <=> /\ \A key \in KeysOf(t) : ~ \E o \in bk[t] : SameKey(o, e, key)
                               /\ \A c \in DOMAIN Parents(t) : \E parent \in bk[Parents(t)[c]] : parent.id = e[c]
                               /\ Valid(t, e)
  BY DEF BookAllows
<1>6. \A key \in KeysOf(t) :
        /\ (\E o \in bk[t] : SameKey(o, e, key)) => Clash(db[t], r, key)
        /\ (t = "check_runs" => \A o \in bk[t] : Told(p, o.scheduled_for, e.scheduled_for))
             => (Clash(db[t], r, key) => \E o \in bk[t] : SameKey(o, e, key))
  BY <1>1, ClashIs
<1>7. QED
  BY <1>2, <1>3, <1>4, <1>5, <1>6

LEMMA Inserted ==
  ASSUME NEW p \in Profiles, NEW db, NEW bk, Inv(p, db, bk), NEW t \in TableNames, NEW e, NEW r,
         WellFormed(t, e), Keeps(p, r, e)
  PROVE  /\ Allowed(db, t, r) => /\ Insert(db, t, r) = Answer(PutRow(db, t, r), {r})
                                 /\ Inv(p, PutRow(db, t, r), PutIn(bk, t, e))
         /\ ~ Allowed(db, t, r) => Insert(db, t, r) = Violation(db)
<1>1. ASSUME Allowed(db, t, r) PROVE \A key \in KeysOf(t) : \A o \in db[t] : ~ RowSame(o, r, key)
  BY <1>1 DEF Allowed, Clash, RowSame, KeysOf
<1>2. ASSUME Allowed(db, t, r) PROVE \A o \in db[t] : ~ Equal(o, r, PrimaryKey(t))
  BY <1>1, <1>2, PrimaryColumns DEF RowSame, KeysOf, PlainColumns
<1>3. ASSUME Allowed(db, t, r) PROVE [db EXCEPT ![t] = @ \cup {r}] = PutRow(db, t, r)
  <2>1. {o \in db[t] : ~ Equal(o, r, PrimaryKey(t))} = db[t]
    BY <1>2, <1>3
  <2>2. QED
    BY <2>1 DEF PutRow
<1>4. ASSUME Allowed(db, t, r) PROVE Inv(p, PutRow(db, t, r), PutIn(bk, t, e))
  <2>1. BookAllows(bk, t, e)
    BY <1>4, AllowedIs
  <2>2. t = "monitor_locations" => \E m \in bk["monitors"] : m.id = e.monitor_id
    BY <2>1 DEF BookAllows, Parents
  <2>3. QED
    BY <1>1, <1>4, <2>1, <2>2, Written DEF BookAllows, KeysOf
<1>5. QED
  BY <1>3, <1>4 DEF Insert

\* The tables that are upserted have no key but the primary one.
LEMMA Upserted ==
  ASSUME NEW p \in Profiles, NEW db, NEW bk, Inv(p, db, bk),
         NEW t \in {"monitor_locations", "location_health", "monitor_health"}, NEW e, NEW r,
         WellFormed(t, e), Keeps(p, r, e)
  PROVE  /\ BookUpserts(bk, t, e) => /\ Upsert(db, t, r) = Answer(PutRow(db, t, r), {r})
                                     /\ Inv(p, PutRow(db, t, r), PutIn(bk, t, e))
         /\ ~ BookUpserts(bk, t, e) => Upsert(db, t, r) = Violation(db)
<1>1. t \in TableNames /\ Unique(t) = {} /\ t # "monitors" /\ t # "check_runs" /\ PrimaryKey(t) \in KeysOf(t)
  BY DEF TableNames, Unique, KeysOf
<1>2. e \in Entities(t) /\ "recovered_at" \notin PrimaryKey(t)
  BY <1>1, PrimaryColumns DEF WellFormed, PlainColumns
<1>3. /\ \A s : RowSame(s, r, PrimaryKey(t)) <=> Equal(s, r, PrimaryKey(t))
      /\ \A o : SameKey(o, e, PrimaryKey(t)) <=> Equal(o, e, PrimaryKey(t))
  BY <1>2 DEF RowSame, SameKey
<1>4. /\ Clash(db[t], r, PrimaryKey(t)) <=> \E s \in db[t] : Equal(s, r, PrimaryKey(t))
      /\ Clash(db[t], r, PrimaryKey(t)) <=> \E o \in bk[t] : Equal(o, e, PrimaryKey(t))
  BY <1>1, <1>2, <1>3, ClashIs
<1>5. ASSUME Clash(db[t], r, PrimaryKey(t))
      PROVE  /\ Upsert(db, t, r) = Answer(PutRow(db, t, r), {r})
             /\ Inv(p, PutRow(db, t, r), PutIn(bk, t, e))
  <2> DEFINE hit == {s \in db[t] : Equal(s, r, PrimaryKey(t))}
             new == {r : s \in hit}
  <2>1. new = {r}
    BY <1>4, <1>5
  <2>2. db[t] \ hit = {s \in db[t] : ~ Equal(s, r, PrimaryKey(t))}
    OBVIOUS
  <2>3. Upsert(db, t, r) = Answer([db EXCEPT ![t] = (@ \ hit) \cup new], new)
    BY <1>5 DEF Upsert, Update
  <2>4. PutRow(db, t, r) = [db EXCEPT ![t] = (@ \ hit) \cup new]
    BY <2>1, <2>2 DEF PutRow
  <2>5. t = "monitor_locations" => \E m \in bk["monitors"] : m.id = e.monitor_id
    BY <1>4, <1>5 DEF Inv, BookInv, Equal, PrimaryKey
  <2>6. Inv(p, PutRow(db, t, r), PutIn(bk, t, e))
    BY <1>1, <2>5, Written DEF Valid
  <2>7. QED
    BY <2>1, <2>3, <2>4, <2>6
<1>6. ASSUME ~ Clash(db[t], r, PrimaryKey(t)) PROVE Upsert(db, t, r) = Insert(db, t, r)
  BY <1>6 DEF Upsert
<1>7. Allowed(db, t, r) <=> BookAllows(bk, t, e)
  BY <1>1, AllowedIs
<1>8. BookAllows(bk, t, e) => ~ Clash(db[t], r, PrimaryKey(t))
  BY <1>1, <1>3, <1>4 DEF BookAllows
<1>9. QED
  BY <1>1, <1>4, <1>5, <1>6, <1>7, <1>8, Inserted DEF BookUpserts

LEMMA UpsertRefused ==
  ASSUME NEW p \in Profiles, NEW db, NEW bk, Inv(p, db, bk),
         NEW t \in {"monitor_locations", "location_health", "monitor_health"}, NEW e, NEW r,
         WellFormed(t, e), Keeps(p, r, e), ~ BookUpserts(bk, t, e)
  PROVE  Upsert(db, t, r) = Violation(db)
<1>1. /\ BookUpserts(bk, t, e) => /\ Upsert(db, t, r) = Answer(PutRow(db, t, r), {r})
                                   /\ Inv(p, PutRow(db, t, r), PutIn(bk, t, e))
      /\ ~ BookUpserts(bk, t, e) => Upsert(db, t, r) = Violation(db)
  BY Upserted
<1>2. QED
  BY <1>1

-----------------------------------------------------------------------------
\* What the methods of a repository report of an insert or an upsert.
Reported(answer) ==
  [db |-> answer.db, value |-> Nothing, error |-> IF answer.error = "none" THEN "none" ELSE "conflict"]
Counted(answer) ==
  [db |-> answer.db, value |-> Cardinality(answer.rows) = 1,
      error |-> IF answer.error = "none" THEN "none" ELSE "conflict"]

LEMMA SameCardinality == \A S : Lite!Cardinality(S) = Cardinality(S) /\ Pg!Cardinality(S) = Cardinality(S)
BY DEF Lite!Cardinality, Cardinality, Pg!Cardinality

LEMMA Reports ==
  ASSUME NEW answer, answer.error \in {"none", "constraint"}
  PROVE  /\ Lite!Wrote(answer) = Reported(answer) /\ Pg!Wrote(answer) = Reported(answer)
         /\ Lite!Affected(answer) = Counted(answer) /\ Pg!Affected(answer) = Counted(answer)
BY SameCardinality
   DEF Lite!Wrote, Pg!Wrote, Lite!Affected, Pg!Affected, Lite!Reply, Pg!Reply, Lite!RepositoryError,
       Pg!RepositoryError, Reported, Counted

LEMMA InsertErrors ==
  ASSUME NEW db, NEW t, NEW row
  PROVE  /\ Insert(db, t, row).error \in {"none", "constraint"}
         /\ Upsert(db, t, row).error \in {"none", "constraint"}
BY DEF Insert, Upsert, Update, Answer, Violation

LEMMA SkipErrors ==
  ASSUME NEW db, NEW t, NEW row, NEW keys
  PROVE  InsertOrSkip(db, t, row, keys).error \in {"none", "constraint"}
BY DEF InsertOrSkip, Insert, Answer, Violation

LEMMA SameInsertOrSkip ==
  ASSUME NEW db, NEW t, NEW row, NEW keys
  PROVE  /\ Lite!InsertOrSkip(db, t, row, keys) = InsertOrSkip(db, t, row, keys)
         /\ Pg!InsertOrSkip(db, t, row, keys) = InsertOrSkip(db, t, row, keys)
<1>1. \A rows, key : Lite!Clash(rows, row, key) = Clash(rows, row, key) /\
          Pg!Clash(rows, row, key) = Clash(rows, row, key)
  BY DEF Lite!Clash, Clash, Pg!Clash, Lite!Equal, Equal, Pg!Equal
<1>2. QED
  BY <1>1, SameInsert DEF Lite!InsertOrSkip, InsertOrSkip, Pg!InsertOrSkip, Lite!Answer, Answer, Pg!Answer

-----------------------------------------------------------------------------
\* Each method that creates an entity inserts its row, as its profile writes it.
LEMMA AdminsCreateIs ==
  ASSUME NEW db, NEW e \in Entities("admins")
  PROVE  /\ Lite!AdminsCreate(db, e) = Reported(Insert(db, "admins", Row("lite", e)))
         /\ Pg!AdminsCreate(db, e) = Reported(Insert(db, "admins", Row("pg", e)))
<1>1. IsRecord(e) /\ DOMAIN e = Columns("admins")
  BY EntityColumns DEF TableNames
<1>2. e.created_at # Nothing
  BY NoSentinel DEF Entities
<1>3. ASSUME NEW r, r = [e EXCEPT !.created_at = Lite!FormatTime(@)]
      PROVE  r = Row("lite", e)
  <2>1. IsRecord(r) /\ DOMAIN r = DOMAIN e
    BY <1>1, <1>3 DEF Columns, IsRecord
  <2>2. \A c \in DOMAIN e : r[c] = In("lite", c, e[c])
    BY <1>1, <1>2, <1>3 DEF Columns, Flag, In, Moment, NullableColumns, TimeColumns
  <2>3. QED
    BY <2>1, <2>2, RowIs
<1>4. ASSUME NEW r, r = [e EXCEPT !.created_at = Pg!FormatTime(@)]
      PROVE  r = Row("pg", e)
  <2>1. IsRecord(r) /\ DOMAIN r = DOMAIN e
    BY <1>1, <1>4 DEF Columns, IsRecord
  <2>2. \A c \in DOMAIN e : r[c] = In("pg", c, e[c])
    BY <1>1, <1>2, <1>4 DEF Columns, Flag, In, Moment, NullableColumns, TimeColumns
  <2>3. QED
    BY <2>1, <2>2, RowIs
<1>5. QED
  BY <1>3, <1>4, SameInsert, InsertErrors, Reports
      DEF Lite!AdminsCreate, Lite!CreateAdmin, Pg!AdminsCreate, Pg!CreateAdmin

LEMMA SessionsCreateIs ==
  ASSUME NEW db, NEW e \in Entities("sessions")
  PROVE  /\ Lite!SessionsCreate(db, e) = Reported(Insert(db, "sessions", Row("lite", e)))
         /\ Pg!SessionsCreate(db, e) = Reported(Insert(db, "sessions", Row("pg", e)))
<1>1. IsRecord(e) /\ DOMAIN e = Columns("sessions")
  BY EntityColumns DEF TableNames
<1>2. e.expires_at # Nothing
  BY NoSentinel DEF Entities
<1>3. ASSUME NEW r, r = [e EXCEPT !.expires_at = Lite!FormatTime(@), !.revoked_at = Lite!NullableTime(@)]
      PROVE  r = Row("lite", e)
  <2>1. IsRecord(r) /\ DOMAIN r = DOMAIN e
    BY <1>1, <1>3 DEF Columns, IsRecord
  <2>2. \A c \in DOMAIN e : r[c] = In("lite", c, e[c])
    BY <1>1, <1>2, <1>3 DEF Columns, Flag, In, Lite!NullableTime, Moment, NullableColumns, TimeColumns
  <2>3. QED
    BY <2>1, <2>2, RowIs
<1>4. ASSUME NEW r, r = [e EXCEPT !.expires_at = Pg!FormatTime(@), !.revoked_at = Pg!NullableTime(@)]
      PROVE  r = Row("pg", e)
  <2>1. IsRecord(r) /\ DOMAIN r = DOMAIN e
    BY <1>1, <1>4 DEF Columns, IsRecord
  <2>2. \A c \in DOMAIN e : r[c] = In("pg", c, e[c])
    BY <1>1, <1>2, <1>4 DEF Columns, Flag, In, Moment, NullableColumns, Pg!NullableTime, TimeColumns
  <2>3. QED
    BY <2>1, <2>2, RowIs
<1>5. QED
  BY <1>3, <1>4, SameInsert, InsertErrors, Reports
      DEF Lite!SessionsCreate, Lite!CreateSession, Pg!SessionsCreate, Pg!CreateSession

LEMMA LocationsCreateIs ==
  ASSUME NEW db, NEW e \in Entities("locations")
  PROVE  /\ Lite!LocationsCreate(db, e) = Reported(Insert(db, "locations", Row("lite", e)))
         /\ Pg!LocationsCreate(db, e) = Reported(Insert(db, "locations", Row("pg", e)))
<1>1. IsRecord(e) /\ DOMAIN e = Columns("locations")
  BY EntityColumns DEF TableNames
<1>2. e.created_at # Nothing
  BY NoSentinel DEF Entities
<1>3. ASSUME NEW r, r = [e EXCEPT !.created_at = Lite!FormatTime(@)]
      PROVE  r = Row("lite", e)
  <2>1. IsRecord(r) /\ DOMAIN r = DOMAIN e
    BY <1>1, <1>3 DEF Columns, IsRecord
  <2>2. \A c \in DOMAIN e : r[c] = In("lite", c, e[c])
    BY <1>1, <1>2, <1>3 DEF Columns, Flag, In, Moment, NullableColumns, TimeColumns
  <2>3. QED
    BY <2>1, <2>2, RowIs
<1>4. ASSUME NEW r, r = [e EXCEPT !.created_at = Pg!FormatTime(@)]
      PROVE  r = Row("pg", e)
  <2>1. IsRecord(r) /\ DOMAIN r = DOMAIN e
    BY <1>1, <1>4 DEF Columns, IsRecord
  <2>2. \A c \in DOMAIN e : r[c] = In("pg", c, e[c])
    BY <1>1, <1>2, <1>4 DEF Columns, Flag, In, Moment, NullableColumns, TimeColumns
  <2>3. QED
    BY <2>1, <2>2, RowIs
<1>5. QED
  BY <1>3, <1>4, SameInsert, InsertErrors, Reports
      DEF Lite!LocationsCreate, Lite!CreateLocation, Pg!LocationsCreate, Pg!CreateLocation

LEMMA MonitorsAssignLocationIs ==
  ASSUME NEW db, NEW e \in Entities("monitor_locations")
  PROVE  /\ Lite!MonitorsAssignLocation(db, e) = Reported(Upsert(db, "monitor_locations", Row("lite", e)))
         /\ Pg!MonitorsAssignLocation(db, e) = Reported(Upsert(db, "monitor_locations", Row("pg", e)))
<1>1. IsRecord(e) /\ DOMAIN e = Columns("monitor_locations")
  BY EntityColumns DEF TableNames
<1>3. ASSUME NEW r, r = [e EXCEPT !.required = Lite!BoolInt(@)]
      PROVE  r = Row("lite", e)
  <2>1. IsRecord(r) /\ DOMAIN r = DOMAIN e
    BY <1>1, <1>3 DEF Columns, IsRecord
  <2>2. \A c \in DOMAIN e : r[c] = In("lite", c, e[c])
    BY <1>1, <1>3 DEF Columns, Flag, In, Moment, NullableColumns, TimeColumns
  <2>3. QED
    BY <2>1, <2>2, RowIs
<1>4. ASSUME NEW r, r = e
      PROVE  r = Row("pg", e)
  <2>1. IsRecord(r) /\ DOMAIN r = DOMAIN e
    BY <1>1, <1>4 DEF Columns, IsRecord
  <2>2. \A c \in DOMAIN e : r[c] = In("pg", c, e[c])
    BY <1>1, <1>4 DEF Columns, Flag, In, Moment, NullableColumns, TimeColumns
  <2>3. QED
    BY <2>1, <2>2, RowIs
<1>5. QED
  BY <1>3, <1>4, SameUpsert, InsertErrors, Reports
      DEF Lite!MonitorsAssignLocation, Lite!AssignMonitorLocation, Pg!MonitorsAssignLocation, Pg!AssignMonitorLocation

LEMMA AgentsCreateEnrollmentTokenIs ==
  ASSUME NEW db, NEW e \in Entities("agent_enrollment_tokens"), e.consumed_at = Nothing
  PROVE  /\ Lite!AgentsCreateEnrollmentToken(db, e) = Reported(Insert(db, "agent_enrollment_tokens", Row("lite", e)))
         /\ Pg!AgentsCreateEnrollmentToken(db, e) = Reported(Insert(db, "agent_enrollment_tokens", Row("pg", e)))
<1>1. IsRecord(e) /\ DOMAIN e = Columns("agent_enrollment_tokens")
  BY EntityColumns DEF TableNames
<1>2. e.expires_at # Nothing /\ e.created_at # Nothing
  BY NoSentinel DEF Entities
<1>3. ASSUME NEW r, r = [[e EXCEPT !.expires_at = Lite!FormatTime(@),
          !.created_at = Lite!FormatTime(@)] EXCEPT !.consumed_at = Null]
      PROVE  r = Row("lite", e)
  <2>1. IsRecord(r) /\ DOMAIN r = DOMAIN e
    BY <1>1, <1>3 DEF Columns, IsRecord
  <2>2. \A c \in DOMAIN e : r[c] = In("lite", c, e[c])
    BY <1>1, <1>2, <1>3 DEF Columns, Flag, In, Moment, NullableColumns, TimeColumns
  <2>3. QED
    BY <2>1, <2>2, RowIs
<1>4. ASSUME NEW r, r = [[e EXCEPT !.expires_at = Pg!FormatTime(@),
          !.created_at = Pg!FormatTime(@)] EXCEPT !.consumed_at = Null]
      PROVE  r = Row("pg", e)
  <2>1. IsRecord(r) /\ DOMAIN r = DOMAIN e
    BY <1>1, <1>4 DEF Columns, IsRecord
  <2>2. \A c \in DOMAIN e : r[c] = In("pg", c, e[c])
    BY <1>1, <1>2, <1>4 DEF Columns, Flag, In, Moment, NullableColumns, TimeColumns
  <2>3. QED
    BY <2>1, <2>2, RowIs
<1>5. QED
  BY <1>3, <1>4, SameInsert, InsertErrors, Reports DEF Lite!AgentsCreateEnrollmentToken,
      Lite!CreateAgentEnrollmentToken, Pg!AgentsCreateEnrollmentToken, Pg!CreateAgentEnrollmentToken

LEMMA AgentsCreateIs ==
  ASSUME NEW db, NEW e \in Entities("agents")
  PROVE  /\ Lite!AgentsCreate(db, e) = Reported(Insert(db, "agents", Row("lite", e)))
         /\ Pg!AgentsCreate(db, e) = Reported(Insert(db, "agents", Row("pg", e)))
<1>1. IsRecord(e) /\ DOMAIN e = Columns("agents")
  BY EntityColumns DEF TableNames
<1>2. e.created_at # Nothing
  BY NoSentinel DEF Entities
<1>3. ASSUME NEW r, r = [e EXCEPT !.version = Lite!NullableString(@), !.last_seen_at = Lite!NullableTimeValue(@),
                        !.revoked_at = Lite!NullableTime(@), !.created_at = Lite!FormatTime(@)]
      PROVE  r = Row("lite", e)
  <2>1. IsRecord(r) /\ DOMAIN r = DOMAIN e
    BY <1>1, <1>3 DEF Columns, IsRecord
  <2>2. \A c \in DOMAIN e : r[c] = In("lite", c, e[c])
    BY <1>1, <1>2, <1>3 DEF Columns, Flag, In, Lite!NullableString, Lite!NullableTime, Lite!NullableTimeValue, Moment,
        NullableColumns, TimeColumns
  <2>3. QED
    BY <2>1, <2>2, RowIs
<1>4. ASSUME NEW r, r = [e EXCEPT !.version = Pg!NullableString(@), !.last_seen_at = Pg!NullableTimeValue(@),
                        !.revoked_at = Pg!NullableTime(@), !.created_at = Pg!FormatTime(@)]
      PROVE  r = Row("pg", e)
  <2>1. IsRecord(r) /\ DOMAIN r = DOMAIN e
    BY <1>1, <1>4 DEF Columns, IsRecord
  <2>2. \A c \in DOMAIN e : r[c] = In("pg", c, e[c])
    BY <1>1, <1>2, <1>4
        DEF Columns, Flag, In, Moment, NullableColumns, Pg!NullableString, Pg!NullableTime, Pg!NullableTimeValue,
        TimeColumns
  <2>3. QED
    BY <2>1, <2>2, RowIs
<1>5. QED
  BY <1>3, <1>4, SameInsert, InsertErrors, Reports
      DEF Lite!AgentsCreate, Lite!CreateAgent, Pg!AgentsCreate, Pg!CreateAgent

LEMMA IncidentsAppendEventIs ==
  ASSUME NEW db, NEW e \in Entities("incident_events")
  PROVE  /\ Lite!IncidentsAppendEvent(db, e) = Reported(Insert(db, "incident_events", Row("lite", e)))
         /\ Pg!IncidentsAppendEvent(db, e) = Reported(Insert(db, "incident_events", Row("pg", e)))
<1>1. IsRecord(e) /\ DOMAIN e = Columns("incident_events")
  BY EntityColumns DEF TableNames
<1>2. e.created_at # Nothing
  BY NoSentinel DEF Entities
<1>3. ASSUME NEW r, r = [e EXCEPT !.previous_state = Lite!NullableString(@), !.created_at = Lite!FormatTime(@)]
      PROVE  r = Row("lite", e)
  <2>1. IsRecord(r) /\ DOMAIN r = DOMAIN e
    BY <1>1, <1>3 DEF Columns, IsRecord
  <2>2. \A c \in DOMAIN e : r[c] = In("lite", c, e[c])
    BY <1>1, <1>2, <1>3 DEF Columns, Flag, In, Lite!NullableString, Moment, NullableColumns, TimeColumns
  <2>3. QED
    BY <2>1, <2>2, RowIs
<1>4. ASSUME NEW r, r = [e EXCEPT !.previous_state = Pg!NullableString(@), !.created_at = Pg!FormatTime(@)]
      PROVE  r = Row("pg", e)
  <2>1. IsRecord(r) /\ DOMAIN r = DOMAIN e
    BY <1>1, <1>4 DEF Columns, IsRecord
  <2>2. \A c \in DOMAIN e : r[c] = In("pg", c, e[c])
    BY <1>1, <1>2, <1>4 DEF Columns, Flag, In, Moment, NullableColumns, Pg!NullableString, TimeColumns
  <2>3. QED
    BY <2>1, <2>2, RowIs
<1>5. QED
  BY <1>3, <1>4, SameInsert, InsertErrors, Reports
      DEF Lite!IncidentsAppendEvent, Lite!InsertIncidentEvent, Pg!IncidentsAppendEvent, Pg!InsertIncidentEvent

LEMMA HealthUpsertLocationIs ==
  ASSUME NEW db, NEW e \in Entities("location_health")
  PROVE  /\ Lite!HealthUpsertLocation(db, e) = Lite!Wrapped(Upsert(db, "location_health", Row("lite", e)))
         /\ Pg!HealthUpsertLocation(db, e) = Lite!Wrapped(Upsert(db, "location_health", Row("pg", e)))
<1>1. IsRecord(e) /\ DOMAIN e = Columns("location_health")
  BY EntityColumns DEF TableNames
<1>3. ASSUME NEW r, r = [e EXCEPT !.last_observed_at = Lite!NullableTimeValue(@),
          !.stale_at = Lite!NullableTimeValue(@),
                        !.last_transition_at = Lite!NullableTimeValue(@)]
      PROVE  r = Row("lite", e)
  <2>1. IsRecord(r) /\ DOMAIN r = DOMAIN e
    BY <1>1, <1>3 DEF Columns, IsRecord
  <2>2. \A c \in DOMAIN e : r[c] = In("lite", c, e[c])
    BY <1>1, <1>3 DEF Columns, Flag, In, Lite!NullableTimeValue, Moment, NullableColumns, TimeColumns
  <2>3. QED
    BY <2>1, <2>2, RowIs
<1>4. ASSUME NEW r, r = [e EXCEPT !.last_observed_at = Pg!NullableTimeValue(@), !.stale_at = Pg!NullableTimeValue(@),
                        !.last_transition_at = Pg!NullableTimeValue(@)]
      PROVE  r = Row("pg", e)
  <2>1. IsRecord(r) /\ DOMAIN r = DOMAIN e
    BY <1>1, <1>4 DEF Columns, IsRecord
  <2>2. \A c \in DOMAIN e : r[c] = In("pg", c, e[c])
    BY <1>1, <1>4 DEF Columns, Flag, In, Moment, NullableColumns, Pg!NullableTimeValue, TimeColumns
  <2>3. QED
    BY <2>1, <2>2, RowIs
<1>5. QED
  BY <1>3, <1>4, SameUpsert, InsertErrors, Reports DEF Lite!HealthUpsertLocation, Lite!UpsertLocationHealth,
      Lite!Wrapped, Pg!HealthUpsertLocation, Pg!UpsertLocationHealth, Pg!Wrapped

LEMMA HealthUpsertMonitorIs ==
  ASSUME NEW db, NEW e \in Entities("monitor_health")
  PROVE  /\ Lite!HealthUpsertMonitor(db, e) = Lite!Wrapped(Upsert(db, "monitor_health", Row("lite", e)))
         /\ Pg!HealthUpsertMonitor(db, e) = Lite!Wrapped(Upsert(db, "monitor_health", Row("pg", e)))
<1>1. IsRecord(e) /\ DOMAIN e = Columns("monitor_health")
  BY EntityColumns DEF TableNames
<1>3. ASSUME NEW r, r = [e EXCEPT !.last_transition_at = Lite!NullableTimeValue(@)]
      PROVE  r = Row("lite", e)
  <2>1. IsRecord(r) /\ DOMAIN r = DOMAIN e
    BY <1>1, <1>3 DEF Columns, IsRecord
  <2>2. \A c \in DOMAIN e : r[c] = In("lite", c, e[c])
    BY <1>1, <1>3 DEF Columns, Flag, In, Lite!NullableTimeValue, Moment, NullableColumns, TimeColumns
  <2>3. QED
    BY <2>1, <2>2, RowIs
<1>4. ASSUME NEW r, r = [e EXCEPT !.last_transition_at = Pg!NullableTimeValue(@)]
      PROVE  r = Row("pg", e)
  <2>1. IsRecord(r) /\ DOMAIN r = DOMAIN e
    BY <1>1, <1>4 DEF Columns, IsRecord
  <2>2. \A c \in DOMAIN e : r[c] = In("pg", c, e[c])
    BY <1>1, <1>4 DEF Columns, Flag, In, Moment, NullableColumns, Pg!NullableTimeValue, TimeColumns
  <2>3. QED
    BY <2>1, <2>2, RowIs
<1>5. QED
  BY <1>3, <1>4, SameUpsert, InsertErrors, Reports DEF Lite!HealthUpsertMonitor, Lite!UpsertMonitorHealth, Lite!Wrapped,
      Pg!HealthUpsertMonitor, Pg!UpsertMonitorHealth, Pg!Wrapped

LEMMA ResultsInsertIs ==
  ASSUME NEW db, NEW e \in Entities("probe_results")
  PROVE  /\ Lite!ResultsInsert(db, e) = Counted(InsertOrSkip(db, "probe_results", Row("lite", e),
                Unique("probe_results") \cup {{"id"}}))
         /\ Pg!ResultsInsert(db, e) = Counted(InsertOrSkip(db, "probe_results", Row("pg", e),
                Unique("probe_results") \cup {{"id"}}))
<1>1. IsRecord(e) /\ DOMAIN e = Columns("probe_results")
  BY EntityColumns DEF TableNames
<1>2. e.started_at # Nothing /\ e.finished_at # Nothing /\ e.received_at # Nothing
  BY NoSentinel DEF Entities
<1>3. ASSUME NEW r, r = [e EXCEPT !.started_at = Lite!FormatTime(@), !.finished_at = Lite!FormatTime(@),
          !.received_at = Lite!FormatTime(@),
                        !.outcome = Lite!Outcome(@), !.latency_ms = Lite!Milliseconds(@),
                        !.observed_status = Lite!NullableInt(@), !.body_assertion_passed = Lite!NullableBool(@),
                        !.error_code = Lite!NullableString(@), !.tls_not_after = Lite!NullableTime(@)]
      PROVE  r = Row("lite", e)
  <2>1. IsRecord(r) /\ DOMAIN r = DOMAIN e
    BY <1>1, <1>3 DEF Columns, IsRecord
  <2>2. \A c \in DOMAIN e : r[c] = In("lite", c, e[c])
    BY <1>1, <1>2, <1>3 DEF Columns, Flag, In, Lite!Milli, Lite!Milliseconds, Lite!NullableBool, Lite!NullableInt,
        Lite!NullableString, Lite!NullableTime, Lite!Outcome, Milli, Moment, NullableColumns, TimeColumns
  <2>3. QED
    BY <2>1, <2>2, RowIs
<1>4. ASSUME NEW r, r = [e EXCEPT !.started_at = Pg!FormatTime(@), !.finished_at = Pg!FormatTime(@),
          !.received_at = Pg!FormatTime(@),
                        !.outcome = Pg!Outcome(@), !.latency_ms = Pg!Milliseconds(@),
                        !.observed_status = Pg!NullableInt(@), !.body_assertion_passed = Pg!NullableBool(@),
                        !.error_code = Pg!NullableString(@), !.tls_not_after = Pg!NullableTime(@)]
      PROVE  r = Row("pg", e)
  <2>1. IsRecord(r) /\ DOMAIN r = DOMAIN e
    BY <1>1, <1>4 DEF Columns, IsRecord
  <2>2. \A c \in DOMAIN e : r[c] = In("pg", c, e[c])
    BY <1>1, <1>2, <1>4 DEF Columns, Flag, In, Milli, Moment, NullableColumns, Pg!Milli, Pg!Milliseconds,
        Pg!NullableBool, Pg!NullableInt, Pg!NullableString, Pg!NullableTime, Pg!Outcome, TimeColumns, Lite!Outcome
  <2>3. QED
    BY <2>1, <2>2, RowIs
<1> DEFINE keys == Unique("probe_results") \cup {{"id"}}
<1>5. \A row : /\ Lite!InsertProbeResult(db, row) = InsertOrSkip(db, "probe_results", row, keys)
               /\ Pg!InsertProbeResult(db, row) = InsertOrSkip(db, "probe_results", row, keys)
  BY SameInsertOrSkip, SameTables DEF Lite!InsertProbeResult, Pg!InsertProbeResult
<1>6. Lite!ResultsInsert(db, e) = Lite!Affected(Lite!InsertProbeResult(db, Row("lite", e)))
  BY <1>3 DEF Lite!ResultsInsert
<1>7. Pg!ResultsInsert(db, e) = Pg!Affected(Pg!InsertProbeResult(db, Row("pg", e)))
  BY <1>4 DEF Pg!ResultsInsert
<1> HIDE DEF keys
<1>8. \A row : /\ Lite!Affected(InsertOrSkip(db, "probe_results", row, keys)) = Counted(InsertOrSkip(db,
                      "probe_results", row, keys))
               /\ Pg!Affected(InsertOrSkip(db, "probe_results", row, keys)) = Counted(InsertOrSkip(db, "probe_results",
                      row, keys))
  <2>1. ASSUME NEW row PROVE InsertOrSkip(db, "probe_results", row, keys).error \in {"none", "constraint"}
    BY SkipErrors
  <2>2. QED
    BY <2>1, Reports
<1>9. QED
  BY <1>5, <1>6, <1>7, <1>8 DEF keys

\* The fixture's monitor is no entity, its probe has no kind.
LEMMA MonitorsCreateIs ==
  ASSUME NEW db, NEW e, IsRecord(e), DOMAIN e = Columns("monitors"), e.next_run_at # Nothing, e.created_at # Nothing,
         e.updated_at # Nothing
  PROVE  /\ Lite!MonitorsCreate(db, e) = Reported(Insert(db, "monitors", Row("lite", e)))
         /\ Pg!MonitorsCreate(db, e) = Reported(Insert(db, "monitors", Row("pg", e)))
<1>1. Lite!Milli = Milli /\ Pg!Milli = Milli
  BY DEF Lite!Milli, Pg!Milli, Milli
<1>2. ASSUME NEW r, r = [e EXCEPT !.interval_ms = Lite!Milliseconds(@), !.timeout_ms = Lite!Milliseconds(@),
                                  !.enabled = Lite!BoolInt(@), !.next_run_at = Lite!FormatTime(@),
                                  !.created_at = Lite!FormatTime(@), !.updated_at = Lite!FormatTime(@)]
      PROVE  r = Row("lite", e)
  <2>1. IsRecord(r) /\ DOMAIN r = DOMAIN e
    BY <1>2 DEF Columns, IsRecord
  <2>2. \A c \in DOMAIN e : r[c] = In("lite", c, e[c])
    BY <1>1, <1>2 DEF Columns, Flag, In, Lite!Milliseconds, Moment, NullableColumns, TimeColumns
  <2>3. QED
    BY <2>1, <2>2, RowIs
<1>3. ASSUME NEW r, r = [e EXCEPT !.interval_ms = Pg!Milliseconds(@), !.timeout_ms = Pg!Milliseconds(@),
                                  !.next_run_at = Pg!FormatTime(@), !.created_at = Pg!FormatTime(@),
                                  !.updated_at = Pg!FormatTime(@)]
      PROVE  r = Row("pg", e)
  <2>1. IsRecord(r) /\ DOMAIN r = DOMAIN e
    BY <1>3 DEF Columns, IsRecord
  <2>2. \A c \in DOMAIN e : r[c] = In("pg", c, e[c])
    BY <1>1, <1>3 DEF Columns, Flag, In, Pg!Milliseconds, Moment, NullableColumns, TimeColumns
  <2>3. QED
    BY <2>1, <2>2, RowIs
<1>4. QED
  BY <1>2, <1>3, SameInsert, InsertErrors, Reports
  DEF Lite!MonitorsCreate, Lite!CreateMonitor, Pg!MonitorsCreate, Pg!CreateMonitor

\* An incident is opened without an instant of recovery, whatever the entity says.
LEMMA IncidentsOpenIs ==
  ASSUME NEW db, NEW i \in Entities("incidents"), NEW e, e = [i EXCEPT !.recovered_at = Nothing]
  PROVE  /\ Lite!IncidentsOpen(db, i) = Reported(Insert(db, "incidents", Row("lite", e)))
         /\ Pg!IncidentsOpen(db, i) = Reported(Insert(db, "incidents", Row("pg", e)))
<1>1. IsRecord(i) /\ DOMAIN i = Columns("incidents") /\ DOMAIN e = Columns("incidents")
  BY EntityColumns DEF TableNames
<1>2. i.opened_at # Nothing /\ i.last_transition_at # Nothing
  BY NoSentinel DEF Entities
<1>3. ASSUME NEW r, r = [[i EXCEPT !.opened_at = Lite!FormatTime(@), !.last_transition_at = Lite!FormatTime(@)]
                           EXCEPT !.recovered_at = Null]
      PROVE  r = Row("lite", e)
  <2>1. IsRecord(r) /\ DOMAIN r = DOMAIN e
    BY <1>1, <1>3 DEF Columns, IsRecord
  <2>2. \A c \in DOMAIN e : r[c] = In("lite", c, e[c])
    BY <1>1, <1>2, <1>3 DEF Columns, In, Moment, NullableColumns, TimeColumns
  <2>3. QED
    BY <2>1, <2>2, RowIs
<1>4. ASSUME NEW r, r = [[i EXCEPT !.opened_at = Pg!FormatTime(@), !.last_transition_at = Pg!FormatTime(@)]
                           EXCEPT !.recovered_at = Null]
      PROVE  r = Row("pg", e)
  <2>1. IsRecord(r) /\ DOMAIN r = DOMAIN e
    BY <1>1, <1>4 DEF Columns, IsRecord
  <2>2. \A c \in DOMAIN e : r[c] = In("pg", c, e[c])
    BY <1>1, <1>2, <1>4, ZenonT(60) DEF Columns, In, Moment, NullableColumns, TimeColumns
  <2>3. QED
    BY <2>1, <2>2, RowIs
<1>5. QED
  BY <1>3, <1>4, SameInsert, InsertErrors, Reports
  DEF Lite!IncidentsOpen, Lite!OpenIncident, Pg!IncidentsOpen, Pg!OpenIncident

LEMMA RunsInsertIs ==
  ASSUME NEW db, NEW run \in New.check_runs
  PROVE  /\ Lite!RunsInsert(db, run)
              = Counted(InsertOrSkip(db, "check_runs", Row("lite", InsertedRun(run)), Unique("check_runs")))
         /\ Pg!RunsInsert(db, run)
              = Counted(InsertOrSkip(db, "check_runs", Row("pg", InsertedRun(run)), Unique("check_runs")))
<1> DEFINE e == InsertedRun(run)
           keys == Unique("check_runs")
<1>1. run.scheduled_for # Nothing
  BY EntityAssumption, NoSentinel
<1>2. /\ DOMAIN e = Columns("check_runs") /\ e.scheduled_for = run.scheduled_for /\ e.timeout_ms = run.timeout
      /\ e.lease_agent_id = Nothing /\ e.lease_token_hash = Nothing /\ e.lease_expires_at = Nothing
      /\ e.resolved_at = Nothing /\ e.lease_attempt = 0 /\ e.status = "available" /\ e.id = run.id
      /\ e.monitor_id = run.monitor_id /\ e.location_id = run.location_id /\ e.probe_json = run.probe
      /\ e.probe_kind = run.probe.kind
  BY DEF InsertedRun, Columns
<1>3. Lite!Milli = Milli /\ Pg!Milli = Milli
  BY DEF Lite!Milli, Pg!Milli, Milli
<1> HIDE DEF e, keys
<1>4. ASSUME NEW r, r = [id |-> run.id, monitor_id |-> run.monitor_id, location_id |-> run.location_id,
                         scheduled_for |-> Lite!FormatTime(run.scheduled_for), probe_json |-> run.probe,
                         probe_kind |-> run.probe.kind, timeout_ms |-> Lite!Milliseconds(run.timeout),
                         status |-> "available", lease_agent_id |-> Null, lease_token_hash |-> Null,
                         lease_attempt |-> 0, lease_expires_at |-> Null, resolved_at |-> Null]
      PROVE  r = Row("lite", e)
  <2>1. IsRecord(r) /\ DOMAIN r = DOMAIN e
    BY <1>2, <1>4 DEF Columns, IsRecord
  <2>2. \A c \in DOMAIN e : r[c] = In("lite", c, e[c])
    BY <1>1, <1>2, <1>3, <1>4 DEF Columns, In, Moment, NullableColumns, TimeColumns, Lite!Milliseconds
  <2>3. QED
    BY <2>1, <2>2, RowIs
<1>5. ASSUME NEW r, r = [id |-> run.id, monitor_id |-> run.monitor_id, location_id |-> run.location_id,
                         scheduled_for |-> Pg!FormatTime(run.scheduled_for), probe_json |-> run.probe,
                         probe_kind |-> run.probe.kind, timeout_ms |-> Pg!Milliseconds(run.timeout),
                         status |-> "available", lease_agent_id |-> Null, lease_token_hash |-> Null,
                         lease_attempt |-> 0, lease_expires_at |-> Null, resolved_at |-> Null]
      PROVE  r = Row("pg", e)
  <2>1. IsRecord(r) /\ DOMAIN r = DOMAIN e
    BY <1>2, <1>5 DEF Columns, IsRecord
  <2>2. \A c \in DOMAIN e : r[c] = In("pg", c, e[c])
    BY <1>1, <1>2, <1>3, <1>5 DEF Columns, In, Moment, NullableColumns, TimeColumns, Pg!Milliseconds
  <2>3. QED
    BY <2>1, <2>2, RowIs
<1>6. \A row : /\ Lite!InsertScheduledRun(db, row) = InsertOrSkip(db, "check_runs", row, keys)
               /\ Pg!InsertScheduledRun(db, row) = InsertOrSkip(db, "check_runs", row, keys)
  BY SameInsertOrSkip, SameTables DEF Lite!InsertScheduledRun, Pg!InsertScheduledRun, keys
<1>7. Lite!RunsInsert(db, run) = Lite!Affected(Lite!InsertScheduledRun(db, Row("lite", e)))
  BY <1>4 DEF Lite!RunsInsert
<1>8. Pg!RunsInsert(db, run) = Pg!Affected(Pg!InsertScheduledRun(db, Row("pg", e)))
  BY <1>5 DEF Pg!RunsInsert
<1>9. \A row : /\ Lite!Affected(InsertOrSkip(db, "check_runs", row, keys)) = Counted(InsertOrSkip(db, "check_runs", row,
                      keys))
               /\ Pg!Affected(InsertOrSkip(db, "check_runs", row, keys)) = Counted(InsertOrSkip(db, "check_runs", row,
                      keys))
  <2>1. ASSUME NEW row PROVE InsertOrSkip(db, "check_runs", row, keys).error \in {"none", "constraint"}
    BY SkipErrors
  <2>2. QED
    BY <2>1, Reports
<1>10. QED
  BY <1>6, <1>7, <1>8, <1>9 DEF keys, e

-----------------------------------------------------------------------------
\* The answers of the methods that insert and upsert, in terms of the book.
LEMMA AnswerReports ==
  ASSUME NEW db, NEW new, NEW r
  PROVE  /\ Reported(Violation(db)) = [db |-> db, value |-> Nothing, error |-> "conflict"]
         /\ Lite!Wrapped(Violation(db)) = [db |-> db, value |-> Nothing, error |-> "constraint"]
         /\ Counted(Violation(db)) = [db |-> db, value |-> FALSE, error |-> "conflict"]
         /\ Counted(Answer(db, {})) = [db |-> db, value |-> FALSE, error |-> "none"]
         /\ Counted(Answer(new, {r})) = [db |-> new, value |-> TRUE, error |-> "none"]
<1>1. (Cardinality({}) = 1) = FALSE /\ (Cardinality({r}) = 1) = TRUE
  BY FS_EmptySet, FS_Singleton
<1>2. Reported(Violation(db)) = [db |-> db, value |-> Nothing, error |-> "conflict"]
  BY DEF Reported, Violation
<1>3. Lite!Wrapped(Violation(db)) = [db |-> db, value |-> Nothing, error |-> "constraint"]
  BY DEF Lite!Wrapped, Violation
<1>4. Counted(Violation(db)) = [db |-> db, value |-> FALSE, error |-> "conflict"]
  BY <1>1 DEF Counted, Violation
<1>5. Counted(Answer(db, {})) = [db |-> db, value |-> FALSE, error |-> "none"]
  BY <1>1 DEF Counted, Answer
<1>6. Counted(Answer(new, {r})) = [db |-> new, value |-> TRUE, error |-> "none"]
  BY <1>1 DEF Counted, Answer
<1>7. QED
  BY <1>2, <1>3, <1>4, <1>5, <1>6

LEMMA Creating ==
  ASSUME NEW p \in Profiles, NEW db, NEW bk, Inv(p, db, bk), NEW t \in TableNames, NEW e, NEW r,
         WellFormed(t, e), Keeps(p, r, e), NEW reply, reply = Reported(Insert(db, t, r))
  PROVE  /\ reply.value = Nothing /\ reply.error \in {"none", "conflict"}
         /\ reply.error = "none" => Inv(p, reply.db, PutIn(bk, t, e))
         /\ reply.error # "none" => reply.db = db
         /\ t # "check_runs" => (reply.error = "none" <=> BookAllows(bk, t, e))
<1>1. CASE Allowed(db, t, r)
  BY <1>1, Inserted, AllowedIs DEF Reported, Answer
<1>2. CASE ~ Allowed(db, t, r)
  <2>1. reply = [db |-> db, value |-> Nothing, error |-> "conflict"]
    <3>1. Insert(db, t, r) = Violation(db)
      BY <1>2 DEF Insert
    <3>2. QED
      BY <3>1, AnswerReports
  <2>2. t # "check_runs" => ~ BookAllows(bk, t, e)
    BY <1>2, AllowedIs
  <2>3. QED
    BY <2>1, <2>2
<1>3. QED
  BY <1>1, <1>2

LEMMA Upserting ==
  ASSUME NEW p \in Profiles, NEW db, NEW bk, Inv(p, db, bk),
         NEW t \in {"monitor_locations", "location_health", "monitor_health"}, NEW e, NEW r,
         WellFormed(t, e), Keeps(p, r, e), NEW reply,
         reply = Reported(Upsert(db, t, r)) \/ reply = Lite!Wrapped(Upsert(db, t, r))
  PROVE  /\ reply.value = Nothing
         /\ reply.error = "none" => Inv(p, reply.db, PutIn(bk, t, e))
         /\ reply.error # "none" => reply.db = db
         /\ reply.error = "none" <=> BookUpserts(bk, t, e)
<1>1. CASE BookUpserts(bk, t, e)
  BY <1>1, Upserted DEF Reported, Lite!Wrapped, Answer
<1>2. CASE ~ BookUpserts(bk, t, e)
  <2>1. \/ reply = [db |-> db, value |-> Nothing, error |-> "conflict"]
        \/ reply = [db |-> db, value |-> Nothing, error |-> "constraint"]
    <3>1. Upsert(db, t, r) = Violation(db)
      BY <1>2, UpsertRefused
    <3>2. QED
      BY <3>1, AnswerReports
  <2>2. QED
    BY <1>2, <2>1
<1>3. QED
  BY <1>1, <1>2

\* The errors of both are those of the constraints.
LEMMA UpsertErrors ==
  ASSUME NEW db, NEW t, NEW r
  PROVE  /\ Reported(Upsert(db, t, r)).error \in {"none", "conflict"}
         /\ Lite!Wrapped(Upsert(db, t, r)).error \in {"none", "constraint"}
BY InsertErrors DEF Reported, Lite!Wrapped

BookSkips(bk, t, e, keys) == \E key \in keys : \E o \in bk[t] : SameKey(o, e, key)

LEMMA Skipping ==
  ASSUME NEW p \in Profiles, NEW db, NEW bk, Inv(p, db, bk), NEW t \in TableNames, NEW e, NEW r,
         WellFormed(t, e), Keeps(p, r, e), NEW keys, keys \subseteq KeysOf(t),
         NEW reply, reply = Counted(InsertOrSkip(db, t, r, keys))
  PROVE  /\ reply.error \in {"none", "conflict"} /\ reply.value \in BOOLEAN
         /\ reply.error # "none" => ~ reply.value
         /\ reply.value => Inv(p, reply.db, PutIn(bk, t, e))
         /\ ~ reply.value => reply.db = db
         /\ (t = "check_runs" => \A o \in bk[t] : Told(p, o.scheduled_for, e.scheduled_for))
              => /\ reply.value <=> BookAllows(bk, t, e)
                 /\ reply.error = "none" <=> (BookSkips(bk, t, e, keys) \/ BookAllows(bk, t, e))
<1>2. e \in Entities(t)
  BY DEF WellFormed
<1>3. CASE \E key \in keys : Clash(db[t], r, key)
  <2>1. reply = [db |-> db, value |-> FALSE, error |-> "none"]
    <3>1. InsertOrSkip(db, t, r, keys) = Answer(db, {})
      BY <1>3 DEF InsertOrSkip
    <3>2. QED
      BY <3>1, AnswerReports
  <2>2. ~ Allowed(db, t, r)
    BY <1>3 DEF Allowed, KeysOf
  <2>3. ASSUME t = "check_runs" => \A o \in bk[t] : Told(p, o.scheduled_for, e.scheduled_for)
        PROVE  BookSkips(bk, t, e, keys) /\ ~ BookAllows(bk, t, e)
    <3>1. PICK key \in keys : Clash(db[t], r, key)
      BY <1>3
    <3>2. \E o \in bk[t] : SameKey(o, e, key)
      BY <1>2, <2>3, <3>1, ClashIs
    <3>3. QED
      BY <2>2, <2>3, <3>2, AllowedIs DEF BookSkips
  <2>4. QED
    BY <2>1, <2>3
<1>4. CASE ~ \E key \in keys : Clash(db[t], r, key)
  <2>1. reply = Counted(Insert(db, t, r))
    BY <1>4 DEF InsertOrSkip
  <2>2. ~ BookSkips(bk, t, e, keys)
    BY <1>2, <1>4, ClashIs DEF BookSkips
  <2>3. CASE Allowed(db, t, r)
    <3>1. reply = [db |-> PutRow(db, t, r), value |-> TRUE, error |-> "none"]
      <4>1. Insert(db, t, r) = Answer(PutRow(db, t, r), {r})
        BY <2>3, Inserted
      <4>2. QED
        BY <2>1, <4>1, AnswerReports
    <3>2. Inv(p, PutRow(db, t, r), PutIn(bk, t, e)) /\ BookAllows(bk, t, e)
      BY <2>3, Inserted, AllowedIs
    <3>3. QED
      BY <3>1, <3>2
  <2>4. CASE ~ Allowed(db, t, r)
    <3>1. reply = [db |-> db, value |-> FALSE, error |-> "conflict"]
      <4>1. Insert(db, t, r) = Violation(db)
        BY <2>4 DEF Insert
      <4>2. QED
        BY <2>1, <4>1, AnswerReports
    <3>2. (t = "check_runs" => \A o \in bk[t] : Told(p, o.scheduled_for, e.scheduled_for)) => ~ BookAllows(bk, t, e)
      BY <2>4, AllowedIs
    <3>3. QED
      BY <2>2, <3>1, <3>2
  <2>5. QED
    BY <2>3, <2>4
<1>5. QED
  BY <1>3, <1>4

-----------------------------------------------------------------------------
\* The answer of a method that updates rows, and what such an update leaves.
Replied(db, t, hit, new) ==
  [db |-> [db EXCEPT ![t] = (@ \ hit) \cup new], value |-> Cardinality(new) = 1, error |-> "none"]

LEMMA RepliedNone ==
  ASSUME NEW p, NEW db, NEW bk, StoreInv(p, db, bk), NEW t \in TableNames
  PROVE  Replied(db, t, {}, {}) = [db |-> db, value |-> FALSE, error |-> "none"]
<1>1. [db EXCEPT ![t] = (@ \ {}) \cup {}] = db
  BY DEF StoreInv
<1>2. (Cardinality({}) = 1) = FALSE
  BY FS_EmptySet
<1>3. QED
  BY <1>1, <1>2 DEF Replied

LEMMA PutInstead ==
  ASSUME NEW p, NEW db, NEW bk, StoreInv(p, db, bk), NEW t \in TableNames, NEW r \in db[t], NEW s,
         Equal(r, s, PrimaryKey(t))
  PROVE  [db EXCEPT ![t] = (@ \ {r}) \cup {s}] = PutRow(db, t, s)
<1>1. {o \in db[t] : ~ Equal(o, s, PrimaryKey(t))} = db[t] \ {r}
  <2>1. \A o \in db[t] : Equal(o, s, PrimaryKey(t)) => Equal(o, r, PrimaryKey(t))
    BY DEF Equal
  <2>2. \A o \in db[t] : Equal(o, r, PrimaryKey(t)) => o = r
    BY DEF StoreInv
  <2>3. QED
    BY <2>1, <2>2
<1>2. QED
  BY <1>1 DEF PutRow

LEMMA RepliedOne ==
  ASSUME NEW p, NEW db, NEW bk, StoreInv(p, db, bk), NEW t \in TableNames, NEW r \in db[t], NEW s,
         Equal(r, s, PrimaryKey(t))
  PROVE  Replied(db, t, {r}, {s}) = [db |-> PutRow(db, t, s), value |-> TRUE, error |-> "none"]
<1>1. (Cardinality({s}) = 1) = TRUE
  BY FS_Singleton
<1>2. [db EXCEPT ![t] = (@ \ {r}) \cup {s}] = PutRow(db, t, s)
  BY PutInstead
<1>3. QED
  BY <1>1, <1>2 DEF Replied

\* The row of an entity, and the entity of a row.
LEMMA RowOf ==
  ASSUME NEW p \in Profiles, NEW db, NEW bk, Inv(p, db, bk), NEW t \in TableNames
  PROVE  /\ \A r \in db[t] : \E e \in bk[t] : Keeps(p, r, e)
         /\ \A e \in bk[t] : \E r \in db[t] : Keeps(p, r, e)
         /\ \A e \in bk[t] : e \in Entities(t) /\ WellFormed(t, e) /\ Valid(t, e) /\ IsRecord(e) /\
                DOMAIN e = Columns(t)
         /\ \A e, f \in bk[t] : Equal(e, f, PrimaryKey(t)) => e = f
         /\ \A r, s \in db[t] : Equal(r, s, PrimaryKey(t)) => r = s
         /\ \A r, s \in db[t] : \A e \in bk[t] : Keeps(p, r, e) /\ Keeps(p, s, e) => r = s
         /\ \A r \in db[t] : \A e, f \in bk[t] : Keeps(p, r, e) /\ Keeps(p, r, f) => e = f
<1>1. /\ \A r \in db[t] : \E e \in bk[t] : Keeps(p, r, e)
      /\ \A e \in bk[t] : \E r \in db[t] : Keeps(p, r, e)
      /\ \A r, s \in db[t] : Equal(r, s, PrimaryKey(t)) => r = s
  BY DEF Inv, StoreInv
<1>2. \A e \in bk[t] : e \in Entities(t) /\ WellFormed(t, e) /\ Valid(t, e)
  BY DEF Inv, BookInv, WellFormed
<1>3. \A e \in bk[t] : IsRecord(e) /\ DOMAIN e = Columns(t)
  BY <1>2, EntityColumns
<1>4. \A e, f \in bk[t] : Equal(e, f, PrimaryKey(t)) => e = f
  <2>1. \A e, f \in bk[t] : SameKey(e, f, PrimaryKey(t)) => e = f
    BY DEF Inv, BookInv, KeysOf
  <2>2. "recovered_at" \notin PrimaryKey(t)
    BY PrimaryColumns DEF PlainColumns
  <2>3. QED
    BY <2>1, <2>2 DEF SameKey
<1>5. \A e, f : Equal(e, e, PrimaryKey(t))
  BY DEF Equal
<1>6. \A r, s \in db[t] : \A e \in bk[t] : Keeps(p, r, e) /\ Keeps(p, s, e) => r = s
  BY <1>1, <1>2, <1>5, SamePrimary
<1>7. \A r \in db[t] : \A e, f \in bk[t] : Keeps(p, r, e) /\ Keeps(p, r, f) => e = f
  BY <1>2, <1>4, <1>5, SamePrimary
<1>8. QED
  BY <1>1, <1>2, <1>3, <1>4, <1>6, <1>7

\* A row and an entity that are changed alike in some columns.
LEMMA KeepsChanged ==
  ASSUME NEW p, NEW r, NEW e, Keeps(p, r, e), NEW s, NEW f, IsRecord(s), DOMAIN s = DOMAIN r, DOMAIN f = DOMAIN e,
         \A c \in DOMAIN e : (s[c] = r[c] /\ f[c] = e[c]) \/ (c # "probe_json" /\ s[c] = In(p, c, f[c]))
  PROVE  Keeps(p, s, f)
<1>1. \A c \in DOMAIN e \ {"probe_json"} : s[c] = In(p, c, f[c])
  BY DEF Keeps
<1>2. "probe_json" \in DOMAIN e => s["probe_json"] = r["probe_json"] /\ f["probe_json"] = e["probe_json"]
  OBVIOUS
<1>3. QED
  BY <1>1, <1>2 DEF Keeps

-----------------------------------------------------------------------------
\* How statements compare instants: SQLite most of them with julianday, but the
\* schedule as text.
RowAtMost(p, a, b) == IF p = "lite" THEN Lite!Julian(a) <= Lite!Julian(b) ELSE a <= b
RowSooner(p, a, b) == IF p = "lite" THEN Lite!TextBefore(a, b) ELSE a < b

LEMMA AtMostIs ==
  ASSUME NEW p \in Profiles, NEW s \in Nat, NEW t \in Nat, s = t \/ s + Milli <= t \/ t + Milli <= s
  PROVE  RowAtMost(p, Moment(p, s), Moment(p, t)) <=> s <= t
<1>1. s # Nothing /\ t # Nothing
  BY NoSentinel
<1>2. Milli \in Nat \ {0}
  BY Units DEF Milli
<1>3. CASE p = "lite"
  <2>1. /\ Lite!Julian(Lite!FormatTime(s)) \in Nat /\ Lite!Julian(Lite!FormatTime(t)) \in Nat
        /\ s <= t => Lite!Julian(Lite!FormatTime(s)) <= Lite!Julian(Lite!FormatTime(t))
        /\ t + Milli <= s => Lite!Julian(Lite!FormatTime(t)) < Lite!Julian(Lite!FormatTime(s))
    BY JulianOrder
  <2>2. QED
    BY <1>1, <1>2, <1>3, <2>1 DEF RowAtMost, Moment
<1>4. CASE p = "pg"
  <2>1. /\ Pg!FormatTime(s) \in Nat /\ Pg!FormatTime(t) \in Nat
        /\ s <= t => Pg!FormatTime(s) <= Pg!FormatTime(t)
        /\ t + Milli <= s => Pg!FormatTime(t) < Pg!FormatTime(s)
    BY PgTimes
  <2>2. QED
    BY <1>1, <1>2, <1>4, <2>1 DEF RowAtMost, Moment
<1>5. QED
  BY <1>3, <1>4 DEF Profiles

LEMMA SoonerIs ==
  ASSUME NEW p \in Profiles, NEW s \in Nat, NEW t \in Nat,
         s = t \/ s + Base * Milli <= t \/ t + Base * Milli <= s
  PROVE  RowSooner(p, Moment(p, s), Moment(p, t)) <=> s < t
<1>1. s # Nothing /\ t # Nothing
  BY NoSentinel
<1>2. Base * Milli = Lite!Second /\ Lite!Second \in Nat \ {0} /\ Milli \in Nat /\ Milli <= Lite!Second
  <2>1. Base * Milli = Lite!Second /\ Lite!Second \in Nat \ {0} /\ Milli \in Nat /\ Base \in Nat /\ Base >= 2
    BY Units DEF Milli
  <2>2. Milli * 1 <= Milli * Base /\ Milli * Base = Base * Milli
    BY <2>1
  <2>3. QED
    BY <2>1, <2>2
<1>3. CASE p = "lite"
  BY <1>1, <1>2, <1>3, TextOrder DEF RowSooner, Moment
<1>4. CASE p = "pg"
  <2>1. /\ Pg!FormatTime(s) \in Nat /\ Pg!FormatTime(t) \in Nat
        /\ s + Milli <= t => Pg!FormatTime(s) < Pg!FormatTime(t)
        /\ t <= s => Pg!FormatTime(t) <= Pg!FormatTime(s)
    BY PgTimes
  <2>2. QED
    BY <1>1, <1>2, <1>4, <2>1 DEF RowSooner, Moment
<1>5. QED
  BY <1>3, <1>4 DEF Profiles

LEMMA NatIsSome == ASSUME NEW v \in Nat PROVE v # Nothing /\ v # Null
BY NoSentinel

LEMMA IntIsSome == ASSUME NEW v \in Int PROVE v # Nothing /\ v # Null
BY NoSentinel

LEMMA StringIsSome == ASSUME NEW v \in STRING PROVE v # Nothing /\ v # Null
BY NoSentinel

-----------------------------------------------------------------------------
\* The methods that update rows, in either profile.
AdvanceCall(p, db, id, next, at) ==
  IF p = "lite" THEN Lite!MonitorsAdvanceNextRun(db, id, next, at) ELSE Pg!MonitorsAdvanceNextRun(db, id, next, at)
HeartbeatCall(p, db, id, generation, version, capabilities, at) ==
  IF p = "lite" THEN Lite!AgentsUpdateHeartbeat(db, id, generation, version, capabilities, at)
                ELSE Pg!AgentsUpdateHeartbeat(db, id, generation, version, capabilities, at)
ResolveCall(p, db, id, agent, hash, at) ==
  IF p = "lite" THEN Lite!RunsResolve(db, id, agent, hash, at) ELSE Pg!RunsResolve(db, id, agent, hash, at)
ClaimStaleCall(p, db, monitor, location, stale, at) ==
  IF p = "lite" THEN Lite!HealthClaimStale(db, monitor, location, stale, at)
                ELSE Pg!HealthClaimStale(db, monitor, location, stale, at)

\* The rows that each of them changes, and what it makes of them.
AdvanceHit(p, db, id, next) == {r \in db["monitors"] : r.id = id /\ RowSooner(p, r.next_run_at, Moment(p, next))}
AdvanceNew(p, hit, next, at) == {[r EXCEPT !.next_run_at = Moment(p, next), !.updated_at = Moment(p, at)] : r \in hit}

HeartbeatHit(db, id, generation) ==
  {r \in db["agents"] : r.id = id /\ r.revoked_at = Null /\ r.credential_generation = generation}
HeartbeatNew(p, hit, version, capabilities, at) ==
  {[r EXCEPT !.version = version, !.capabilities_json = capabilities, !.last_seen_at = Moment(p, at)] : r \in hit}

ResolveHit(db, id, agent, hash) ==
  {r \in db["check_runs"] : /\ r.id = id /\ r.status = "leased"
                            /\ r.lease_agent_id = agent /\ r.lease_token_hash = hash}
ResolveNew(p, hit, at) == {[r EXCEPT !.status = "resolved", !.resolved_at = Moment(p, at)] : r \in hit}

ClaimStaleHit(p, db, monitor, location, stale, at) ==
  {r \in db["location_health"] : /\ r.monitor_id = monitor /\ r.location_id = location
                                 /\ r.stale_at # Null /\ r.stale_at = Moment(p, stale)
                                 /\ RowAtMost(p, r.stale_at, Moment(p, at))}
ClaimStaleNew(p, hit, at) ==
  {[r EXCEPT !.state = "unknown", !.consecutive_failures = 0, !.consecutive_successes = 0,
             !.last_transition_at = Moment(p, at), !.stale_at = Null] : r \in hit}

LEMMA AffectedReplies ==
  ASSUME NEW db, NEW new
  PROVE  /\ Lite!Affected([db |-> db, rows |-> new, error |-> "none"])
              = [db |-> db, value |-> Cardinality(new) = 1, error |-> "none"]
         /\ Pg!Affected([db |-> db, rows |-> new, error |-> "none"])
              = [db |-> db, value |-> Cardinality(new) = 1, error |-> "none"]
BY SameCardinality DEF Lite!Affected, Lite!Reply, Lite!RepositoryError, Pg!Affected, Pg!Reply, Pg!RepositoryError

LEMMA AdvanceIs ==
  ASSUME NEW p \in Profiles, NEW db, NEW id, NEW next \in Nat, NEW at \in Nat,
         NEW hit, hit = AdvanceHit(p, db, id, next), NEW new, new = AdvanceNew(p, hit, next, at)
  PROVE  AdvanceCall(p, db, id, next, at) = Replied(db, "monitors", hit, new)
<1>1. next # Nothing /\ at # Nothing
  BY NatIsSome, IntIsSome, StringIsSome
<1>2. CASE p = "lite"
  <2>1. AdvanceCall(p, db, id, next, at)
          = Lite!Affected([db |-> [db EXCEPT !["monitors"] = (@ \ hit) \cup new], rows |-> new, error |-> "none"])
    BY <1>1, <1>2, ZenonT(60) DEF AdvanceCall, Lite!MonitorsAdvanceNextRun, Lite!AdvanceMonitorSchedule, Lite!Update,
        Lite!Answer, Moment, AdvanceHit, AdvanceNew, RowSooner
  <2>2. QED
    BY <2>1, AffectedReplies DEF Replied
<1>3. CASE p = "pg"
  <2>1. AdvanceCall(p, db, id, next, at)
          = Pg!Affected([db |-> [db EXCEPT !["monitors"] = (@ \ hit) \cup new], rows |-> new, error |-> "none"])
    BY <1>1, <1>3, ZenonT(60) DEF AdvanceCall, Pg!MonitorsAdvanceNextRun, Pg!AdvanceMonitorSchedule, Pg!Update,
        Pg!Answer, Moment, AdvanceHit, AdvanceNew, RowSooner
  <2>2. QED
    BY <2>1, AffectedReplies DEF Replied
<1>4. QED
  BY <1>2, <1>3 DEF Profiles

LEMMA HeartbeatIs ==
  ASSUME NEW p \in Profiles, NEW db, NEW id, NEW generation, NEW version \in STRING, NEW capabilities,
         NEW at \in Nat,
         NEW hit, hit = HeartbeatHit(db, id, generation), NEW new, new = HeartbeatNew(p, hit, version, capabilities, at)
  PROVE  HeartbeatCall(p, db, id, generation, version, capabilities, at) = Replied(db, "agents", hit, new)
<1>1. version # Nothing /\ at # Nothing
  BY NatIsSome, IntIsSome, StringIsSome
<1>2. CASE p = "lite"
  <2>1. HeartbeatCall(p, db, id, generation, version, capabilities, at)
          = Lite!Affected([db |-> [db EXCEPT !["agents"] = (@ \ hit) \cup new], rows |-> new, error |-> "none"])
    BY <1>1, <1>2, ZenonT(60) DEF HeartbeatCall, Lite!AgentsUpdateHeartbeat, Lite!UpdateAgentHeartbeat, Lite!Update,
        Lite!Answer, Lite!NullableString, Lite!NullableTimeValue, Moment, HeartbeatHit, HeartbeatNew
  <2>2. QED
    BY <2>1, AffectedReplies DEF Replied
<1>3. CASE p = "pg"
  <2>1. HeartbeatCall(p, db, id, generation, version, capabilities, at)
          = Pg!Affected([db |-> [db EXCEPT !["agents"] = (@ \ hit) \cup new], rows |-> new, error |-> "none"])
    BY <1>1, <1>3, ZenonT(60) DEF HeartbeatCall, Pg!AgentsUpdateHeartbeat, Pg!UpdateAgentHeartbeat, Pg!Update,
        Pg!Answer, Pg!NullableString, Pg!NullableTimeValue, Moment, HeartbeatHit, HeartbeatNew
  <2>2. QED
    BY <2>1, AffectedReplies DEF Replied
<1>4. QED
  BY <1>2, <1>3 DEF Profiles

LEMMA ResolveIs ==
  ASSUME NEW p \in Profiles, NEW db, NEW id, NEW agent, agent # Nothing, NEW hash, NEW at \in Nat,
         NEW hit, hit = ResolveHit(db, id, agent, hash), NEW new, new = ResolveNew(p, hit, at)
  PROVE  ResolveCall(p, db, id, agent, hash, at) = Replied(db, "check_runs", hit, new)
<1>1. at # Nothing
  BY NatIsSome, IntIsSome, StringIsSome
<1>2. CASE p = "lite"
  <2>1. ResolveCall(p, db, id, agent, hash, at)
          = Lite!Affected(Lite!ResolveCheckRun(db, [id |-> id, agent_id |-> agent, lease_token_hash |-> hash,
                                                resolved_at |-> Moment(p, at)]))
    BY <1>1, <1>2 DEF ResolveCall, Lite!RunsResolve, Lite!NullableString, Lite!NullableTimeValue, Moment
  <2>2. ASSUME NEW x
        PROVE  Lite!ResolveCheckRun(db, [id |-> id, agent_id |-> agent, lease_token_hash |-> hash, resolved_at |-> x])
                 = [db |-> [db EXCEPT !["check_runs"] =
                              (@ \ hit) \cup {[r EXCEPT !.status = "resolved", !.resolved_at = x] : r \in hit}],
                    rows |-> {[r EXCEPT !.status = "resolved", !.resolved_at = x] : r \in hit}, error |-> "none"]
    BY ZenonT(60) DEF Lite!ResolveCheckRun, Lite!Update, Lite!Answer, ResolveHit
  <2>3. ResolveCall(p, db, id, agent, hash, at)
          = Lite!Affected([db |-> [db EXCEPT !["check_runs"] = (@ \ hit) \cup new], rows |-> new, error |-> "none"])
    BY <2>1, <2>2 DEF ResolveNew
  <2>4. QED
    BY <2>3, AffectedReplies DEF Replied
<1>3. CASE p = "pg"
  <2>1. ResolveCall(p, db, id, agent, hash, at)
          = Pg!Affected(Pg!ResolveCheckRun(db, [id |-> id, agent_id |-> agent, lease_token_hash |-> hash,
                                                resolved_at |-> Moment(p, at)]))
    BY <1>1, <1>3 DEF ResolveCall, Pg!RunsResolve, Pg!NullableString, Pg!NullableTimeValue, Moment
  <2>2. ASSUME NEW x
        PROVE  Pg!ResolveCheckRun(db, [id |-> id, agent_id |-> agent, lease_token_hash |-> hash, resolved_at |-> x])
                 = [db |-> [db EXCEPT !["check_runs"] =
                              (@ \ hit) \cup {[r EXCEPT !.status = "resolved", !.resolved_at = x] : r \in hit}],
                    rows |-> {[r EXCEPT !.status = "resolved", !.resolved_at = x] : r \in hit}, error |-> "none"]
    BY ZenonT(60) DEF Pg!ResolveCheckRun, Pg!Update, Pg!Answer, ResolveHit
  <2>3. ResolveCall(p, db, id, agent, hash, at)
          = Pg!Affected([db |-> [db EXCEPT !["check_runs"] = (@ \ hit) \cup new], rows |-> new, error |-> "none"])
    BY <2>1, <2>2 DEF ResolveNew
  <2>4. QED
    BY <2>3, AffectedReplies DEF Replied
<1>4. QED
  BY <1>2, <1>3 DEF Profiles

LEMMA ClaimStaleIs ==
  ASSUME NEW p \in Profiles, NEW db, NEW monitor, NEW location, NEW stale \in Nat, NEW at \in Nat,
         NEW hit, hit = ClaimStaleHit(p, db, monitor, location, stale, at), NEW new, new = ClaimStaleNew(p, hit, at)
  PROVE  ClaimStaleCall(p, db, monitor, location, stale, at) = Replied(db, "location_health", hit, new)
<1>1. stale # Nothing /\ at # Nothing
  BY NatIsSome, IntIsSome, StringIsSome
<1>2. CASE p = "lite"
  <2>1. ClaimStaleCall(p, db, monitor, location, stale, at)
          = Lite!Affected([db |-> [db EXCEPT !["location_health"] = (@ \ hit) \cup new], rows |-> new,
              error |-> "none"])
    BY <1>1, <1>2, ZenonT(60) DEF ClaimStaleCall, Lite!HealthClaimStale, Lite!ClaimStaleLocationHealth, Lite!Update,
        Lite!Answer, Lite!NullableTimeValue, Moment, ClaimStaleHit, ClaimStaleNew, RowAtMost
  <2>2. QED
    BY <2>1, AffectedReplies DEF Replied
<1>3. CASE p = "pg"
  <2>1. ClaimStaleCall(p, db, monitor, location, stale, at)
          = Pg!Affected([db |-> [db EXCEPT !["location_health"] = (@ \ hit) \cup new], rows |-> new, error |-> "none"])
    BY <1>1, <1>3, ZenonT(60) DEF ClaimStaleCall, Pg!HealthClaimStale, Pg!ClaimStaleLocationHealth, Pg!Update,
        Pg!Answer, Pg!NullableTimeValue, Moment, ClaimStaleHit, ClaimStaleNew, RowAtMost
  <2>2. QED
    BY <2>1, AffectedReplies DEF Replied
<1>4. QED
  BY <1>2, <1>3 DEF Profiles

-----------------------------------------------------------------------------
\* Rows that are chosen by their primary key: one, or none.
LEMMA HitOne ==
  ASSUME NEW p \in Profiles, NEW db, NEW bk, Inv(p, db, bk), NEW t \in TableNames, NEW hit, hit \subseteq db[t],
         \A r, s \in hit : Equal(r, s, PrimaryKey(t)), hit # {}
  PROVE  \E r \in db[t] : \E e \in bk[t] : hit = {r} /\ Keeps(p, r, e)
<1>1. PICK r \in hit : TRUE
  OBVIOUS
<1>2. hit = {r}
  BY <1>1, RowOf
<1>3. QED
  BY <1>1, <1>2, RowOf

LEMMA ReplacedOne ==
  ASSUME NEW p \in Profiles, NEW db, NEW bk, Inv(p, db, bk), NEW t \in TableNames, NEW r \in db[t], NEW e \in bk[t],
         Keeps(p, r, e), NEW s, NEW f, WellFormed(t, f), Valid(t, f), Keeps(p, s, f),
         \A key \in KeysOf(t) : \A c \in key : f[c] = e[c] \/ (c = "recovered_at" /\ f.recovered_at # Nothing)
  PROVE  /\ Inv(p, PutRow(db, t, s), PutIn(bk, t, f))
         /\ Equal(r, s, PrimaryKey(t))
         /\ Replied(db, t, {r}, {s}) = [db |-> PutRow(db, t, s), value |-> TRUE, error |-> "none"]
<1>1. Inv(p, PutRow(db, t, s), PutIn(bk, t, f)) /\ Equal(e, f, PrimaryKey(t))
  BY Changed
<1>2. e \in Entities(t) /\ f \in Entities(t)
  BY RowOf DEF WellFormed
<1>3. Equal(r, s, PrimaryKey(t))
  BY <1>1, <1>2, SamePrimary
<1>4. StoreInv(p, db, bk)
  BY DEF Inv
<1>5. QED
  BY <1>1, <1>3, <1>4, RepliedOne

\* A plain column of a row is that of its entity, and so is an instant.
LEMMA ColumnsKept ==
  ASSUME NEW p \in Profiles, NEW db, NEW bk, Inv(p, db, bk), NEW t \in TableNames, NEW r, NEW e \in bk[t], Keeps(p, r,
      e)
  PROVE  /\ \A c \in (PlainColumns \ {"probe_json"}) \cap Columns(t) : r[c] = e[c]
         /\ \A c \in TimeColumns \cap Columns(t) : r[c] = Moment(p, e[c])
         /\ \A c \in NullableColumns \cap Columns(t) : r[c] = IF e[c] = Nothing THEN Null ELSE e[c]
         /\ IsRecord(r) /\ DOMAIN r = Columns(t) /\ DOMAIN e = Columns(t)
<1>1. IsRecord(r) /\ DOMAIN r = Columns(t) /\ DOMAIN e = Columns(t)
  BY RowOf DEF Keeps
<1>2. \A c \in NullableColumns \cap Columns(t) : r[c] = In(p, c, e[c])
  BY <1>1 DEF Keeps, NullableColumns
<1>3. QED
  BY <1>1, <1>2, KeepsPlain, KeepsTime, InNullable

LEMMA LocationHealthTyped ==
  ASSUME NEW f, IsRecord(f), DOMAIN f = Columns("location_health"), f.monitor_id \in Int, f.location_id \in Int,
         f.state \in States, f.consecutive_failures \in 0 .. MaxUint16, f.consecutive_successes \in 0 .. MaxUint16,
         f.last_observed_at \in Maybe(Nat), f.last_transition_at \in Maybe(Nat), f.stale_at \in Maybe(Nat)
  PROVE  f \in Entities("location_health")
<1>1. DOMAIN f = {"monitor_id", "location_id", "state", "consecutive_failures", "consecutive_successes",
                  "last_observed_at", "last_transition_at", "stale_at"}
  BY DEF Columns
<1>2. f \in [monitor_id : Int, location_id : Int, state : States, consecutive_failures : 0 .. MaxUint16,
             consecutive_successes : 0 .. MaxUint16, last_observed_at : Maybe(Nat), last_transition_at : Maybe(Nat),
             stale_at : Maybe(Nat)]
  BY <1>1 DEF IsRecord
<1>3. QED
  BY <1>2 DEF Entities

-----------------------------------------------------------------------------
\* What each of them reports, and what it leaves, in terms of the book.
AdvancedTo(m, next, at) == [m EXCEPT !.next_run_at = next, !.updated_at = at]

AdvancingAnswers(p, db, bk, id, next, at, reply) ==
  /\ reply.error = "none" /\ reply.value \in BOOLEAN
  /\ ~ reply.value => reply.db = db
  /\ reply.value <=> \E m \in bk["monitors"] : m.id = id /\ RowSooner(p, Moment(p, m.next_run_at), Moment(p, next))
  /\ \A m \in bk["monitors"] : reply.value /\ m.id = id
       => Inv(p, reply.db, PutIn(bk, "monitors", AdvancedTo(m, next, at)))

LEMMA Advancing ==
  ASSUME NEW p \in Profiles, NEW db, NEW bk, Inv(p, db, bk), NEW id, NEW next \in Nat, NEW at \in Nat,
         NEW reply, reply = AdvanceCall(p, db, id, next, at)
  PROVE  AdvancingAnswers(p, db, bk, id, next, at, reply)
<1> DEFINE t == "monitors"
           hit == AdvanceHit(p, db, id, next)
           new == AdvanceNew(p, hit, next, at)
           Can(m) == m.id = id /\ RowSooner(p, Moment(p, m.next_run_at), Moment(p, next))
<1>1. t \in TableNames /\ PrimaryKey(t) = {"id"}
  BY DEF TableNames, PrimaryKey
<1>2. reply = Replied(db, t, hit, new)
  BY AdvanceIs
<1>3. \A r \in db[t] : \A e \in bk[t] : Keeps(p, r, e) => r.id = e.id /\ r.next_run_at = Moment(p, e.next_run_at)
  <2>1. "id" \in (PlainColumns \ {"probe_json"}) \cap Columns(t) /\ "next_run_at" \in TimeColumns \cap Columns(t)
    BY DEF PlainColumns, TimeColumns, Columns
  <2>2. QED
    BY <1>1, <2>1, ColumnsKept
<1>4. \A r \in db[t] : \A e \in bk[t] : Keeps(p, r, e) => (r \in hit <=> Can(e))
  BY <1>3 DEF AdvanceHit
<1>5. hit \subseteq db[t] /\ \A r, s \in hit : Equal(r, s, PrimaryKey(t))
  BY <1>1 DEF AdvanceHit, Equal
<1>6. CASE hit = {}
  <2>1. new = {}
    BY <1>6 DEF AdvanceNew
  <2>2. reply = [db |-> db, value |-> FALSE, error |-> "none"]
    BY <1>1, <1>2, <1>6, <2>1, RepliedNone DEF Inv
  <2>3. ~ \E m \in bk[t] : Can(m)
    BY <1>1, <1>4, <1>6, RowOf
  <2>4. QED
    BY <2>2, <2>3 DEF AdvancingAnswers
<1>7. CASE hit # {}
  <2>1. PICK r \in db[t], e \in bk[t] : hit = {r} /\ Keeps(p, r, e)
    BY <1>1, <1>5, <1>7, HitOne
  <2> DEFINE s == [r EXCEPT !.next_run_at = Moment(p, next), !.updated_at = Moment(p, at)]
             f == AdvancedTo(e, next, at)
  <2>2. new = {s}
    BY <2>1 DEF AdvanceNew
  <2>3. /\ e \in Entities(t) /\ WellFormed(t, e) /\ Valid(t, e) /\ IsRecord(e) /\ DOMAIN e = Columns(t)
        /\ IsRecord(r) /\ DOMAIN r = Columns(t)
    BY <1>1, <2>1, RowOf DEF Keeps
  <2>4. Keeps(p, s, f)
    <3>1. IsRecord(s) /\ DOMAIN s = DOMAIN r /\ DOMAIN f = DOMAIN e
      BY <2>3 DEF IsRecord, Columns, AdvancedTo
    <3>2. \A c \in DOMAIN e : (s[c] = r[c] /\ f[c] = e[c]) \/ (c # "probe_json" /\ s[c] = In(p, c, f[c]))
      BY <2>3, InTime DEF AdvancedTo, Columns, TimeColumns
    <3>3. QED
      BY <2>1, <3>1, <3>2, KeepsChanged
  <2>5. WellFormed(t, f) /\ Valid(t, f)
    BY <2>3 DEF WellFormed, Valid, WholeMilliseconds, Entities, AdvancedTo
  <2>6. \A key \in KeysOf(t) : \A c \in key : f[c] = e[c] \/ (c = "recovered_at" /\ f.recovered_at # Nothing)
    BY <2>3 DEF KeysOf, Unique, PrimaryKey, AdvancedTo, Columns
  <2> HIDE DEF s, f
  <2>7. reply = [db |-> PutRow(db, t, s), value |-> TRUE, error |-> "none"] /\ Inv(p, PutRow(db, t, s), PutIn(bk, t, f))
    <3>1. /\ Inv(p, PutRow(db, t, s), PutIn(bk, t, f))
          /\ Replied(db, t, {r}, {s}) = [db |-> PutRow(db, t, s), value |-> TRUE, error |-> "none"]
      BY <1>1, <2>1, <2>4, <2>5, <2>6, ReplacedOne
    <3>2. QED
      BY <1>2, <2>1, <2>2, <3>1
  <2>8. Can(e)
    BY <1>4, <2>1
  <2>9. \A m \in bk[t] : m.id = id => m = e
    BY <1>1, <2>8, RowOf DEF Equal
  <2>10. QED
    BY <2>7, <2>8, <2>9 DEF f, AdvancingAnswers
<1>8. QED
  BY <1>6, <1>7

Beaten(a, version, capabilities, at) ==
  [a EXCEPT !.version = version, !.capabilities_json = capabilities, !.last_seen_at = at]

BeatingAnswers(p, db, bk, id, generation, version, capabilities, at, reply) ==
  /\ reply.error = "none" /\ reply.value \in BOOLEAN
  /\ ~ reply.value => reply.db = db
  /\ reply.value <=> \E e \in bk["agents"] : e.id = id /\ e.revoked_at = Nothing /\ e.credential_generation = generation
  /\ \A e \in bk["agents"] : reply.value /\ e.id = id
       => Inv(p, reply.db, PutIn(bk, "agents", Beaten(e, version, capabilities, at)))

LEMMA Beating ==
  ASSUME NEW p \in Profiles, NEW db, NEW bk, Inv(p, db, bk), NEW id, NEW generation,
         NEW version \in STRING, NEW capabilities \in (SUBSET STRING) \ {{}}, NEW at \in Nat,
         NEW reply, reply = HeartbeatCall(p, db, id, generation, version, capabilities, at)
  PROVE  BeatingAnswers(p, db, bk, id, generation, version, capabilities, at, reply)
<1> DEFINE t == "agents"
           hit == HeartbeatHit(db, id, generation)
           new == HeartbeatNew(p, hit, version, capabilities, at)
           Can(e) == e.id = id /\ e.revoked_at = Nothing /\ e.credential_generation = generation
<1>1. t \in TableNames /\ PrimaryKey(t) = {"id"}
  BY DEF TableNames, PrimaryKey
<1>2. reply = Replied(db, t, hit, new)
  BY HeartbeatIs
<1>3. \A r \in db[t] : \A e \in bk[t] : Keeps(p, r, e) =>
         r.id = e.id /\ r.credential_generation = e.credential_generation /\ r.revoked_at = Moment(p, e.revoked_at)
  <2>1. /\ {"id", "credential_generation"} \subseteq (PlainColumns \ {"probe_json"}) \cap Columns(t)
        /\ "revoked_at" \in TimeColumns \cap Columns(t)
    BY DEF PlainColumns, TimeColumns, Columns
  <2>2. QED
    BY <1>1, <2>1, ColumnsKept
<1>4. \A r \in db[t] : \A e \in bk[t] : Keeps(p, r, e) => (r \in hit <=> Can(e))
  <2>1. ASSUME NEW r \in db[t], NEW e \in bk[t], Keeps(p, r, e) PROVE r \in hit <=> Can(e)
    <3>1. e.revoked_at \in Maybe(Nat)
      BY <1>1, <2>1, RowOf DEF Entities
    <3>2. Moment(p, e.revoked_at) = Null <=> e.revoked_at = Nothing
      BY <3>1, SameMoment
    <3>3. QED
      BY <1>3, <2>1, <3>2 DEF HeartbeatHit
  <2>2. QED
    BY <2>1
<1>5. hit \subseteq db[t] /\ \A r, s \in hit : Equal(r, s, PrimaryKey(t))
  BY <1>1 DEF HeartbeatHit, Equal
<1>6. CASE hit = {}
  <2>1. new = {}
    BY <1>6 DEF HeartbeatNew
  <2>2. reply = [db |-> db, value |-> FALSE, error |-> "none"]
    BY <1>1, <1>2, <1>6, <2>1, RepliedNone DEF Inv
  <2>3. ~ \E e \in bk[t] : Can(e)
    BY <1>1, <1>4, <1>6, RowOf
  <2>4. QED
    BY <2>2, <2>3 DEF BeatingAnswers
<1>7. CASE hit # {}
  <2>1. PICK r \in db[t], e \in bk[t] : hit = {r} /\ Keeps(p, r, e)
    BY <1>1, <1>5, <1>7, HitOne
  <2> DEFINE s == [r EXCEPT !.version = version, !.capabilities_json = capabilities, !.last_seen_at = Moment(p, at)]
             f == Beaten(e, version, capabilities, at)
  <2>2. new = {s}
    BY <2>1 DEF HeartbeatNew
  <2>3. /\ e \in Entities(t) /\ WellFormed(t, e) /\ Valid(t, e) /\ IsRecord(e) /\ DOMAIN e = Columns(t)
        /\ IsRecord(r) /\ DOMAIN r = Columns(t)
    BY <1>1, <2>1, RowOf DEF Keeps
  <2>4. Keeps(p, s, f)
    <3>1. IsRecord(s) /\ DOMAIN s = DOMAIN r /\ DOMAIN f = DOMAIN e
      BY <2>3 DEF IsRecord, Columns, Beaten
    <3>2. \A c \in DOMAIN e \ {"version", "capabilities_json", "last_seen_at"} : s[c] = r[c] /\ f[c] = e[c]
      BY <2>3 DEF Beaten
    <3>3. /\ In(p, "version", version) = version
          /\ In(p, "capabilities_json", capabilities) = capabilities
          /\ In(p, "last_seen_at", at) = Moment(p, at)
      BY InTime, InPlain, NatIsSome, InNullable, StringIsSome DEF TimeColumns, PlainColumns, NullableColumns
    <3>4. /\ s["version"] = version /\ f["version"] = version
          /\ s["capabilities_json"] = capabilities /\ f["capabilities_json"] = capabilities
          /\ s["last_seen_at"] = Moment(p, at) /\ f["last_seen_at"] = at
      BY <2>3 DEF Columns, Beaten
    <3>5. \A c \in DOMAIN e : (s[c] = r[c] /\ f[c] = e[c]) \/ (c # "probe_json" /\ s[c] = In(p, c, f[c]))
      BY <3>2, <3>3, <3>4
    <3>6. QED
      BY <2>1, <3>1, <3>5, KeepsChanged
  <2>5. WellFormed(t, f) /\ Valid(t, f)
    BY <2>3 DEF WellFormed, Valid, Entities, Beaten, Maybe
  <2>6. \A key \in KeysOf(t) : \A c \in key : f[c] = e[c] \/ (c = "recovered_at" /\ f.recovered_at # Nothing)
    BY <2>3 DEF KeysOf, Unique, PrimaryKey, Beaten, Columns
  <2> HIDE DEF s, f
  <2>7. reply = [db |-> PutRow(db, t, s), value |-> TRUE, error |-> "none"] /\ Inv(p, PutRow(db, t, s), PutIn(bk, t, f))
    <3>1. /\ Inv(p, PutRow(db, t, s), PutIn(bk, t, f))
          /\ Replied(db, t, {r}, {s}) = [db |-> PutRow(db, t, s), value |-> TRUE, error |-> "none"]
      BY <1>1, <2>1, <2>4, <2>5, <2>6, ReplacedOne
    <3>2. QED
      BY <1>2, <2>1, <2>2, <3>1
  <2>8. Can(e)
    BY <1>4, <2>1
  <2>9. \A o \in bk[t] : o.id = id => o = e
    BY <1>1, <2>8, RowOf DEF Equal
  <2>10. QED
    BY <2>7, <2>8, <2>9 DEF f, BeatingAnswers
<1>8. QED
  BY <1>6, <1>7

Resolved(r, at) == [r EXCEPT !.status = "resolved", !.resolved_at = at]

ResolvingAnswers(p, db, bk, id, agent, hash, at, reply) ==
  /\ reply.error = "none" /\ reply.value \in BOOLEAN
  /\ ~ reply.value => reply.db = db
  /\ reply.value <=> \E e \in bk["check_runs"] : /\ e.id = id /\ e.status = "leased"
                                               /\ e.lease_agent_id = agent /\ e.lease_token_hash = hash
  /\ \A e \in bk["check_runs"] : reply.value /\ e.id = id
       => Inv(p, reply.db, PutIn(bk, "check_runs", Resolved(e, at)))

LEMMA Resolving ==
  ASSUME NEW p \in Profiles, NEW db, NEW bk, Inv(p, db, bk), NEW id, NEW agent \in Int, NEW hash \in Nat,
         NEW at \in Nat,
         NEW reply, reply = ResolveCall(p, db, id, agent, hash, at)
  PROVE  ResolvingAnswers(p, db, bk, id, agent, hash, at, reply)
<1> DEFINE t == "check_runs"
           hit == ResolveHit(db, id, agent, hash)
           new == ResolveNew(p, hit, at)
           Can(e) == e.id = id /\ e.status = "leased" /\ e.lease_agent_id = agent /\ e.lease_token_hash = hash
<1>1. t \in TableNames /\ PrimaryKey(t) = {"id"}
  BY DEF TableNames, PrimaryKey
<1>2. reply = Replied(db, t, hit, new)
  BY ResolveIs, IntIsSome
<1>3. \A r \in db[t] : \A e \in bk[t] : Keeps(p, r, e) =>
         /\ r.id = e.id /\ r.status = e.status
         /\ r.lease_agent_id = IF e.lease_agent_id = Nothing THEN Null ELSE e.lease_agent_id
         /\ r.lease_token_hash = IF e.lease_token_hash = Nothing THEN Null ELSE e.lease_token_hash
  <2>1. /\ {"id", "status"} \subseteq (PlainColumns \ {"probe_json"}) \cap Columns(t)
        /\ {"lease_agent_id", "lease_token_hash"} \subseteq NullableColumns \cap Columns(t)
    BY DEF PlainColumns, NullableColumns, Columns
  <2>2. QED
    BY <1>1, <2>1, ColumnsKept
<1>4. \A r \in db[t] : \A e \in bk[t] : Keeps(p, r, e) => (r \in hit <=> Can(e))
  <2>1. ASSUME NEW r \in db[t], NEW e \in bk[t], Keeps(p, r, e) PROVE r \in hit <=> Can(e)
    <3>1. agent # Null /\ agent # Nothing /\ hash # Null /\ hash # Nothing
      BY NatIsSome, IntIsSome
    <3>2. QED
      BY <1>3, <2>1, <3>1 DEF ResolveHit
  <2>2. QED
    BY <2>1
<1>5. hit \subseteq db[t] /\ \A r, s \in hit : Equal(r, s, PrimaryKey(t))
  BY <1>1 DEF ResolveHit, Equal
<1>6. CASE hit = {}
  <2>1. new = {}
    BY <1>6 DEF ResolveNew
  <2>2. reply = [db |-> db, value |-> FALSE, error |-> "none"]
    BY <1>1, <1>2, <1>6, <2>1, RepliedNone DEF Inv
  <2>3. ~ \E e \in bk[t] : Can(e)
    BY <1>1, <1>4, <1>6, RowOf
  <2>4. QED
    BY <2>2, <2>3 DEF ResolvingAnswers
<1>7. CASE hit # {}
  <2>1. PICK r \in db[t], e \in bk[t] : hit = {r} /\ Keeps(p, r, e)
    BY <1>1, <1>5, <1>7, HitOne
  <2> DEFINE s == [r EXCEPT !.status = "resolved", !.resolved_at = Moment(p, at)]
             f == Resolved(e, at)
  <2>2. new = {s}
    BY <2>1 DEF ResolveNew
  <2>3. /\ e \in Entities(t) /\ WellFormed(t, e) /\ Valid(t, e) /\ IsRecord(e) /\ DOMAIN e = Columns(t)
        /\ IsRecord(r) /\ DOMAIN r = Columns(t)
    BY <1>1, <2>1, RowOf DEF Keeps
  <2>4. Keeps(p, s, f)
    <3>1. IsRecord(s) /\ DOMAIN s = DOMAIN r /\ DOMAIN f = DOMAIN e
      BY <2>3 DEF IsRecord, Columns, Resolved
    <3>2. \A c \in DOMAIN e \ {"status", "resolved_at"} : s[c] = r[c] /\ f[c] = e[c]
      BY <2>3 DEF Resolved
    <3>3. /\ In(p, "status", "resolved") = "resolved"
          /\ In(p, "resolved_at", at) = Moment(p, at)
      BY InTime, InPlain, NatIsSome DEF TimeColumns, PlainColumns
    <3>4. /\ s["status"] = "resolved" /\ f["status"] = "resolved"
          /\ s["resolved_at"] = Moment(p, at) /\ f["resolved_at"] = at
      BY <2>3 DEF Columns, Resolved
    <3>5. \A c \in DOMAIN e : (s[c] = r[c] /\ f[c] = e[c]) \/ (c # "probe_json" /\ s[c] = In(p, c, f[c]))
      BY <3>2, <3>3, <3>4
    <3>6. QED
      BY <2>1, <3>1, <3>5, KeepsChanged
  <2>5. WellFormed(t, f) /\ Valid(t, f)
    BY <2>3 DEF WellFormed, Valid, Entities, Resolved, Maybe
  <2>6. \A key \in KeysOf(t) : \A c \in key : f[c] = e[c] \/ (c = "recovered_at" /\ f.recovered_at # Nothing)
    BY <2>3 DEF KeysOf, Unique, PrimaryKey, Resolved, Columns
  <2> HIDE DEF s, f
  <2>7. reply = [db |-> PutRow(db, t, s), value |-> TRUE, error |-> "none"] /\ Inv(p, PutRow(db, t, s), PutIn(bk, t, f))
    <3>1. /\ Inv(p, PutRow(db, t, s), PutIn(bk, t, f))
          /\ Replied(db, t, {r}, {s}) = [db |-> PutRow(db, t, s), value |-> TRUE, error |-> "none"]
      BY <1>1, <2>1, <2>4, <2>5, <2>6, ReplacedOne
    <3>2. QED
      BY <1>2, <2>1, <2>2, <3>1
  <2>8. Can(e)
    BY <1>4, <2>1
  <2>9. \A o \in bk[t] : o.id = id => o = e
    BY <1>1, <2>8, RowOf DEF Equal
  <2>10. QED
    BY <2>7, <2>8, <2>9 DEF f, ResolvingAnswers
<1>8. QED
  BY <1>6, <1>7

Staled(h, at) ==
  [h EXCEPT !.state = "unknown", !.consecutive_failures = 0, !.consecutive_successes = 0,
            !.last_transition_at = at, !.stale_at = Nothing]

StaleClaimingAnswers(p, db, bk, monitor, location, stale, at, reply) ==
  /\ reply.error = "none" /\ reply.value \in BOOLEAN
  /\ ~ reply.value => reply.db = db
  /\ reply.value <=> \E e \in bk["location_health"] : /\ e.monitor_id = monitor /\ e.location_id = location /\
                                                             e.stale_at # Nothing
                                                    /\ Moment(p, e.stale_at) = Moment(p, stale)
                                                    /\ RowAtMost(p, Moment(p, e.stale_at), Moment(p, at))
  /\ \A e \in bk["location_health"] : reply.value /\ e.monitor_id = monitor /\ e.location_id = location
       => Inv(p, reply.db, PutIn(bk, "location_health", Staled(e, at)))

LEMMA StaleClaiming ==
  ASSUME NEW p \in Profiles, NEW db, NEW bk, Inv(p, db, bk), NEW monitor, NEW location, NEW stale \in Nat,
         NEW at \in Nat,
         NEW reply, reply = ClaimStaleCall(p, db, monitor, location, stale, at)
  PROVE  StaleClaimingAnswers(p, db, bk, monitor, location, stale, at, reply)
<1> DEFINE t == "location_health"
           hit == ClaimStaleHit(p, db, monitor, location, stale, at)
           new == ClaimStaleNew(p, hit, at)
           Can(e) == /\ e.monitor_id = monitor /\ e.location_id = location /\ e.stale_at # Nothing
                                                  /\ Moment(p, e.stale_at) = Moment(p, stale)
                                                  /\ RowAtMost(p, Moment(p, e.stale_at), Moment(p, at))
<1>1. t \in TableNames /\ PrimaryKey(t) = {"monitor_id", "location_id"}
  BY DEF TableNames, PrimaryKey
<1>2. reply = Replied(db, t, hit, new)
  BY ClaimStaleIs
<1>3. \A r \in db[t] : \A e \in bk[t] : Keeps(p, r, e) =>
         r.monitor_id = e.monitor_id /\ r.location_id = e.location_id /\ r.stale_at = Moment(p, e.stale_at)
  <2>1. /\ {"monitor_id", "location_id"} \subseteq (PlainColumns \ {"probe_json"}) \cap Columns(t)
        /\ "stale_at" \in TimeColumns \cap Columns(t)
    BY DEF PlainColumns, TimeColumns, Columns
  <2>2. QED
    BY <1>1, <2>1, ColumnsKept
<1>4. \A r \in db[t] : \A e \in bk[t] : Keeps(p, r, e) => (r \in hit <=> Can(e))
  <2>1. ASSUME NEW r \in db[t], NEW e \in bk[t], Keeps(p, r, e) PROVE r \in hit <=> Can(e)
    <3>1. e.stale_at \in Maybe(Nat)
      BY <1>1, <2>1, RowOf DEF Entities
    <3>2. Moment(p, e.stale_at) = Null <=> e.stale_at = Nothing
      BY <3>1, SameMoment
    <3>3. QED
      BY <1>3, <2>1, <3>2 DEF ClaimStaleHit
  <2>2. QED
    BY <2>1
<1>5. hit \subseteq db[t] /\ \A r, s \in hit : Equal(r, s, PrimaryKey(t))
  BY <1>1 DEF ClaimStaleHit, Equal
<1>6. CASE hit = {}
  <2>1. new = {}
    BY <1>6 DEF ClaimStaleNew
  <2>2. reply = [db |-> db, value |-> FALSE, error |-> "none"]
    BY <1>1, <1>2, <1>6, <2>1, RepliedNone DEF Inv
  <2>3. ~ \E e \in bk[t] : Can(e)
    BY <1>1, <1>4, <1>6, RowOf
  <2>4. QED
    BY <2>2, <2>3 DEF StaleClaimingAnswers
<1>7. CASE hit # {}
  <2>1. PICK r \in db[t], e \in bk[t] : hit = {r} /\ Keeps(p, r, e)
    BY <1>1, <1>5, <1>7, HitOne
  <2> DEFINE s == [r EXCEPT !.state = "unknown", !.consecutive_failures = 0, !.consecutive_successes = 0,
                        !.last_transition_at = Moment(p, at), !.stale_at = Null]
             f == Staled(e, at)
  <2>2. new = {s}
    BY <2>1 DEF ClaimStaleNew
  <2>3. /\ e \in Entities(t) /\ WellFormed(t, e) /\ Valid(t, e) /\ IsRecord(e) /\ DOMAIN e = Columns(t)
        /\ IsRecord(r) /\ DOMAIN r = Columns(t)
    BY <1>1, <2>1, RowOf DEF Keeps
  <2>4. Keeps(p, s, f)
    <3>1. IsRecord(s) /\ DOMAIN s = DOMAIN r /\ DOMAIN f = DOMAIN e
      BY <2>3 DEF IsRecord, Columns, Staled
    <3>2. \A c \in DOMAIN e \ {"state", "consecutive_failures", "consecutive_successes", "last_transition_at",
              "stale_at"} : s[c] = r[c] /\ f[c] = e[c]
      BY <2>3 DEF Staled
    <3>3. /\ In(p, "state", "unknown") = "unknown"
          /\ In(p, "consecutive_failures", 0) = 0
          /\ In(p, "consecutive_successes", 0) = 0
          /\ In(p, "last_transition_at", at) = Moment(p, at)
          /\ In(p, "stale_at", Nothing) = Null
      BY InTime, InPlain, NatIsSome DEF TimeColumns, PlainColumns, Moment
    <3>4. /\ s["state"] = "unknown" /\ f["state"] = "unknown"
          /\ s["consecutive_failures"] = 0 /\ f["consecutive_failures"] = 0
          /\ s["consecutive_successes"] = 0 /\ f["consecutive_successes"] = 0
          /\ s["last_transition_at"] = Moment(p, at) /\ f["last_transition_at"] = at
          /\ s["stale_at"] = Null /\ f["stale_at"] = Nothing
      BY <2>3 DEF Columns, Staled
    <3>5. \A c \in DOMAIN e : (s[c] = r[c] /\ f[c] = e[c]) \/ (c # "probe_json" /\ s[c] = In(p, c, f[c]))
      BY <3>2, <3>3, <3>4
    <3>6. QED
      BY <2>1, <3>1, <3>5, KeepsChanged
  <2>5. WellFormed(t, f) /\ Valid(t, f)
    <3>1. 0 \in 0 .. MaxUint16
      BY ConformanceAssumption
    <3>2. IsRecord(f) /\ DOMAIN f = Columns(t)
      BY <2>3 DEF IsRecord, Staled
    <3>3. /\ f.monitor_id = e.monitor_id /\ f.location_id = e.location_id /\ f.last_observed_at = e.last_observed_at
          /\ f.state = "unknown" /\ f.consecutive_failures = 0 /\ f.consecutive_successes = 0
          /\ f.last_transition_at = at /\ f.stale_at = Nothing
      BY <2>3 DEF Staled, Columns
    <3>4. e.monitor_id \in Int /\ e.location_id \in Int /\ e.last_observed_at \in Maybe(Nat)
      BY <2>3 DEF Entities
    <3> HIDE DEF f
    <3>5. f \in Entities(t)
      <4>1. /\ f.monitor_id \in Int /\ f.location_id \in Int /\ f.state \in States
            /\ f.consecutive_failures \in 0 .. MaxUint16 /\ f.consecutive_successes \in 0 .. MaxUint16
        BY <3>1, <3>3, <3>4 DEF States
      <4>2. /\ f.last_observed_at \in Maybe(Nat) /\ f.last_transition_at \in Maybe(Nat)
            /\ f.stale_at \in Maybe(Nat)
        BY <3>3, <3>4 DEF Maybe
      <4>3. QED
        BY <3>2, <4>1, <4>2, LocationHealthTyped
    <3>6. QED
      BY <3>5 DEF WellFormed, Valid
  <2>6. \A key \in KeysOf(t) : \A c \in key : f[c] = e[c] \/ (c = "recovered_at" /\ f.recovered_at # Nothing)
    BY <2>3 DEF KeysOf, Unique, PrimaryKey, Staled, Columns
  <2> HIDE DEF s, f
  <2>7. reply = [db |-> PutRow(db, t, s), value |-> TRUE, error |-> "none"] /\ Inv(p, PutRow(db, t, s), PutIn(bk, t, f))
    <3>1. /\ Inv(p, PutRow(db, t, s), PutIn(bk, t, f))
          /\ Replied(db, t, {r}, {s}) = [db |-> PutRow(db, t, s), value |-> TRUE, error |-> "none"]
      BY <1>1, <2>1, <2>4, <2>5, <2>6, ReplacedOne
    <3>2. QED
      BY <1>2, <2>1, <2>2, <3>1
  <2>8. Can(e)
    BY <1>4, <2>1
  <2>9. \A o \in bk[t] : o.monitor_id = monitor /\ o.location_id = location => o = e
    BY <1>1, <2>8, RowOf DEF Equal
  <2>10. QED
    BY <2>7, <2>8, <2>9 DEF f, StaleClaimingAnswers
<1>8. QED
  BY <1>6, <1>7

-----------------------------------------------------------------------------
\* From columns back to values, as the mappings of both profiles convert them.
Parsed(p, v) ==
  IF v = Null THEN Nothing ELSE IF p = "lite" THEN Lite!ParseTime(v) ELSE Pg!ParseTime(v)

Flagged(p, v) == IF p = "lite" THEN Lite!IntBool(v) ELSE v

Out(p, c, v) ==
  IF c \in TimeColumns THEN Parsed(p, v)
  ELSE IF c \in {"interval_ms", "timeout_ms", "latency_ms"} THEN v * Milli
  ELSE IF c \in {"enabled", "required"} THEN Flagged(p, v)
  ELSE IF c = "body_assertion_passed" THEN IF v = Null THEN Nothing ELSE Flagged(p, v)
  ELSE IF c = "outcome" THEN Lite!Passed(v)
  ELSE IF c \in NullableColumns THEN IF v = Null THEN Nothing ELSE v
  ELSE v

KindOf(r) == IF "kind" \in DOMAIN r THEN r["kind"] ELSE r["probe_kind"]

Mapped(p, r) ==
  [c \in DOMAIN r |-> IF c = "probe_json" THEN Lite!DecodeProbe(KindOf(r), r[c]) ELSE Out(p, c, r[c])]

\* What is read back of an entity.
Back(p, e) == IF p = "lite" THEN Stored(e) ELSE Rounded(Stored(e), Micro)

Kept(p, v) == IF v = Nothing THEN Nothing ELSE IF p = "lite" THEN v ELSE v - (v % Micro)

LEMMA StateIsSome == ASSUME NEW v \in States PROVE v # Nothing /\ v # Null
BY SentinelAssumption

LEMMA BooleanIsSome == ASSUME NEW v \in BOOLEAN PROVE v # Nothing /\ v # Null
BY SentinelAssumption

LEMMA ParsedMoment ==
  ASSUME NEW p \in Profiles, NEW v \in Maybe(Nat)
  PROVE  Parsed(p, Moment(p, v)) = Kept(p, v)
<1>1. CASE v = Nothing
  BY <1>1 DEF Parsed, Moment, Kept
<1>2. CASE v \in Nat
  <2>1. v # Nothing
    BY <1>2, NatIsSome
  <2>2. CASE p = "lite"
    <3>1. Lite!ParseTime(Lite!FormatTime(v)) = v /\ Lite!FormatTime(v) # Null
      BY <1>2, LiteTimes
    <3>2. QED
      BY <2>1, <2>2, <3>1 DEF Parsed, Moment, Kept
  <2>3. CASE p = "pg"
    <3>1. Pg!ParseTime(Pg!FormatTime(v)) = v - (v % Micro) /\ Pg!FormatTime(v) # Null
      BY <1>2, PgTimes
    <3>2. QED
      BY <2>1, <2>3, <3>1 DEF Parsed, Moment, Kept
  <2>4. QED
    BY <2>2, <2>3 DEF Profiles
<1>3. QED
  BY <1>1, <1>2 DEF Maybe

LEMMA FlaggedFlag ==
  ASSUME NEW p, NEW b \in BOOLEAN
  PROVE  Flagged(p, Flag(p, b)) = b /\ Flag(p, b) # Null /\ Lite!Passed(Lite!Outcome(b)) = b
<1>1. b # Null
  BY BooleanIsSome
<1>2. 0 # Null /\ 1 # Null
  BY NatIsSome
<1>3. CASE b = TRUE
  <2>1. Lite!BoolInt(b) = 1 /\ Lite!IntBool(1) = TRUE /\ Lite!Outcome(b) = "passed" /\ Lite!Passed("passed") = TRUE
    BY <1>3 DEF Lite!BoolInt, Lite!IntBool, Lite!Outcome, Lite!Passed
  <2>2. QED
    BY <1>1, <1>2, <1>3, <2>1 DEF Flagged, Flag
<1>4. CASE b = FALSE
  <2>1. Lite!BoolInt(b) = 0 /\ Lite!IntBool(0) = FALSE /\ Lite!Outcome(b) = "failed" /\ Lite!Passed("failed") = FALSE
    BY <1>4 DEF Lite!BoolInt, Lite!IntBool, Lite!Outcome, Lite!Passed
  <2>2. QED
    BY <1>1, <1>2, <1>4, <2>1 DEF Flagged, Flag
<1>5. QED
  BY <1>3, <1>4

\* The types of the columns of the entities.
LEMMA ColumnTypes ==
  ASSUME NEW t \in TableNames, NEW e, WellFormed(t, e)
  PROVE  /\ \A c \in Columns(t) \cap TimeColumns : e[c] \in Maybe(Nat)
         /\ \A c \in Columns(t) \cap {"interval_ms", "timeout_ms", "latency_ms"} : e[c] \in Nat
         /\ \A c \in Columns(t) \cap {"interval_ms", "timeout_ms"} : e[c] % Milli = 0
         /\ \A c \in Columns(t) \cap {"enabled", "required", "outcome"} : e[c] \in BOOLEAN
         /\ \A c \in Columns(t) \cap {"body_assertion_passed"} : e[c] \in Maybe(BOOLEAN)
         /\ \A c \in Columns(t) \cap NullableColumns : e[c] # Null
         /\ \A c \in Columns(t) \cap {"probe_json"} : e[c] \in ProbeJSON /\ e[c].kind = KindOf(e)
<1>0. Nothing # Null
  BY SentinelAssumption
<1>1. CASE t = "admins"
  <2>1. /\ e \in Entities(t) /\ e.created_at \in Nat
    BY <1>1 DEF WellFormed, Entities
  <2> QED
    BY <1>1, <2>1 DEF Columns, TimeColumns, NullableColumns, Maybe
<1>2. CASE t = "sessions"
  <2>1. /\ e \in Entities(t) /\ e.expires_at \in Nat /\ e.revoked_at \in Maybe(Nat)
    BY <1>2 DEF WellFormed, Entities
  <2> QED
    BY <1>2, <2>1 DEF Columns, TimeColumns, NullableColumns, Maybe
<1>3. CASE t = "locations"
  <2>1. /\ e \in Entities(t) /\ e.created_at \in Nat
    BY <1>3 DEF WellFormed, Entities
  <2> QED
    BY <1>3, <2>1 DEF Columns, TimeColumns, NullableColumns, Maybe
<1>4. CASE t = "monitors"
  <2>1. /\ e \in Entities(t) /\ e.interval_ms \in Nat /\ e.timeout_ms \in Nat
        /\ e.enabled \in BOOLEAN /\ e.next_run_at \in Nat /\ e.created_at \in Nat
        /\ e.updated_at \in Nat
        /\ e.interval_ms % Milli = 0 /\ e.timeout_ms % Milli = 0
        /\ e.probe_json \in ProbeJSON /\ e.probe_json.kind = KindOf(e)
    <3>1. e \in Entities(t) /\ DOMAIN e = Columns(t)
      BY EntityColumns DEF WellFormed
    <3>2. QED
      BY <1>4, <3>1 DEF WellFormed, Entities, WholeMilliseconds, KindOf, Columns
  <2> QED
    BY <1>4, <2>1 DEF Columns, TimeColumns, NullableColumns, Maybe
<1>5. CASE t = "monitor_locations"
  <2>1. /\ e \in Entities(t) /\ e.required \in BOOLEAN
    BY <1>5 DEF WellFormed, Entities
  <2> QED
    BY <1>5, <2>1 DEF Columns, TimeColumns, NullableColumns, Maybe
<1>6. CASE t = "agents"
  <2>1. /\ e \in Entities(t) /\ e.version \in Maybe(STRING) /\ e.last_seen_at \in Maybe(Nat)
        /\ e.revoked_at \in Maybe(Nat) /\ e.created_at \in Nat
    BY <1>6 DEF WellFormed, Entities
  <2>2. e.version # Null
    BY <2>1, <1>0, NatIsSome, IntIsSome, StringIsSome, StateIsSome DEF Maybe
  <2> QED
    BY <1>6, <2>1, <2>2 DEF Columns, TimeColumns, NullableColumns, Maybe
<1>7. CASE t = "agent_enrollment_tokens"
  <2>1. /\ e \in Entities(t) /\ e.expires_at \in Nat /\ e.consumed_at \in Maybe(Nat)
        /\ e.created_at \in Nat
    BY <1>7 DEF WellFormed, Entities
  <2> QED
    BY <1>7, <2>1 DEF Columns, TimeColumns, NullableColumns, Maybe
<1>8. CASE t = "check_runs"
  <2>1. /\ e \in Entities(t) /\ e.scheduled_for \in Nat /\ e.timeout_ms \in Nat
        /\ e.lease_agent_id \in Maybe(Int) /\ e.lease_token_hash \in Maybe(Nat)
        /\ e.lease_expires_at \in Maybe(Nat) /\ e.resolved_at \in Maybe(Nat)
        /\ e.timeout_ms % Milli = 0
        /\ e.probe_json \in ProbeJSON /\ e.probe_json.kind = KindOf(e)
    <3>1. e \in Entities(t) /\ DOMAIN e = Columns(t)
      BY EntityColumns DEF WellFormed
    <3>2. QED
      BY <1>8, <3>1 DEF WellFormed, Entities, WholeMilliseconds, KindOf, Columns
  <2>2. e.lease_agent_id # Null /\ e.lease_token_hash # Null
    BY <2>1, <1>0, NatIsSome, IntIsSome, StringIsSome, StateIsSome DEF Maybe
  <2> QED
    BY <1>8, <2>1, <2>2 DEF Columns, TimeColumns, NullableColumns, Maybe
<1>9. CASE t = "probe_results"
  <2>1. /\ e \in Entities(t) /\ e.started_at \in Nat /\ e.finished_at \in Nat
        /\ e.received_at \in Nat /\ e.outcome \in BOOLEAN /\ e.latency_ms \in Nat
        /\ e.observed_status \in Maybe(Nat) /\ e.body_assertion_passed \in Maybe(BOOLEAN)
        /\ e.error_code \in Maybe(STRING) /\ e.tls_not_after \in Maybe(Nat)
    BY <1>9 DEF WellFormed, Entities
  <2>2. e.observed_status # Null /\ e.error_code # Null
    BY <2>1, <1>0, NatIsSome, IntIsSome, StringIsSome, StateIsSome DEF Maybe
  <2> QED
    BY <1>9, <2>1, <2>2 DEF Columns, TimeColumns, NullableColumns, Maybe
<1>10. CASE t = "location_health"
  <2>1. /\ e \in Entities(t) /\ e.last_observed_at \in Maybe(Nat)
        /\ e.last_transition_at \in Maybe(Nat) /\ e.stale_at \in Maybe(Nat)
    BY <1>10 DEF WellFormed, Entities
  <2> QED
    BY <1>10, <2>1 DEF Columns, TimeColumns, NullableColumns, Maybe
<1>11. CASE t = "monitor_health"
  <2>1. /\ e \in Entities(t) /\ e.last_transition_at \in Maybe(Nat)
    BY <1>11 DEF WellFormed, Entities
  <2> QED
    BY <1>11, <2>1 DEF Columns, TimeColumns, NullableColumns, Maybe
<1>12. CASE t = "incidents"
  <2>1. /\ e \in Entities(t) /\ e.opened_at \in Nat /\ e.last_transition_at \in Nat
        /\ e.recovered_at \in Maybe(Nat)
    BY <1>12 DEF WellFormed, Entities
  <2> QED
    BY <1>12, <2>1 DEF Columns, TimeColumns, NullableColumns, Maybe
<1>13. CASE t = "incident_events"
  <2>1. /\ e \in Entities(t) /\ e.previous_state \in Maybe(States) /\ e.created_at \in Nat
    BY <1>13 DEF WellFormed, Entities
  <2>2. e.previous_state # Null
    BY <2>1, <1>0, NatIsSome, IntIsSome, StringIsSome, StateIsSome DEF Maybe
  <2> QED
    BY <1>13, <2>1, <2>2 DEF Columns, TimeColumns, NullableColumns, Maybe
<1> QED
  BY <1>1, <1>2, <1>3, <1>4, <1>5, <1>6, <1>7, <1>8, <1>9, <1>10, <1>11, <1>12, <1>13 DEF TableNames

BackColumn(p, c, v) == IF c \in TimeColumns THEN Kept(p, v) ELSE IF c = "latency_ms" THEN v - (v % Milli) ELSE v

LEMMA BackColumns ==
  ASSUME NEW p \in Profiles, NEW e, IsRecord(e)
  PROVE  /\ Back(p, e) = [c \in DOMAIN e |-> BackColumn(p, c, e[c])]
         /\ IsRecord(Back(p, e)) /\ DOMAIN Back(p, e) = DOMAIN e
<1> DEFINE s == Stored(e)
<1>1. "latency_ms" \notin TimeColumns
  BY DEF TimeColumns
<1>2. /\ IsRecord(s) /\ DOMAIN s = DOMAIN e
      /\ \A c \in DOMAIN e : s[c] = IF c = "latency_ms" THEN e[c] - (e[c] % Milli) ELSE e[c]
  BY DEF Stored, IsRecord
<1> HIDE DEF s
<1>3. CASE p = "lite"
  <2>1. Back(p, e) = s
    BY <1>3 DEF Back, s
  <2>2. \A c \in DOMAIN e : s[c] = BackColumn(p, c, e[c])
    BY <1>1, <1>2, <1>3 DEF BackColumn, Kept
  <2>3. s = [c \in DOMAIN e |-> BackColumn(p, c, e[c])]
    BY <1>2, <2>2 DEF IsRecord
  <2>4. QED
    BY <1>2, <2>1, <2>3
<1>4. CASE p = "pg"
  <2>1. Back(p, e) = [c \in DOMAIN s |-> IF c \in TimeColumns /\ s[c] # Nothing THEN s[c] - (s[c] % Micro) ELSE s[c]]
    BY <1>4 DEF Back, s, Rounded
  <2>2. \A c \in DOMAIN e : (IF c \in TimeColumns /\
            s[c] # Nothing THEN s[c] - (s[c] % Micro) ELSE s[c]) = BackColumn(p, c, e[c])
    BY <1>1, <1>2, <1>4 DEF BackColumn, Kept
  <2>3. QED
    BY <1>2, <2>1, <2>2 DEF IsRecord
<1>5. QED
  BY <1>3, <1>4 DEF Profiles

\* The row of a well-formed entity is mapped back to the entity.
LEMMA MappedIs ==
  ASSUME NEW p \in Profiles, NEW t \in TableNames, NEW e, WellFormed(t, e), NEW r, Keeps(p, r, e)
  PROVE  Mapped(p, r) = Back(p, e)
<1>1. IsRecord(e) /\ DOMAIN e = Columns(t) /\ DOMAIN r = DOMAIN e
  BY EntityColumns DEF WellFormed, Keeps
<1>2. \A c \in DOMAIN e \ {"probe_json"} : r[c] = In(p, c, e[c])
  BY DEF Keeps
<1>3. ASSUME NEW c \in DOMAIN e PROVE Mapped(p, r)[c] = BackColumn(p, c, e[c])
  <2>0. c \in Columns(t) /\ (c # "probe_json" => Mapped(p, r)[c] = Out(p, c, r[c]) /\ r[c] = In(p, c, e[c]))
    BY <1>1, <1>2, <1>3 DEF Mapped
  <2>1. CASE c \in TimeColumns
    <3>1. c # "probe_json" /\ e[c] \in Maybe(Nat)
      BY <2>0, <2>1, ColumnTypes DEF TimeColumns
    <3>2. Out(p, c, Moment(p, e[c])) = Kept(p, e[c]) /\ In(p, c, e[c]) = Moment(p, e[c])
      BY <2>1, <3>1, ParsedMoment, InTime DEF Out
    <3>3. QED
      BY <2>0, <2>1, <3>1, <3>2 DEF BackColumn
  <2>2. CASE c \in {"interval_ms", "timeout_ms", "latency_ms"}
    <3>1. c # "probe_json" /\ c \notin TimeColumns /\ e[c] \in Nat
      BY <2>0, <2>2, ColumnTypes DEF TimeColumns
    <3>2. c # "latency_ms" => e[c] % Milli = 0
      BY <2>0, <2>2, ColumnTypes
    <3>3. Milli \in Nat \ {0}
      BY Units DEF Milli
    <3>4. (e[c] \div Milli) * Milli = e[c] - (e[c] % Milli)
      <4>1. ASSUME NEW v \in Nat PROVE (v \div Milli) * Milli = v - (v % Milli)
        BY <3>3, Divides
      <4>2. QED
        BY <3>1, <4>1
    <3>5. Out(p, c, r[c]) = (e[c] \div Milli) * Milli
      BY <2>0, <2>2, <3>1 DEF Out, In
    <3>6. BackColumn(p, c, e[c]) = e[c] - (e[c] % Milli)
      BY <2>2, <3>1, <3>2 DEF BackColumn
    <3>7. QED
      BY <2>0, <3>1, <3>4, <3>5, <3>6
  <2>3. CASE c \in {"enabled", "required", "outcome"}
    <3>1. c # "probe_json" /\ c \notin TimeColumns /\ e[c] \in BOOLEAN /\ c # "latency_ms"
      BY <2>0, <2>3, ColumnTypes DEF TimeColumns
    <3>2. Out(p, c, r[c]) = e[c]
      BY <2>0, <2>3, <3>1, FlaggedFlag DEF Out, In
    <3>3. QED
      BY <2>0, <3>1, <3>2 DEF BackColumn
  <2>4. CASE c = "body_assertion_passed"
    <3>1. c # "probe_json" /\ c \notin TimeColumns /\ e[c] \in Maybe(BOOLEAN)
      BY <2>0, <2>4, ColumnTypes DEF TimeColumns
    <3>2. e[c] \in BOOLEAN => e[c] # Nothing /\ Flagged(p, Flag(p, e[c])) = e[c] /\ Flag(p, e[c]) # Null
      BY FlaggedFlag, BooleanIsSome
    <3>3. Out(p, c, r[c]) = e[c]
      BY <2>0, <2>4, <3>1, <3>2 DEF Out, In, Maybe
    <3>4. QED
      BY <2>0, <2>4, <3>1, <3>3 DEF BackColumn
  <2>5. CASE c \in NullableColumns
    <3>1. c # "probe_json" /\ c \notin TimeColumns /\ e[c] # Null /\
              c \notin {"latency_ms", "interval_ms", "timeout_ms"}
      BY <2>0, <2>5, ColumnTypes DEF TimeColumns, NullableColumns
    <3>2. c \notin {"enabled", "required", "outcome", "body_assertion_passed"}
      BY <2>5 DEF NullableColumns
    <3>3. r[c] = IF e[c] = Nothing THEN Null ELSE e[c]
      BY <2>0, <2>5, <3>1, InNullable
    <3>4. Out(p, c, r[c]) = e[c]
      BY <2>5, <3>1, <3>2, <3>3 DEF Out
    <3>5. QED
      BY <2>0, <3>1, <3>4 DEF BackColumn
  <2>6. CASE c = "probe_json"
    <3>1. e[c] \in ProbeJSON /\ e[c].kind = KindOf(e)
      BY <2>0, <2>6, ColumnTypes
    <3>2. KindOf(r) = KindOf(e)
      <4>1. "kind" \in PlainColumns \ {"probe_json"} /\ "probe_kind" \in PlainColumns \ {"probe_json"}
        BY DEF PlainColumns
      <4>2. "kind" \in Columns(t) \/ "probe_kind" \in Columns(t)
        BY <2>0, <2>6 DEF Columns, TableNames
      <4>3. QED
        BY <1>1, <4>1, <4>2, KeepsPlain DEF KindOf
    <3>3. r[c] = e[c] \/ (e[c].kind = "http" /\ r[c] = [e[c] EXCEPT !.kind = Nothing])
      BY <1>3, <2>6 DEF Keeps
    <3>4. ASSUME NEW j \in ProbeJSON
              PROVE [j EXCEPT !.kind = j.kind] = j /\ [[j EXCEPT !.kind = Nothing] EXCEPT !.kind = j.kind] = j
                                       /\ [j EXCEPT !.kind = Nothing].kind = Nothing
      BY DEF ProbeJSON
    <3>5. Lite!DecodeProbe(KindOf(r), r[c]) = e[c]
      <4>1. ASSUME NEW j \in ProbeJSON PROVE Lite!DecodeProbe(j.kind, j) = j
        <5>1. Lite!ProbeKind(j.kind, j) = j.kind
          BY DEF Lite!ProbeKind
        <5>2. QED
          BY <3>4, <5>1 DEF Lite!DecodeProbe
      <4>2. ASSUME NEW j \in ProbeJSON, j.kind = "http" PROVE Lite!DecodeProbe(j.kind, [j EXCEPT !.kind = Nothing]) = j
        <5>1. Lite!ProbeKind(j.kind, [j EXCEPT !.kind = Nothing]) = j.kind
          BY <3>4, <4>2 DEF Lite!ProbeKind
        <5>2. QED
          BY <3>4, <5>1 DEF Lite!DecodeProbe
      <4>3. QED
        BY <3>1, <3>2, <3>3, <4>1, <4>2
    <3>6. QED
      BY <1>1, <1>3, <2>6, <3>5 DEF BackColumn, Mapped, TimeColumns
  <2>7. CASE c \notin TimeColumns \cup {"interval_ms", "timeout_ms", "latency_ms"} \cup {"enabled", "required",
            "outcome"}
                   \cup {"body_assertion_passed", "probe_json"} \cup NullableColumns
    BY <2>0, <2>7 DEF Out, In, BackColumn
  <2>8. QED
    BY <2>1, <2>2, <2>3, <2>4, <2>5, <2>6, <2>7
<1>4. QED
  BY <1>1, <1>3, BackColumns DEF Mapped

-----------------------------------------------------------------------------
\* The mapping of each table is the conversion of its columns.

LEMMA AdminMapped ==
  ASSUME NEW r, IsRecord(r), DOMAIN r = Columns("admins"), r.created_at # Null
  PROVE  /\ [r EXCEPT !.created_at = Lite!ParseTime(@)] = Mapped("lite", r)
         /\ [r EXCEPT !.created_at = Pg!ParseTime(@)] = Mapped("pg", r)
<1>1. [r EXCEPT !.created_at = Lite!ParseTime(@)] = Mapped("lite", r)
  <2> DEFINE f == [r EXCEPT !.created_at = Lite!ParseTime(@)]
  <2>1. IsRecord(f) /\ DOMAIN f = DOMAIN r
    BY DEF IsRecord
  <2>2. \A c \in DOMAIN r \ {"created_at"} : f[c] = r[c]
    BY DEF IsRecord
  <2>3. /\ f["created_at"] = Lite!ParseTime(r["created_at"])
    BY DEF Columns
  <2> HIDE DEF f
  <2>4. ASSUME NEW c \in DOMAIN r PROVE f[c] = Mapped("lite", r)[c]
    <3>1. "lite" # "pg" /\ Lite!Milli = Milli
      BY DEF Lite!Milli, Pg!Milli, Milli
    <3>2. CASE c = "created_at"
      BY <2>3, <3>1, <3>2 DEF Mapped, Out, Parsed, TimeColumns
    <3>3. CASE c \notin {"created_at"}
      BY <2>2, <2>4, <3>3 DEF Mapped, Out, Columns, TimeColumns, NullableColumns
    <3>4. QED
      BY <3>2, <3>3
  <2>5. QED
    BY <2>1, <2>4, SameRecord, IsRecord(Mapped("lite", r)), DOMAIN Mapped("lite", r) = DOMAIN r DEF f, Mapped, IsRecord
<1>2. [r EXCEPT !.created_at = Pg!ParseTime(@)] = Mapped("pg", r)
  <2> DEFINE f == [r EXCEPT !.created_at = Pg!ParseTime(@)]
  <2>1. IsRecord(f) /\ DOMAIN f = DOMAIN r
    BY DEF IsRecord
  <2>2. \A c \in DOMAIN r \ {"created_at"} : f[c] = r[c]
    BY DEF IsRecord
  <2>3. /\ f["created_at"] = Pg!ParseTime(r["created_at"])
    BY DEF Columns
  <2> HIDE DEF f
  <2>4. ASSUME NEW c \in DOMAIN r PROVE f[c] = Mapped("pg", r)[c]
    <3>1. "lite" # "pg" /\ Pg!Milli = Milli
      BY DEF Lite!Milli, Pg!Milli, Milli
    <3>2. CASE c = "created_at"
      BY <2>3, <3>1, <3>2 DEF Mapped, Out, Parsed, TimeColumns
    <3>3. CASE c \notin {"created_at"}
      BY <2>2, <2>4, <3>3 DEF Mapped, Out, Columns, TimeColumns, NullableColumns
    <3>4. QED
      BY <3>2, <3>3
  <2>5. QED
    BY <2>1, <2>4, SameRecord, IsRecord(Mapped("pg", r)), DOMAIN Mapped("pg", r) = DOMAIN r DEF f, Mapped, IsRecord
<1>3. QED
  BY <1>1, <1>2

LEMMA SessionMapped ==
  ASSUME NEW r, IsRecord(r), DOMAIN r = Columns("sessions"), r.expires_at # Null
  PROVE  /\ [r EXCEPT !.expires_at = Lite!ParseTime(@), !.revoked_at = Lite!ParseNullableTime(@)] = Mapped("lite", r)
         /\ [r EXCEPT !.expires_at = Pg!ParseTime(@), !.revoked_at = Pg!ParseNullableTime(@)] = Mapped("pg", r)
<1>1. [r EXCEPT !.expires_at = Lite!ParseTime(@), !.revoked_at = Lite!ParseNullableTime(@)] = Mapped("lite", r)
  <2> DEFINE f == [r EXCEPT !.expires_at = Lite!ParseTime(@), !.revoked_at = Lite!ParseNullableTime(@)]
  <2>1. IsRecord(f) /\ DOMAIN f = DOMAIN r
    BY DEF IsRecord
  <2>2. \A c \in DOMAIN r \ {"expires_at", "revoked_at"} : f[c] = r[c]
    BY DEF IsRecord
  <2>3. /\ f["expires_at"] = Lite!ParseTime(r["expires_at"])
        /\ f["revoked_at"] = Lite!ParseNullableTime(r["revoked_at"])
    BY DEF Columns
  <2> HIDE DEF f
  <2>4. ASSUME NEW c \in DOMAIN r PROVE f[c] = Mapped("lite", r)[c]
    <3>1. "lite" # "pg" /\ Lite!Milli = Milli
      BY DEF Lite!Milli, Pg!Milli, Milli
    <3>2. CASE c = "expires_at"
      BY <2>3, <3>1, <3>2 DEF Mapped, Out, Parsed, TimeColumns
    <3>3. CASE c = "revoked_at"
      BY <2>3, <3>1, <3>3 DEF Mapped, Out, Parsed, TimeColumns, Lite!ParseNullableTime
    <3>4. CASE c \notin {"expires_at", "revoked_at"}
      BY <2>2, <2>4, <3>4 DEF Mapped, Out, Columns, TimeColumns, NullableColumns
    <3>5. QED
      BY <3>2, <3>3, <3>4
  <2>5. QED
    BY <2>1, <2>4, SameRecord, IsRecord(Mapped("lite", r)), DOMAIN Mapped("lite", r) = DOMAIN r DEF f, Mapped, IsRecord
<1>2. [r EXCEPT !.expires_at = Pg!ParseTime(@), !.revoked_at = Pg!ParseNullableTime(@)] = Mapped("pg", r)
  <2> DEFINE f == [r EXCEPT !.expires_at = Pg!ParseTime(@), !.revoked_at = Pg!ParseNullableTime(@)]
  <2>1. IsRecord(f) /\ DOMAIN f = DOMAIN r
    BY DEF IsRecord
  <2>2. \A c \in DOMAIN r \ {"expires_at", "revoked_at"} : f[c] = r[c]
    BY DEF IsRecord
  <2>3. /\ f["expires_at"] = Pg!ParseTime(r["expires_at"])
        /\ f["revoked_at"] = Pg!ParseNullableTime(r["revoked_at"])
    BY DEF Columns
  <2> HIDE DEF f
  <2>4. ASSUME NEW c \in DOMAIN r PROVE f[c] = Mapped("pg", r)[c]
    <3>1. "lite" # "pg" /\ Pg!Milli = Milli
      BY DEF Lite!Milli, Pg!Milli, Milli
    <3>2. CASE c = "expires_at"
      BY <2>3, <3>1, <3>2 DEF Mapped, Out, Parsed, TimeColumns
    <3>3. CASE c = "revoked_at"
      BY <2>3, <3>1, <3>3 DEF Mapped, Out, Parsed, TimeColumns, Pg!ParseNullableTime
    <3>4. CASE c \notin {"expires_at", "revoked_at"}
      BY <2>2, <2>4, <3>4 DEF Mapped, Out, Columns, TimeColumns, NullableColumns
    <3>5. QED
      BY <3>2, <3>3, <3>4
  <2>5. QED
    BY <2>1, <2>4, SameRecord, IsRecord(Mapped("pg", r)), DOMAIN Mapped("pg", r) = DOMAIN r DEF f, Mapped, IsRecord
<1>3. QED
  BY <1>1, <1>2

LEMMA LocationMapped ==
  ASSUME NEW r, IsRecord(r), DOMAIN r = Columns("locations"), r.created_at # Null
  PROVE  /\ [r EXCEPT !.created_at = Lite!ParseTime(@)] = Mapped("lite", r)
         /\ [r EXCEPT !.created_at = Pg!ParseTime(@)] = Mapped("pg", r)
<1>1. [r EXCEPT !.created_at = Lite!ParseTime(@)] = Mapped("lite", r)
  <2> DEFINE f == [r EXCEPT !.created_at = Lite!ParseTime(@)]
  <2>1. IsRecord(f) /\ DOMAIN f = DOMAIN r
    BY DEF IsRecord
  <2>2. \A c \in DOMAIN r \ {"created_at"} : f[c] = r[c]
    BY DEF IsRecord
  <2>3. /\ f["created_at"] = Lite!ParseTime(r["created_at"])
    BY DEF Columns
  <2> HIDE DEF f
  <2>4. ASSUME NEW c \in DOMAIN r PROVE f[c] = Mapped("lite", r)[c]
    <3>1. "lite" # "pg" /\ Lite!Milli = Milli
      BY DEF Lite!Milli, Pg!Milli, Milli
    <3>2. CASE c = "created_at"
      BY <2>3, <3>1, <3>2 DEF Mapped, Out, Parsed, TimeColumns
    <3>3. CASE c \notin {"created_at"}
      BY <2>2, <2>4, <3>3 DEF Mapped, Out, Columns, TimeColumns, NullableColumns
    <3>4. QED
      BY <3>2, <3>3
  <2>5. QED
    BY <2>1, <2>4, SameRecord, IsRecord(Mapped("lite", r)), DOMAIN Mapped("lite", r) = DOMAIN r DEF f, Mapped, IsRecord
<1>2. [r EXCEPT !.created_at = Pg!ParseTime(@)] = Mapped("pg", r)
  <2> DEFINE f == [r EXCEPT !.created_at = Pg!ParseTime(@)]
  <2>1. IsRecord(f) /\ DOMAIN f = DOMAIN r
    BY DEF IsRecord
  <2>2. \A c \in DOMAIN r \ {"created_at"} : f[c] = r[c]
    BY DEF IsRecord
  <2>3. /\ f["created_at"] = Pg!ParseTime(r["created_at"])
    BY DEF Columns
  <2> HIDE DEF f
  <2>4. ASSUME NEW c \in DOMAIN r PROVE f[c] = Mapped("pg", r)[c]
    <3>1. "lite" # "pg" /\ Pg!Milli = Milli
      BY DEF Lite!Milli, Pg!Milli, Milli
    <3>2. CASE c = "created_at"
      BY <2>3, <3>1, <3>2 DEF Mapped, Out, Parsed, TimeColumns
    <3>3. CASE c \notin {"created_at"}
      BY <2>2, <2>4, <3>3 DEF Mapped, Out, Columns, TimeColumns, NullableColumns
    <3>4. QED
      BY <3>2, <3>3
  <2>5. QED
    BY <2>1, <2>4, SameRecord, IsRecord(Mapped("pg", r)), DOMAIN Mapped("pg", r) = DOMAIN r DEF f, Mapped, IsRecord
<1>3. QED
  BY <1>1, <1>2

LEMMA MonitorMapped ==
  ASSUME NEW r, IsRecord(r), DOMAIN r = Columns("monitors"), r.next_run_at # Null, r.created_at # Null,
      r.updated_at # Null
  PROVE  /\ Lite!MapMonitor(r) = Mapped("lite", r)
         /\ Pg!MapMonitor(r) = Mapped("pg", r)
<1>1. Lite!MapMonitor(r) = Mapped("lite", r)
  <2> DEFINE f == Lite!MapMonitor(r)
  <2>1. IsRecord(f) /\ DOMAIN f = DOMAIN r
    BY DEF Lite!MapMonitor, IsRecord
  <2>2. \A c \in DOMAIN r \ {"interval_ms", "timeout_ms", "probe_json", "enabled", "next_run_at", "created_at",
            "updated_at"} : f[c] = r[c]
    BY DEF Lite!MapMonitor
  <2>3. /\ f["interval_ms"] = r["interval_ms"] * Lite!Milli
        /\ f["timeout_ms"] = r["timeout_ms"] * Lite!Milli
        /\ f["probe_json"] = Lite!DecodeProbe(r["kind"], r["probe_json"])
        /\ f["enabled"] = Lite!IntBool(r["enabled"])
        /\ f["next_run_at"] = Lite!ParseTime(r["next_run_at"])
        /\ f["created_at"] = Lite!ParseTime(r["created_at"])
        /\ f["updated_at"] = Lite!ParseTime(r["updated_at"])
    BY DEF Lite!MapMonitor, Columns
  <2> HIDE DEF f
  <2>4. ASSUME NEW c \in DOMAIN r PROVE f[c] = Mapped("lite", r)[c]
    <3>1. "lite" # "pg" /\ Lite!Milli = Milli
      BY DEF Lite!Milli, Pg!Milli, Milli
    <3>2. CASE c = "interval_ms"
      BY <2>3, <3>1, <3>2 DEF Mapped, Out, TimeColumns
    <3>3. CASE c = "timeout_ms"
      BY <2>3, <3>1, <3>3 DEF Mapped, Out, TimeColumns
    <3>4. CASE c = "probe_json"
      BY <2>3, <3>4 DEF Mapped, KindOf, Columns, Lite!DecodeProbe, Lite!ProbeKind
    <3>5. CASE c = "enabled"
      BY <2>3, <3>1, <3>5 DEF Mapped, Out, TimeColumns, Flagged
    <3>6. CASE c = "next_run_at"
      BY <2>3, <3>1, <3>6 DEF Mapped, Out, Parsed, TimeColumns
    <3>7. CASE c = "created_at"
      BY <2>3, <3>1, <3>7 DEF Mapped, Out, Parsed, TimeColumns
    <3>8. CASE c = "updated_at"
      BY <2>3, <3>1, <3>8 DEF Mapped, Out, Parsed, TimeColumns
    <3>9. CASE c \notin {"interval_ms", "timeout_ms", "probe_json", "enabled", "next_run_at", "created_at",
              "updated_at"}
      BY <2>2, <2>4, <3>9 DEF Mapped, Out, Columns, TimeColumns, NullableColumns
    <3>10. QED
      BY <3>2, <3>3, <3>4, <3>5, <3>6, <3>7, <3>8, <3>9
  <2>5. QED
    BY <2>1, <2>4, SameRecord, IsRecord(Mapped("lite", r)), DOMAIN Mapped("lite", r) = DOMAIN r DEF f, Mapped, IsRecord
<1>2. Pg!MapMonitor(r) = Mapped("pg", r)
  <2> DEFINE f == Pg!MapMonitor(r)
  <2>1. IsRecord(f) /\ DOMAIN f = DOMAIN r
    BY DEF Pg!MapMonitor, IsRecord
  <2>2. \A c \in DOMAIN r \ {"interval_ms", "timeout_ms", "probe_json", "enabled", "next_run_at", "created_at",
            "updated_at"} : f[c] = r[c]
    BY DEF Pg!MapMonitor
  <2>3. /\ f["interval_ms"] = r["interval_ms"] * Pg!Milli
        /\ f["timeout_ms"] = r["timeout_ms"] * Pg!Milli
        /\ f["probe_json"] = Pg!DecodeProbe(r["kind"], r["probe_json"])
        /\ f["enabled"] = r["enabled"]
        /\ f["next_run_at"] = Pg!ParseTime(r["next_run_at"])
        /\ f["created_at"] = Pg!ParseTime(r["created_at"])
        /\ f["updated_at"] = Pg!ParseTime(r["updated_at"])
    BY DEF Pg!MapMonitor, Columns
  <2> HIDE DEF f
  <2>4. ASSUME NEW c \in DOMAIN r PROVE f[c] = Mapped("pg", r)[c]
    <3>1. "lite" # "pg" /\ Pg!Milli = Milli
      BY DEF Lite!Milli, Pg!Milli, Milli
    <3>2. CASE c = "interval_ms"
      BY <2>3, <3>1, <3>2 DEF Mapped, Out, TimeColumns
    <3>3. CASE c = "timeout_ms"
      BY <2>3, <3>1, <3>3 DEF Mapped, Out, TimeColumns
    <3>4. CASE c = "probe_json"
      BY <2>3, <3>4 DEF Mapped, KindOf, Columns, Lite!DecodeProbe, Lite!ProbeKind, Pg!DecodeProbe, Pg!ProbeKind
    <3>5. CASE c = "enabled"
      BY <2>3, <3>1, <3>5 DEF Mapped, Out, TimeColumns, Flagged
    <3>6. CASE c = "next_run_at"
      BY <2>3, <3>1, <3>6 DEF Mapped, Out, Parsed, TimeColumns
    <3>7. CASE c = "created_at"
      BY <2>3, <3>1, <3>7 DEF Mapped, Out, Parsed, TimeColumns
    <3>8. CASE c = "updated_at"
      BY <2>3, <3>1, <3>8 DEF Mapped, Out, Parsed, TimeColumns
    <3>9. CASE c \notin {"interval_ms", "timeout_ms", "probe_json", "enabled", "next_run_at", "created_at",
              "updated_at"}
      BY <2>2, <2>4, <3>9 DEF Mapped, Out, Columns, TimeColumns, NullableColumns
    <3>10. QED
      BY <3>2, <3>3, <3>4, <3>5, <3>6, <3>7, <3>8, <3>9
  <2>5. QED
    BY <2>1, <2>4, SameRecord, IsRecord(Mapped("pg", r)), DOMAIN Mapped("pg", r) = DOMAIN r DEF f, Mapped, IsRecord
<1>3. QED
  BY <1>1, <1>2

LEMMA AgentMapped ==
  ASSUME NEW r, IsRecord(r), DOMAIN r = Columns("agents"), r.created_at # Null
  PROVE  /\ Lite!MapAgent(r) = Mapped("lite", r)
         /\ Pg!MapAgent(r) = Mapped("pg", r)
<1>1. Lite!MapAgent(r) = Mapped("lite", r)
  <2> DEFINE f == Lite!MapAgent(r)
  <2>1. IsRecord(f) /\ DOMAIN f = DOMAIN r
    BY DEF Lite!MapAgent, IsRecord
  <2>2. \A c \in DOMAIN r \ {"version", "last_seen_at", "revoked_at", "created_at"} : f[c] = r[c]
    BY DEF Lite!MapAgent
  <2>3. /\ f["version"] = Lite!StringOf(r["version"])
        /\ f["last_seen_at"] = Lite!ParseNullableTime(r["last_seen_at"])
        /\ f["revoked_at"] = Lite!ParseNullableTime(r["revoked_at"])
        /\ f["created_at"] = Lite!ParseTime(r["created_at"])
    BY DEF Lite!MapAgent, Columns
  <2> HIDE DEF f
  <2>4. ASSUME NEW c \in DOMAIN r PROVE f[c] = Mapped("lite", r)[c]
    <3>1. "lite" # "pg" /\ Lite!Milli = Milli
      BY DEF Lite!Milli, Pg!Milli, Milli
    <3>2. CASE c = "version"
      BY <2>3, <3>1, <3>2 DEF Mapped, Out, TimeColumns, NullableColumns, Lite!StringOf
    <3>3. CASE c = "last_seen_at"
      BY <2>3, <3>1, <3>3 DEF Mapped, Out, Parsed, TimeColumns, Lite!ParseNullableTime
    <3>4. CASE c = "revoked_at"
      BY <2>3, <3>1, <3>4 DEF Mapped, Out, Parsed, TimeColumns, Lite!ParseNullableTime
    <3>5. CASE c = "created_at"
      BY <2>3, <3>1, <3>5 DEF Mapped, Out, Parsed, TimeColumns
    <3>6. CASE c \notin {"version", "last_seen_at", "revoked_at", "created_at"}
      BY <2>2, <2>4, <3>6 DEF Mapped, Out, Columns, TimeColumns, NullableColumns
    <3>7. QED
      BY <3>2, <3>3, <3>4, <3>5, <3>6
  <2>5. QED
    BY <2>1, <2>4, SameRecord, IsRecord(Mapped("lite", r)), DOMAIN Mapped("lite", r) = DOMAIN r DEF f, Mapped, IsRecord
<1>2. Pg!MapAgent(r) = Mapped("pg", r)
  <2> DEFINE f == Pg!MapAgent(r)
  <2>1. IsRecord(f) /\ DOMAIN f = DOMAIN r
    BY DEF Pg!MapAgent, IsRecord
  <2>2. \A c \in DOMAIN r \ {"version", "last_seen_at", "revoked_at", "created_at"} : f[c] = r[c]
    BY DEF Pg!MapAgent
  <2>3. /\ f["version"] = Pg!StringOf(r["version"])
        /\ f["last_seen_at"] = Pg!ParseNullableTime(r["last_seen_at"])
        /\ f["revoked_at"] = Pg!ParseNullableTime(r["revoked_at"])
        /\ f["created_at"] = Pg!ParseTime(r["created_at"])
    BY DEF Pg!MapAgent, Columns
  <2> HIDE DEF f
  <2>4. ASSUME NEW c \in DOMAIN r PROVE f[c] = Mapped("pg", r)[c]
    <3>1. "lite" # "pg" /\ Pg!Milli = Milli
      BY DEF Lite!Milli, Pg!Milli, Milli
    <3>2. CASE c = "version"
      BY <2>3, <3>1, <3>2 DEF Mapped, Out, TimeColumns, NullableColumns, Pg!StringOf
    <3>3. CASE c = "last_seen_at"
      BY <2>3, <3>1, <3>3 DEF Mapped, Out, Parsed, TimeColumns, Pg!ParseNullableTime
    <3>4. CASE c = "revoked_at"
      BY <2>3, <3>1, <3>4 DEF Mapped, Out, Parsed, TimeColumns, Pg!ParseNullableTime
    <3>5. CASE c = "created_at"
      BY <2>3, <3>1, <3>5 DEF Mapped, Out, Parsed, TimeColumns
    <3>6. CASE c \notin {"version", "last_seen_at", "revoked_at", "created_at"}
      BY <2>2, <2>4, <3>6 DEF Mapped, Out, Columns, TimeColumns, NullableColumns
    <3>7. QED
      BY <3>2, <3>3, <3>4, <3>5, <3>6
  <2>5. QED
    BY <2>1, <2>4, SameRecord, IsRecord(Mapped("pg", r)), DOMAIN Mapped("pg", r) = DOMAIN r DEF f, Mapped, IsRecord
<1>3. QED
  BY <1>1, <1>2

LEMMA TokenMapped ==
  ASSUME NEW r, IsRecord(r), DOMAIN r = Columns("agent_enrollment_tokens"), r.expires_at # Null, r.created_at # Null
  PROVE  /\ Lite!MapEnrollmentToken(r) = Mapped("lite", r)
         /\ Pg!MapEnrollmentToken(r) = Mapped("pg", r)
<1>1. Lite!MapEnrollmentToken(r) = Mapped("lite", r)
  <2> DEFINE f == Lite!MapEnrollmentToken(r)
  <2>1. IsRecord(f) /\ DOMAIN f = DOMAIN r
    BY DEF Lite!MapEnrollmentToken, IsRecord
  <2>2. \A c \in DOMAIN r \ {"expires_at", "consumed_at", "created_at"} : f[c] = r[c]
    BY DEF Lite!MapEnrollmentToken
  <2>3. /\ f["expires_at"] = Lite!ParseTime(r["expires_at"])
        /\ f["consumed_at"] = Lite!ParseNullableTime(r["consumed_at"])
        /\ f["created_at"] = Lite!ParseTime(r["created_at"])
    BY DEF Lite!MapEnrollmentToken, Columns
  <2> HIDE DEF f
  <2>4. ASSUME NEW c \in DOMAIN r PROVE f[c] = Mapped("lite", r)[c]
    <3>1. "lite" # "pg" /\ Lite!Milli = Milli
      BY DEF Lite!Milli, Pg!Milli, Milli
    <3>2. CASE c = "expires_at"
      BY <2>3, <3>1, <3>2 DEF Mapped, Out, Parsed, TimeColumns
    <3>3. CASE c = "consumed_at"
      BY <2>3, <3>1, <3>3 DEF Mapped, Out, Parsed, TimeColumns, Lite!ParseNullableTime
    <3>4. CASE c = "created_at"
      BY <2>3, <3>1, <3>4 DEF Mapped, Out, Parsed, TimeColumns
    <3>5. CASE c \notin {"expires_at", "consumed_at", "created_at"}
      BY <2>2, <2>4, <3>5 DEF Mapped, Out, Columns, TimeColumns, NullableColumns
    <3>6. QED
      BY <3>2, <3>3, <3>4, <3>5
  <2>5. QED
    BY <2>1, <2>4, SameRecord, IsRecord(Mapped("lite", r)), DOMAIN Mapped("lite", r) = DOMAIN r DEF f, Mapped, IsRecord
<1>2. Pg!MapEnrollmentToken(r) = Mapped("pg", r)
  <2> DEFINE f == Pg!MapEnrollmentToken(r)
  <2>1. IsRecord(f) /\ DOMAIN f = DOMAIN r
    BY DEF Pg!MapEnrollmentToken, IsRecord
  <2>2. \A c \in DOMAIN r \ {"expires_at", "consumed_at", "created_at"} : f[c] = r[c]
    BY DEF Pg!MapEnrollmentToken
  <2>3. /\ f["expires_at"] = Pg!ParseTime(r["expires_at"])
        /\ f["consumed_at"] = Pg!ParseNullableTime(r["consumed_at"])
        /\ f["created_at"] = Pg!ParseTime(r["created_at"])
    BY DEF Pg!MapEnrollmentToken, Columns
  <2> HIDE DEF f
  <2>4. ASSUME NEW c \in DOMAIN r PROVE f[c] = Mapped("pg", r)[c]
    <3>1. "lite" # "pg" /\ Pg!Milli = Milli
      BY DEF Lite!Milli, Pg!Milli, Milli
    <3>2. CASE c = "expires_at"
      BY <2>3, <3>1, <3>2 DEF Mapped, Out, Parsed, TimeColumns
    <3>3. CASE c = "consumed_at"
      BY <2>3, <3>1, <3>3 DEF Mapped, Out, Parsed, TimeColumns, Pg!ParseNullableTime
    <3>4. CASE c = "created_at"
      BY <2>3, <3>1, <3>4 DEF Mapped, Out, Parsed, TimeColumns
    <3>5. CASE c \notin {"expires_at", "consumed_at", "created_at"}
      BY <2>2, <2>4, <3>5 DEF Mapped, Out, Columns, TimeColumns, NullableColumns
    <3>6. QED
      BY <3>2, <3>3, <3>4, <3>5
  <2>5. QED
    BY <2>1, <2>4, SameRecord, IsRecord(Mapped("pg", r)), DOMAIN Mapped("pg", r) = DOMAIN r DEF f, Mapped, IsRecord
<1>3. QED
  BY <1>1, <1>2

LEMMA RunMapped ==
  ASSUME NEW r, IsRecord(r), DOMAIN r = Columns("check_runs"), r.scheduled_for # Null
  PROVE  /\ Lite!MapRun(r) = Mapped("lite", r)
         /\ Pg!MapRun(r) = Mapped("pg", r)
<1>1. Lite!MapRun(r) = Mapped("lite", r)
  <2> DEFINE f == Lite!MapRun(r)
  <2>1. IsRecord(f) /\ DOMAIN f = DOMAIN r
    BY DEF Lite!MapRun, IsRecord
  <2>2. \A c \in DOMAIN r \ {"scheduled_for", "probe_json", "timeout_ms", "lease_agent_id", "lease_token_hash",
            "lease_expires_at", "resolved_at"} : f[c] = r[c]
    BY DEF Lite!MapRun
  <2>3. /\ f["scheduled_for"] = Lite!ParseTime(r["scheduled_for"])
        /\ f["probe_json"] = Lite!DecodeProbe(r["probe_kind"], r["probe_json"])
        /\ f["timeout_ms"] = r["timeout_ms"] * Lite!Milli
        /\ f["lease_agent_id"] = Lite!StringOf(r["lease_agent_id"])
        /\ f["lease_token_hash"] = Lite!StringOf(r["lease_token_hash"])
        /\ f["lease_expires_at"] = Lite!ParseNullableTime(r["lease_expires_at"])
        /\ f["resolved_at"] = Lite!ParseNullableTime(r["resolved_at"])
    BY DEF Lite!MapRun, Columns
  <2> HIDE DEF f
  <2>4. ASSUME NEW c \in DOMAIN r PROVE f[c] = Mapped("lite", r)[c]
    <3>1. "lite" # "pg" /\ Lite!Milli = Milli
      BY DEF Lite!Milli, Pg!Milli, Milli
    <3>2. CASE c = "scheduled_for"
      BY <2>3, <3>1, <3>2 DEF Mapped, Out, Parsed, TimeColumns
    <3>3. CASE c = "probe_json"
      BY <2>3, <3>3 DEF Mapped, KindOf, Columns, Lite!DecodeProbe, Lite!ProbeKind
    <3>4. CASE c = "timeout_ms"
      BY <2>3, <3>1, <3>4 DEF Mapped, Out, TimeColumns
    <3>5. CASE c = "lease_agent_id"
      BY <2>3, <3>1, <3>5 DEF Mapped, Out, TimeColumns, NullableColumns, Lite!StringOf
    <3>6. CASE c = "lease_token_hash"
      BY <2>3, <3>1, <3>6 DEF Mapped, Out, TimeColumns, NullableColumns, Lite!StringOf
    <3>7. CASE c = "lease_expires_at"
      BY <2>3, <3>1, <3>7 DEF Mapped, Out, Parsed, TimeColumns, Lite!ParseNullableTime
    <3>8. CASE c = "resolved_at"
      BY <2>3, <3>1, <3>8 DEF Mapped, Out, Parsed, TimeColumns, Lite!ParseNullableTime
    <3>9. CASE c \notin {"scheduled_for", "probe_json", "timeout_ms", "lease_agent_id", "lease_token_hash",
              "lease_expires_at", "resolved_at"}
      BY <2>2, <2>4, <3>9 DEF Mapped, Out, Columns, TimeColumns, NullableColumns
    <3>10. QED
      BY <3>2, <3>3, <3>4, <3>5, <3>6, <3>7, <3>8, <3>9
  <2>5. QED
    BY <2>1, <2>4, SameRecord, IsRecord(Mapped("lite", r)), DOMAIN Mapped("lite", r) = DOMAIN r DEF f, Mapped, IsRecord
<1>2. Pg!MapRun(r) = Mapped("pg", r)
  <2> DEFINE f == Pg!MapRun(r)
  <2>1. IsRecord(f) /\ DOMAIN f = DOMAIN r
    BY DEF Pg!MapRun, IsRecord
  <2>2. \A c \in DOMAIN r \ {"scheduled_for", "probe_json", "timeout_ms", "lease_agent_id", "lease_token_hash",
            "lease_expires_at", "resolved_at"} : f[c] = r[c]
    BY DEF Pg!MapRun
  <2>3. /\ f["scheduled_for"] = Pg!ParseTime(r["scheduled_for"])
        /\ f["probe_json"] = Pg!DecodeProbe(r["probe_kind"], r["probe_json"])
        /\ f["timeout_ms"] = r["timeout_ms"] * Pg!Milli
        /\ f["lease_agent_id"] = Pg!StringOf(r["lease_agent_id"])
        /\ f["lease_token_hash"] = Pg!StringOf(r["lease_token_hash"])
        /\ f["lease_expires_at"] = Pg!ParseNullableTime(r["lease_expires_at"])
        /\ f["resolved_at"] = Pg!ParseNullableTime(r["resolved_at"])
    BY DEF Pg!MapRun, Columns
  <2> HIDE DEF f
  <2>4. ASSUME NEW c \in DOMAIN r PROVE f[c] = Mapped("pg", r)[c]
    <3>1. "lite" # "pg" /\ Pg!Milli = Milli
      BY DEF Lite!Milli, Pg!Milli, Milli
    <3>2. CASE c = "scheduled_for"
      BY <2>3, <3>1, <3>2 DEF Mapped, Out, Parsed, TimeColumns
    <3>3. CASE c = "probe_json"
      BY <2>3, <3>3 DEF Mapped, KindOf, Columns, Lite!DecodeProbe, Lite!ProbeKind, Pg!DecodeProbe, Pg!ProbeKind
    <3>4. CASE c = "timeout_ms"
      BY <2>3, <3>1, <3>4 DEF Mapped, Out, TimeColumns
    <3>5. CASE c = "lease_agent_id"
      BY <2>3, <3>1, <3>5 DEF Mapped, Out, TimeColumns, NullableColumns, Pg!StringOf
    <3>6. CASE c = "lease_token_hash"
      BY <2>3, <3>1, <3>6 DEF Mapped, Out, TimeColumns, NullableColumns, Pg!StringOf
    <3>7. CASE c = "lease_expires_at"
      BY <2>3, <3>1, <3>7 DEF Mapped, Out, Parsed, TimeColumns, Pg!ParseNullableTime
    <3>8. CASE c = "resolved_at"
      BY <2>3, <3>1, <3>8 DEF Mapped, Out, Parsed, TimeColumns, Pg!ParseNullableTime
    <3>9. CASE c \notin {"scheduled_for", "probe_json", "timeout_ms", "lease_agent_id", "lease_token_hash",
              "lease_expires_at", "resolved_at"}
      BY <2>2, <2>4, <3>9 DEF Mapped, Out, Columns, TimeColumns, NullableColumns
    <3>10. QED
      BY <3>2, <3>3, <3>4, <3>5, <3>6, <3>7, <3>8, <3>9
  <2>5. QED
    BY <2>1, <2>4, SameRecord, IsRecord(Mapped("pg", r)), DOMAIN Mapped("pg", r) = DOMAIN r DEF f, Mapped, IsRecord
<1>3. QED
  BY <1>1, <1>2

LEMMA ResultMapped ==
  ASSUME NEW r, IsRecord(r), DOMAIN r = Columns("probe_results"), r.started_at # Null, r.finished_at # Null,
      r.received_at # Null
  PROVE  /\ Lite!MapProbeResult(r) = Mapped("lite", r)
         /\ Pg!MapProbeResult(r) = Mapped("pg", r)
<1>1. Lite!MapProbeResult(r) = Mapped("lite", r)
  <2> DEFINE f == Lite!MapProbeResult(r)
  <2>1. IsRecord(f) /\ DOMAIN f = DOMAIN r
    BY DEF Lite!MapProbeResult, IsRecord
  <2>2. \A c \in DOMAIN r \ {"started_at", "finished_at", "received_at", "outcome", "latency_ms", "error_code",
            "tls_not_after", "observed_status", "body_assertion_passed"} : f[c] = r[c]
    BY DEF Lite!MapProbeResult
  <2>3. /\ f["started_at"] = Lite!ParseTime(r["started_at"])
        /\ f["finished_at"] = Lite!ParseTime(r["finished_at"])
        /\ f["received_at"] = Lite!ParseTime(r["received_at"])
        /\ f["outcome"] = Lite!Passed(r["outcome"])
        /\ f["latency_ms"] = r["latency_ms"] * Lite!Milli
        /\ f["error_code"] = Lite!StringOf(r["error_code"])
        /\ f["tls_not_after"] = Lite!ParseNullableTime(r["tls_not_after"])
        /\ f["observed_status"] = Lite!StringOf(r["observed_status"])
        /\ f["body_assertion_passed"] = IF r["body_assertion_passed"] = Null THEN Nothing ELSE Lite!IntBool(r["body_assertion_passed"])
    BY DEF Lite!MapProbeResult, Columns
  <2> HIDE DEF f
  <2>4. ASSUME NEW c \in DOMAIN r PROVE f[c] = Mapped("lite", r)[c]
    <3>1. "lite" # "pg" /\ Lite!Milli = Milli
      BY DEF Lite!Milli, Pg!Milli, Milli
    <3>2. CASE c = "started_at"
      BY <2>3, <3>1, <3>2 DEF Mapped, Out, Parsed, TimeColumns
    <3>3. CASE c = "finished_at"
      BY <2>3, <3>1, <3>3 DEF Mapped, Out, Parsed, TimeColumns
    <3>4. CASE c = "received_at"
      BY <2>3, <3>1, <3>4 DEF Mapped, Out, Parsed, TimeColumns
    <3>5. CASE c = "outcome"
      BY <2>3, <3>1, <3>5 DEF Mapped, Out, TimeColumns, Lite!Passed
    <3>6. CASE c = "latency_ms"
      BY <2>3, <3>1, <3>6 DEF Mapped, Out, TimeColumns
    <3>7. CASE c = "error_code"
      BY <2>3, <3>1, <3>7 DEF Mapped, Out, TimeColumns, NullableColumns, Lite!StringOf
    <3>8. CASE c = "tls_not_after"
      BY <2>3, <3>1, <3>8 DEF Mapped, Out, Parsed, TimeColumns, Lite!ParseNullableTime
    <3>9. CASE c = "observed_status"
      BY <2>3, <3>1, <3>9 DEF Mapped, Out, TimeColumns, NullableColumns, Lite!StringOf
    <3>10. CASE c = "body_assertion_passed"
      BY <2>3, <3>1, <3>10 DEF Mapped, Out, TimeColumns, Flagged, Pg!StringOf
    <3>11. CASE c \notin {"started_at", "finished_at", "received_at", "outcome", "latency_ms", "error_code",
               "tls_not_after", "observed_status", "body_assertion_passed"}
      BY <2>2, <2>4, <3>11 DEF Mapped, Out, Columns, TimeColumns, NullableColumns
    <3>12. QED
      BY <3>2, <3>3, <3>4, <3>5, <3>6, <3>7, <3>8, <3>9, <3>10, <3>11
  <2>5. QED
    BY <2>1, <2>4, SameRecord, IsRecord(Mapped("lite", r)), DOMAIN Mapped("lite", r) = DOMAIN r DEF f, Mapped, IsRecord
<1>2. Pg!MapProbeResult(r) = Mapped("pg", r)
  <2> DEFINE f == Pg!MapProbeResult(r)
  <2>1. IsRecord(f) /\ DOMAIN f = DOMAIN r
    BY DEF Pg!MapProbeResult, IsRecord
  <2>2. \A c \in DOMAIN r \ {"started_at", "finished_at", "received_at", "outcome", "latency_ms", "error_code",
            "tls_not_after", "observed_status", "body_assertion_passed"} : f[c] = r[c]
    BY DEF Pg!MapProbeResult
  <2>3. /\ f["started_at"] = Pg!ParseTime(r["started_at"])
        /\ f["finished_at"] = Pg!ParseTime(r["finished_at"])
        /\ f["received_at"] = Pg!ParseTime(r["received_at"])
        /\ f["outcome"] = Pg!Passed(r["outcome"])
        /\ f["latency_ms"] = r["latency_ms"] * Pg!Milli
        /\ f["error_code"] = Pg!StringOf(r["error_code"])
        /\ f["tls_not_after"] = Pg!ParseNullableTime(r["tls_not_after"])
        /\ f["observed_status"] = Pg!StringOf(r["observed_status"])
        /\ f["body_assertion_passed"] = Pg!StringOf(r["body_assertion_passed"])
    BY DEF Pg!MapProbeResult, Columns
  <2> HIDE DEF f
  <2>4. ASSUME NEW c \in DOMAIN r PROVE f[c] = Mapped("pg", r)[c]
    <3>1. "lite" # "pg" /\ Pg!Milli = Milli
      BY DEF Lite!Milli, Pg!Milli, Milli
    <3>2. CASE c = "started_at"
      BY <2>3, <3>1, <3>2 DEF Mapped, Out, Parsed, TimeColumns
    <3>3. CASE c = "finished_at"
      BY <2>3, <3>1, <3>3 DEF Mapped, Out, Parsed, TimeColumns
    <3>4. CASE c = "received_at"
      BY <2>3, <3>1, <3>4 DEF Mapped, Out, Parsed, TimeColumns
    <3>5. CASE c = "outcome"
      BY <2>3, <3>1, <3>5 DEF Mapped, Out, TimeColumns, Lite!Passed, Pg!Passed
    <3>6. CASE c = "latency_ms"
      BY <2>3, <3>1, <3>6 DEF Mapped, Out, TimeColumns
    <3>7. CASE c = "error_code"
      BY <2>3, <3>1, <3>7 DEF Mapped, Out, TimeColumns, NullableColumns, Pg!StringOf
    <3>8. CASE c = "tls_not_after"
      BY <2>3, <3>1, <3>8 DEF Mapped, Out, Parsed, TimeColumns, Pg!ParseNullableTime
    <3>9. CASE c = "observed_status"
      BY <2>3, <3>1, <3>9 DEF Mapped, Out, TimeColumns, NullableColumns, Pg!StringOf
    <3>10. CASE c = "body_assertion_passed"
      BY <2>3, <3>1, <3>10 DEF Mapped, Out, TimeColumns, Flagged, Pg!StringOf
    <3>11. CASE c \notin {"started_at", "finished_at", "received_at", "outcome", "latency_ms", "error_code",
               "tls_not_after", "observed_status", "body_assertion_passed"}
      BY <2>2, <2>4, <3>11 DEF Mapped, Out, Columns, TimeColumns, NullableColumns
    <3>12. QED
      BY <3>2, <3>3, <3>4, <3>5, <3>6, <3>7, <3>8, <3>9, <3>10, <3>11
  <2>5. QED
    BY <2>1, <2>4, SameRecord, IsRecord(Mapped("pg", r)), DOMAIN Mapped("pg", r) = DOMAIN r DEF f, Mapped, IsRecord
<1>3. QED
  BY <1>1, <1>2

LEMMA LocationHealthMapped ==
  ASSUME NEW r, IsRecord(r), DOMAIN r = Columns("location_health")
  PROVE  /\ Lite!MapLocationHealth(r) = Mapped("lite", r)
         /\ Pg!MapLocationHealth(r) = Mapped("pg", r)
<1>1. Lite!MapLocationHealth(r) = Mapped("lite", r)
  <2> DEFINE f == Lite!MapLocationHealth(r)
  <2>1. IsRecord(f) /\ DOMAIN f = DOMAIN r
    BY DEF Lite!MapLocationHealth, IsRecord
  <2>2. \A c \in DOMAIN r \ {"last_observed_at", "last_transition_at", "stale_at"} : f[c] = r[c]
    BY DEF Lite!MapLocationHealth
  <2>3. /\ f["last_observed_at"] = Lite!ParseNullableTime(r["last_observed_at"])
        /\ f["last_transition_at"] = Lite!ParseNullableTime(r["last_transition_at"])
        /\ f["stale_at"] = Lite!ParseNullableTime(r["stale_at"])
    BY DEF Lite!MapLocationHealth, Columns
  <2> HIDE DEF f
  <2>4. ASSUME NEW c \in DOMAIN r PROVE f[c] = Mapped("lite", r)[c]
    <3>1. "lite" # "pg" /\ Lite!Milli = Milli
      BY DEF Lite!Milli, Pg!Milli, Milli
    <3>2. CASE c = "last_observed_at"
      BY <2>3, <3>1, <3>2 DEF Mapped, Out, Parsed, TimeColumns, Lite!ParseNullableTime
    <3>3. CASE c = "last_transition_at"
      BY <2>3, <3>1, <3>3 DEF Mapped, Out, Parsed, TimeColumns, Lite!ParseNullableTime
    <3>4. CASE c = "stale_at"
      BY <2>3, <3>1, <3>4 DEF Mapped, Out, Parsed, TimeColumns, Lite!ParseNullableTime
    <3>5. CASE c \notin {"last_observed_at", "last_transition_at", "stale_at"}
      BY <2>2, <2>4, <3>5 DEF Mapped, Out, Columns, TimeColumns, NullableColumns
    <3>6. QED
      BY <3>2, <3>3, <3>4, <3>5
  <2>5. QED
    BY <2>1, <2>4, SameRecord, IsRecord(Mapped("lite", r)), DOMAIN Mapped("lite", r) = DOMAIN r DEF f, Mapped, IsRecord
<1>2. Pg!MapLocationHealth(r) = Mapped("pg", r)
  <2> DEFINE f == Pg!MapLocationHealth(r)
  <2>1. IsRecord(f) /\ DOMAIN f = DOMAIN r
    BY DEF Pg!MapLocationHealth, IsRecord
  <2>2. \A c \in DOMAIN r \ {"last_observed_at", "last_transition_at", "stale_at"} : f[c] = r[c]
    BY DEF Pg!MapLocationHealth
  <2>3. /\ f["last_observed_at"] = Pg!ParseNullableTime(r["last_observed_at"])
        /\ f["last_transition_at"] = Pg!ParseNullableTime(r["last_transition_at"])
        /\ f["stale_at"] = Pg!ParseNullableTime(r["stale_at"])
    BY DEF Pg!MapLocationHealth, Columns
  <2> HIDE DEF f
  <2>4. ASSUME NEW c \in DOMAIN r PROVE f[c] = Mapped("pg", r)[c]
    <3>1. "lite" # "pg" /\ Pg!Milli = Milli
      BY DEF Lite!Milli, Pg!Milli, Milli
    <3>2. CASE c = "last_observed_at"
      BY <2>3, <3>1, <3>2 DEF Mapped, Out, Parsed, TimeColumns, Pg!ParseNullableTime
    <3>3. CASE c = "last_transition_at"
      BY <2>3, <3>1, <3>3 DEF Mapped, Out, Parsed, TimeColumns, Pg!ParseNullableTime
    <3>4. CASE c = "stale_at"
      BY <2>3, <3>1, <3>4 DEF Mapped, Out, Parsed, TimeColumns, Pg!ParseNullableTime
    <3>5. CASE c \notin {"last_observed_at", "last_transition_at", "stale_at"}
      BY <2>2, <2>4, <3>5 DEF Mapped, Out, Columns, TimeColumns, NullableColumns
    <3>6. QED
      BY <3>2, <3>3, <3>4, <3>5
  <2>5. QED
    BY <2>1, <2>4, SameRecord, IsRecord(Mapped("pg", r)), DOMAIN Mapped("pg", r) = DOMAIN r DEF f, Mapped, IsRecord
<1>3. QED
  BY <1>1, <1>2

LEMMA MonitorHealthMapped ==
  ASSUME NEW r, IsRecord(r), DOMAIN r = Columns("monitor_health")
  PROVE  /\ [r EXCEPT !.last_transition_at = Lite!ParseNullableTime(@)] = Mapped("lite", r)
         /\ [r EXCEPT !.last_transition_at = Pg!ParseNullableTime(@)] = Mapped("pg", r)
<1>1. [r EXCEPT !.last_transition_at = Lite!ParseNullableTime(@)] = Mapped("lite", r)
  <2> DEFINE f == [r EXCEPT !.last_transition_at = Lite!ParseNullableTime(@)]
  <2>1. IsRecord(f) /\ DOMAIN f = DOMAIN r
    BY DEF IsRecord
  <2>2. \A c \in DOMAIN r \ {"last_transition_at"} : f[c] = r[c]
    BY DEF IsRecord
  <2>3. /\ f["last_transition_at"] = Lite!ParseNullableTime(r["last_transition_at"])
    BY DEF Columns
  <2> HIDE DEF f
  <2>4. ASSUME NEW c \in DOMAIN r PROVE f[c] = Mapped("lite", r)[c]
    <3>1. "lite" # "pg" /\ Lite!Milli = Milli
      BY DEF Lite!Milli, Pg!Milli, Milli
    <3>2. CASE c = "last_transition_at"
      BY <2>3, <3>1, <3>2 DEF Mapped, Out, Parsed, TimeColumns, Lite!ParseNullableTime
    <3>3. CASE c \notin {"last_transition_at"}
      BY <2>2, <2>4, <3>3 DEF Mapped, Out, Columns, TimeColumns, NullableColumns
    <3>4. QED
      BY <3>2, <3>3
  <2>5. QED
    BY <2>1, <2>4, SameRecord, IsRecord(Mapped("lite", r)), DOMAIN Mapped("lite", r) = DOMAIN r DEF f, Mapped, IsRecord
<1>2. [r EXCEPT !.last_transition_at = Pg!ParseNullableTime(@)] = Mapped("pg", r)
  <2> DEFINE f == [r EXCEPT !.last_transition_at = Pg!ParseNullableTime(@)]
  <2>1. IsRecord(f) /\ DOMAIN f = DOMAIN r
    BY DEF IsRecord
  <2>2. \A c \in DOMAIN r \ {"last_transition_at"} : f[c] = r[c]
    BY DEF IsRecord
  <2>3. /\ f["last_transition_at"] = Pg!ParseNullableTime(r["last_transition_at"])
    BY DEF Columns
  <2> HIDE DEF f
  <2>4. ASSUME NEW c \in DOMAIN r PROVE f[c] = Mapped("pg", r)[c]
    <3>1. "lite" # "pg" /\ Pg!Milli = Milli
      BY DEF Lite!Milli, Pg!Milli, Milli
    <3>2. CASE c = "last_transition_at"
      BY <2>3, <3>1, <3>2 DEF Mapped, Out, Parsed, TimeColumns, Pg!ParseNullableTime
    <3>3. CASE c \notin {"last_transition_at"}
      BY <2>2, <2>4, <3>3 DEF Mapped, Out, Columns, TimeColumns, NullableColumns
    <3>4. QED
      BY <3>2, <3>3
  <2>5. QED
    BY <2>1, <2>4, SameRecord, IsRecord(Mapped("pg", r)), DOMAIN Mapped("pg", r) = DOMAIN r DEF f, Mapped, IsRecord
<1>3. QED
  BY <1>1, <1>2

LEMMA IncidentMapped ==
  ASSUME NEW r, IsRecord(r), DOMAIN r = Columns("incidents"), r.opened_at # Null, r.last_transition_at # Null
  PROVE  /\ Lite!MapIncident(r) = Mapped("lite", r)
         /\ Pg!MapIncident(r) = Mapped("pg", r)
<1>1. Lite!MapIncident(r) = Mapped("lite", r)
  <2> DEFINE f == Lite!MapIncident(r)
  <2>1. IsRecord(f) /\ DOMAIN f = DOMAIN r
    BY DEF Lite!MapIncident, IsRecord
  <2>2. \A c \in DOMAIN r \ {"opened_at", "last_transition_at", "recovered_at"} : f[c] = r[c]
    BY DEF Lite!MapIncident
  <2>3. /\ f["opened_at"] = Lite!ParseTime(r["opened_at"])
        /\ f["last_transition_at"] = Lite!ParseTime(r["last_transition_at"])
        /\ f["recovered_at"] = Lite!ParseNullableTime(r["recovered_at"])
    BY DEF Lite!MapIncident, Columns
  <2> HIDE DEF f
  <2>4. ASSUME NEW c \in DOMAIN r PROVE f[c] = Mapped("lite", r)[c]
    <3>1. "lite" # "pg" /\ Lite!Milli = Milli
      BY DEF Lite!Milli, Pg!Milli, Milli
    <3>2. CASE c = "opened_at"
      BY <2>3, <3>1, <3>2 DEF Mapped, Out, Parsed, TimeColumns
    <3>3. CASE c = "last_transition_at"
      BY <2>3, <3>1, <3>3 DEF Mapped, Out, Parsed, TimeColumns
    <3>4. CASE c = "recovered_at"
      BY <2>3, <3>1, <3>4 DEF Mapped, Out, Parsed, TimeColumns, Lite!ParseNullableTime
    <3>5. CASE c \notin {"opened_at", "last_transition_at", "recovered_at"}
      BY <2>2, <2>4, <3>5 DEF Mapped, Out, Columns, TimeColumns, NullableColumns
    <3>6. QED
      BY <3>2, <3>3, <3>4, <3>5
  <2>5. QED
    BY <2>1, <2>4, SameRecord, IsRecord(Mapped("lite", r)), DOMAIN Mapped("lite", r) = DOMAIN r DEF f, Mapped, IsRecord
<1>2. Pg!MapIncident(r) = Mapped("pg", r)
  <2> DEFINE f == Pg!MapIncident(r)
  <2>1. IsRecord(f) /\ DOMAIN f = DOMAIN r
    BY DEF Pg!MapIncident, IsRecord
  <2>2. \A c \in DOMAIN r \ {"opened_at", "last_transition_at", "recovered_at"} : f[c] = r[c]
    BY DEF Pg!MapIncident
  <2>3. /\ f["opened_at"] = Pg!ParseTime(r["opened_at"])
        /\ f["last_transition_at"] = Pg!ParseTime(r["last_transition_at"])
        /\ f["recovered_at"] = Pg!ParseNullableTime(r["recovered_at"])
    BY DEF Pg!MapIncident, Columns
  <2> HIDE DEF f
  <2>4. ASSUME NEW c \in DOMAIN r PROVE f[c] = Mapped("pg", r)[c]
    <3>1. "lite" # "pg" /\ Pg!Milli = Milli
      BY DEF Lite!Milli, Pg!Milli, Milli
    <3>2. CASE c = "opened_at"
      BY <2>3, <3>1, <3>2 DEF Mapped, Out, Parsed, TimeColumns
    <3>3. CASE c = "last_transition_at"
      BY <2>3, <3>1, <3>3 DEF Mapped, Out, Parsed, TimeColumns
    <3>4. CASE c = "recovered_at"
      BY <2>3, <3>1, <3>4 DEF Mapped, Out, Parsed, TimeColumns, Pg!ParseNullableTime
    <3>5. CASE c \notin {"opened_at", "last_transition_at", "recovered_at"}
      BY <2>2, <2>4, <3>5 DEF Mapped, Out, Columns, TimeColumns, NullableColumns
    <3>6. QED
      BY <3>2, <3>3, <3>4, <3>5
  <2>5. QED
    BY <2>1, <2>4, SameRecord, IsRecord(Mapped("pg", r)), DOMAIN Mapped("pg", r) = DOMAIN r DEF f, Mapped, IsRecord
<1>3. QED
  BY <1>1, <1>2

-----------------------------------------------------------------------------
\* Finding the one row that keeps an entity.
LEMMA OneFound ==
  ASSUME NEW db, NEW r
  PROVE  /\ Lite!One(Lite!Answer(db, {r})) = [db |-> db, rows |-> {r}, error |-> "none"]
         /\ Pg!One(Pg!Answer(db, {r})) = [db |-> db, rows |-> {r}, error |-> "none"]
BY DEF Lite!One, Pg!One, Lite!Answer, Pg!Answer

LEMMA OneMissing ==
  ASSUME NEW db
  PROVE  /\ Lite!One(Lite!Answer(db, {})) = [db |-> db, rows |-> {}, error |-> "no_rows"]
         /\ Pg!One(Pg!Answer(db, {})) = [db |-> db, rows |-> {}, error |-> "no_rows"]
BY DEF Lite!One, Pg!One, Lite!Answer, Pg!Answer

LEMMA OneRow ==
  ASSUME NEW p \in Profiles, NEW db, NEW bk, Inv(p, db, bk), NEW t \in TableNames, NEW e \in bk[t], NEW rows,
         rows \subseteq db[t], \A r \in db[t] : \A o \in bk[t] : Keeps(p, r, o) => (r \in rows <=> o = e)
  PROVE  \E r \in db[t] : rows = {r} /\ Keeps(p, r, e)
<1>1. PICK r \in db[t] : Keeps(p, r, e)
  BY RowOf
<1>2. r \in rows
  BY <1>1
<1>3. \A s \in rows : s = r
  BY <1>1, RowOf
<1>4. QED
  BY <1>1, <1>2, <1>3

LEMMA OneEntity ==
  ASSUME NEW p, NEW db, NEW bk, Inv(p, db, bk), NEW t \in TableNames, NEW key \in KeysOf(t)
  PROVE  \A a, b \in bk[t] : SameKey(a, b, key) => a = b
BY DEF Inv, BookInv

\* The mandatory instants of a row are not NULL.
LEMMA WrittenAt ==
  ASSUME NEW p \in Profiles, NEW t \in TableNames, NEW e, WellFormed(t, e), NEW r, Keeps(p, r, e),
         NEW c \in TimeColumns \cap Columns(t), e[c] # Nothing
  PROVE  r[c] # Null
<1>1. e[c] \in Maybe(Nat) /\ c \in DOMAIN e
  BY ColumnTypes, EntityColumns DEF WellFormed
<1>2. r[c] = Moment(p, e[c])
  BY <1>1, KeepsTime
<1>3. QED
  BY <1>1, <1>2, SameMoment

\* What the mapping of a row gives, and that the checks of the mapping accept it.

LEMMA KindRead ==
  ASSUME NEW j \in ProbeJSON, NEW x, x = j \/ (j.kind = "http" /\ x = [j EXCEPT !.kind = Nothing])
  PROVE  Lite!ProbeKind(j.kind, x) = j.kind /\ Pg!ProbeKind(j.kind, x) = j.kind
<1>1. [j EXCEPT !.kind = Nothing].kind = Nothing
  BY DEF ProbeJSON
<1>2. QED
  BY <1>1 DEF Lite!ProbeKind, Pg!ProbeKind

LEMMA AdminBack ==
  ASSUME NEW p \in Profiles, NEW e, WellFormed("admins", e), NEW r, Keeps(p, r, e)
  PROVE  /\ p = "lite" => [r EXCEPT !.created_at = Lite!ParseTime(@)] = Back(p, e)
         /\ p = "pg" => [r EXCEPT !.created_at = Pg!ParseTime(@)] = Back(p, e)
<1>1. e \in Entities("admins") /\ "admins" \in TableNames /\ DOMAIN e = Columns("admins") /\ DOMAIN r = DOMAIN e /\
          IsRecord(r)
  BY EntityColumns DEF WellFormed, TableNames, Keeps
<1>2. r.created_at # Null
  <2>1. e.created_at \in Nat
    BY <1>1 DEF Entities
  <2>2. {"created_at"} \subseteq TimeColumns \cap Columns("admins")
    BY DEF TimeColumns, Columns
  <2>3. e.created_at # Nothing
    BY <2>1, NatIsSome
  <2>4. QED
    BY <1>1, <2>2, <2>3, WrittenAt
<1>3. [r EXCEPT !.created_at = Lite!ParseTime(@)] = Mapped("lite", r) /\
          [r EXCEPT !.created_at = Pg!ParseTime(@)] = Mapped("pg", r)
  BY <1>1, <1>2, AdminMapped
<1>4. Mapped(p, r) = Back(p, e)
  BY <1>1, MappedIs
<1>6. QED
  BY <1>3, <1>4

LEMMA SessionBack ==
  ASSUME NEW p \in Profiles, NEW e, WellFormed("sessions", e), NEW r, Keeps(p, r, e)
  PROVE  /\ p = "lite" => [r EXCEPT !.expires_at = Lite!ParseTime(@),
                !.revoked_at = Lite!ParseNullableTime(@)] = Back(p, e)
         /\ p = "pg" => [r EXCEPT !.expires_at = Pg!ParseTime(@), !.revoked_at = Pg!ParseNullableTime(@)] = Back(p, e)
<1>1. e \in Entities("sessions") /\ "sessions" \in TableNames /\ DOMAIN e = Columns("sessions") /\
          DOMAIN r = DOMAIN e /\ IsRecord(r)
  BY EntityColumns DEF WellFormed, TableNames, Keeps
<1>2. r.expires_at # Null
  <2>1. e.expires_at \in Nat
    BY <1>1 DEF Entities
  <2>2. {"expires_at"} \subseteq TimeColumns \cap Columns("sessions")
    BY DEF TimeColumns, Columns
  <2>3. e.expires_at # Nothing
    BY <2>1, NatIsSome
  <2>4. QED
    BY <1>1, <2>2, <2>3, WrittenAt
<1>3. [r EXCEPT !.expires_at = Lite!ParseTime(@), !.revoked_at = Lite!ParseNullableTime(@)] = Mapped("lite", r) /\
          [r EXCEPT !.expires_at = Pg!ParseTime(@), !.revoked_at = Pg!ParseNullableTime(@)] = Mapped("pg", r)
  BY <1>1, <1>2, SessionMapped
<1>4. Mapped(p, r) = Back(p, e)
  BY <1>1, MappedIs
<1>6. QED
  BY <1>3, <1>4

LEMMA LocationBack ==
  ASSUME NEW p \in Profiles, NEW e, WellFormed("locations", e), NEW r, Keeps(p, r, e)
  PROVE  /\ p = "lite" => [r EXCEPT !.created_at = Lite!ParseTime(@)] = Back(p, e)
         /\ p = "pg" => [r EXCEPT !.created_at = Pg!ParseTime(@)] = Back(p, e)
<1>1. e \in Entities("locations") /\ "locations" \in TableNames /\ DOMAIN e = Columns("locations") /\
          DOMAIN r = DOMAIN e /\ IsRecord(r)
  BY EntityColumns DEF WellFormed, TableNames, Keeps
<1>2. r.created_at # Null
  <2>1. e.created_at \in Nat
    BY <1>1 DEF Entities
  <2>2. {"created_at"} \subseteq TimeColumns \cap Columns("locations")
    BY DEF TimeColumns, Columns
  <2>3. e.created_at # Nothing
    BY <2>1, NatIsSome
  <2>4. QED
    BY <1>1, <2>2, <2>3, WrittenAt
<1>3. [r EXCEPT !.created_at = Lite!ParseTime(@)] = Mapped("lite", r) /\
          [r EXCEPT !.created_at = Pg!ParseTime(@)] = Mapped("pg", r)
  BY <1>1, <1>2, LocationMapped
<1>4. Mapped(p, r) = Back(p, e)
  BY <1>1, MappedIs
<1>6. QED
  BY <1>3, <1>4

LEMMA MonitorBack ==
  ASSUME NEW p \in Profiles, NEW e, WellFormed("monitors", e), Valid("monitors", e), NEW r, Keeps(p, r, e)
  PROVE  /\ p = "lite" => Lite!MapMonitor(r) = Back(p, e)
         /\ p = "pg" => Pg!MapMonitor(r) = Back(p, e)
         /\ Lite!MonitorReadable(r) /\ Pg!MonitorReadable(r)
<1>1. e \in Entities("monitors") /\ "monitors" \in TableNames /\ DOMAIN e = Columns("monitors") /\
          DOMAIN r = DOMAIN e /\ IsRecord(r)
  BY EntityColumns DEF WellFormed, TableNames, Keeps
<1>2. r.next_run_at # Null /\ r.created_at # Null /\ r.updated_at # Null
  <2>1. e.next_run_at \in Nat /\ e.created_at \in Nat /\ e.updated_at \in Nat
    BY <1>1 DEF Entities
  <2>2. {"next_run_at", "created_at", "updated_at"} \subseteq TimeColumns \cap Columns("monitors")
    BY DEF TimeColumns, Columns
  <2>3. e.next_run_at # Nothing /\ e.created_at # Nothing /\ e.updated_at # Nothing
    BY <2>1, NatIsSome
  <2>4. QED
    BY <1>1, <2>2, <2>3, WrittenAt
<1>3. Lite!MapMonitor(r) = Mapped("lite", r) /\ Pg!MapMonitor(r) = Mapped("pg", r)
  BY <1>1, <1>2, MonitorMapped
<1>4. Mapped(p, r) = Back(p, e)
  BY <1>1, MappedIs
<1>5. Lite!MonitorReadable(r) /\ Pg!MonitorReadable(r)
  <2>1. /\ e.failure_threshold \in Thresholds /\ e.recovery_threshold \in Thresholds
        /\ e.probe_json \in ProbeJSON /\ e.probe_json.kind = e.kind /\ e.kind \in Kinds
    BY <1>1 DEF Entities, WellFormed
  <2>2. {"failure_threshold", "recovery_threshold",
            "kind"} \subseteq (PlainColumns \ {"probe_json"}) \cap Columns("monitors")
    BY DEF PlainColumns, Columns
  <2>3. r.failure_threshold = e.failure_threshold /\ r.recovery_threshold = e.recovery_threshold /\ r.kind = e.kind
    BY <1>1, <2>2, KeepsPlain
  <2>4. Lite!ProbeKind(r.kind, r.probe_json) = r.kind /\ Pg!ProbeKind(r.kind, r.probe_json) = r.kind
    <3>1. r.probe_json = e.probe_json \/ (e.probe_json.kind = "http" /\
              r.probe_json = [e.probe_json EXCEPT !.kind = Nothing])
      BY <1>1 DEF Keeps, Columns
    <3>2. QED
      BY <2>1, <2>3, <3>1, KindRead
  <2>5. 0 < r.timeout_ms /\ r.timeout_ms < r.interval_ms
    BY <1>1, CheckedIs DEF Checked
  <2>6. /\ r.failure_threshold > 0 /\ r.recovery_threshold > 0
        /\ r.failure_threshold <= MaxUint16 /\ r.recovery_threshold <= MaxUint16
    BY <2>1, <2>3, ConformanceAssumption DEF Thresholds
  <2>7. QED
    BY <2>1, <2>3, <2>4, <2>5, <2>6
       DEF Lite!MonitorReadable, Pg!MonitorReadable, Lite!MonitorFromProbe, Pg!MonitorFromProbe, Kinds
<1>6. QED
  BY <1>3, <1>4, <1>5

LEMMA AgentBack ==
  ASSUME NEW p \in Profiles, NEW e, WellFormed("agents", e), NEW r, Keeps(p, r, e)
  PROVE  /\ p = "lite" => Lite!MapAgent(r) = Back(p, e)
         /\ p = "pg" => Pg!MapAgent(r) = Back(p, e)
         /\ Lite!AgentReadable(r) /\ Pg!AgentReadable(r)
<1>1. e \in Entities("agents") /\ "agents" \in TableNames /\ DOMAIN e = Columns("agents") /\ DOMAIN r = DOMAIN e /\
          IsRecord(r)
  BY EntityColumns DEF WellFormed, TableNames, Keeps
<1>2. r.created_at # Null
  <2>1. e.created_at \in Nat
    BY <1>1 DEF Entities
  <2>2. {"created_at"} \subseteq TimeColumns \cap Columns("agents")
    BY DEF TimeColumns, Columns
  <2>3. e.created_at # Nothing
    BY <2>1, NatIsSome
  <2>4. QED
    BY <1>1, <2>2, <2>3, WrittenAt
<1>3. Lite!MapAgent(r) = Mapped("lite", r) /\ Pg!MapAgent(r) = Mapped("pg", r)
  BY <1>1, <1>2, AgentMapped
<1>4. Mapped(p, r) = Back(p, e)
  BY <1>1, MappedIs
<1>5. Lite!AgentReadable(r) /\ Pg!AgentReadable(r)
  <2>1. e.credential_generation > 0 /\ e.capabilities_json # {} /\ e.name # Nothing
    BY <1>1, StringIsSome DEF Entities
  <2>2. {"credential_generation", "capabilities_json",
            "name"} \subseteq (PlainColumns \ {"probe_json"}) \cap Columns("agents")
    BY DEF PlainColumns, Columns
  <2>3. QED
    BY <1>1, <2>1, <2>2, KeepsPlain DEF Lite!AgentReadable, Pg!AgentReadable
<1>6. QED
  BY <1>3, <1>4, <1>5

LEMMA TokenBack ==
  ASSUME NEW p \in Profiles, NEW e, WellFormed("agent_enrollment_tokens", e), NEW r, Keeps(p, r, e)
  PROVE  /\ p = "lite" => Lite!MapEnrollmentToken(r) = Back(p, e)
         /\ p = "pg" => Pg!MapEnrollmentToken(r) = Back(p, e)
<1>1. e \in Entities("agent_enrollment_tokens") /\ "agent_enrollment_tokens" \in TableNames /\
          DOMAIN e = Columns("agent_enrollment_tokens") /\ DOMAIN r = DOMAIN e /\ IsRecord(r)
  BY EntityColumns DEF WellFormed, TableNames, Keeps
<1>2. r.expires_at # Null /\ r.created_at # Null
  <2>1. e.expires_at \in Nat /\ e.created_at \in Nat
    BY <1>1 DEF Entities
  <2>2. {"expires_at", "created_at"} \subseteq TimeColumns \cap Columns("agent_enrollment_tokens")
    BY DEF TimeColumns, Columns
  <2>3. e.expires_at # Nothing /\ e.created_at # Nothing
    BY <2>1, NatIsSome
  <2>4. QED
    BY <1>1, <2>2, <2>3, WrittenAt
<1>3. Lite!MapEnrollmentToken(r) = Mapped("lite", r) /\ Pg!MapEnrollmentToken(r) = Mapped("pg", r)
  BY <1>1, <1>2, TokenMapped
<1>4. Mapped(p, r) = Back(p, e)
  BY <1>1, MappedIs
<1>6. QED
  BY <1>3, <1>4

LEMMA RunBack ==
  ASSUME NEW p \in Profiles, NEW e, WellFormed("check_runs", e), NEW r, Keeps(p, r, e)
  PROVE  /\ p = "lite" => Lite!MapRun(r) = Back(p, e)
         /\ p = "pg" => Pg!MapRun(r) = Back(p, e)
         /\ Lite!RunReadable(r) /\ Pg!RunReadable(r)
<1>1. e \in Entities("check_runs") /\ "check_runs" \in TableNames /\ DOMAIN e = Columns("check_runs") /\
          DOMAIN r = DOMAIN e /\ IsRecord(r)
  BY EntityColumns DEF WellFormed, TableNames, Keeps
<1>2. r.scheduled_for # Null
  <2>1. e.scheduled_for \in Nat
    BY <1>1 DEF Entities
  <2>2. {"scheduled_for"} \subseteq TimeColumns \cap Columns("check_runs")
    BY DEF TimeColumns, Columns
  <2>3. e.scheduled_for # Nothing
    BY <2>1, NatIsSome
  <2>4. QED
    BY <1>1, <2>2, <2>3, WrittenAt
<1>3. Lite!MapRun(r) = Mapped("lite", r) /\ Pg!MapRun(r) = Mapped("pg", r)
  BY <1>1, <1>2, RunMapped
<1>4. Mapped(p, r) = Back(p, e)
  BY <1>1, MappedIs
<1>5. Lite!RunReadable(r) /\ Pg!RunReadable(r)
  <2>1. e.lease_attempt >= 0 /\ e.probe_json \in ProbeJSON /\ e.probe_json.kind = e.probe_kind
    BY <1>1 DEF Entities, WellFormed
  <2>2. {"lease_attempt", "probe_kind"} \subseteq (PlainColumns \ {"probe_json"}) \cap Columns("check_runs")
    BY DEF PlainColumns, Columns
  <2>3. r.lease_attempt = e.lease_attempt /\ r.probe_kind = e.probe_kind
    BY <1>1, <2>2, KeepsPlain
  <2>4. Lite!ProbeKind(r.probe_kind, r.probe_json) = r.probe_kind /\
            Pg!ProbeKind(r.probe_kind, r.probe_json) = r.probe_kind
    <3>1. r.probe_json = e.probe_json \/ (e.probe_json.kind = "http" /\
              r.probe_json = [e.probe_json EXCEPT !.kind = Nothing])
      BY <1>1 DEF Keeps, Columns
    <3>2. QED
      BY <2>1, <2>3, <3>1, KindRead
  <2>5. QED
    BY <2>1, <2>3, <2>4 DEF Lite!RunReadable, Pg!RunReadable
<1>6. QED
  BY <1>3, <1>4, <1>5

LEMMA ResultBack ==
  ASSUME NEW p \in Profiles, NEW e, WellFormed("probe_results", e), NEW r, Keeps(p, r, e)
  PROVE  /\ p = "lite" => Lite!MapProbeResult(r) = Back(p, e)
         /\ p = "pg" => Pg!MapProbeResult(r) = Back(p, e)
<1>1. e \in Entities("probe_results") /\ "probe_results" \in TableNames /\ DOMAIN e = Columns("probe_results") /\
          DOMAIN r = DOMAIN e /\ IsRecord(r)
  BY EntityColumns DEF WellFormed, TableNames, Keeps
<1>2. r.started_at # Null /\ r.finished_at # Null /\ r.received_at # Null
  <2>1. e.started_at \in Nat /\ e.finished_at \in Nat /\ e.received_at \in Nat
    BY <1>1 DEF Entities
  <2>2. {"started_at", "finished_at", "received_at"} \subseteq TimeColumns \cap Columns("probe_results")
    BY DEF TimeColumns, Columns
  <2>3. e.started_at # Nothing /\ e.finished_at # Nothing /\ e.received_at # Nothing
    BY <2>1, NatIsSome
  <2>4. QED
    BY <1>1, <2>2, <2>3, WrittenAt
<1>3. Lite!MapProbeResult(r) = Mapped("lite", r) /\ Pg!MapProbeResult(r) = Mapped("pg", r)
  BY <1>1, <1>2, ResultMapped
<1>4. Mapped(p, r) = Back(p, e)
  BY <1>1, MappedIs
<1>6. QED
  BY <1>3, <1>4

LEMMA LocationHealthBack ==
  ASSUME NEW p \in Profiles, NEW e, WellFormed("location_health", e), NEW r, Keeps(p, r, e)
  PROVE  /\ p = "lite" => Lite!MapLocationHealth(r) = Back(p, e)
         /\ p = "pg" => Pg!MapLocationHealth(r) = Back(p, e)
         /\ Lite!HealthReadable(r) /\ Pg!HealthReadable(r)
<1>1. e \in Entities("location_health") /\ "location_health" \in TableNames /\ DOMAIN e = Columns("location_health") /\
          DOMAIN r = DOMAIN e /\ IsRecord(r)
  BY EntityColumns DEF WellFormed, TableNames, Keeps
<1>3. Lite!MapLocationHealth(r) = Mapped("lite", r) /\ Pg!MapLocationHealth(r) = Mapped("pg", r)
  BY <1>1, LocationHealthMapped
<1>4. Mapped(p, r) = Back(p, e)
  BY <1>1, MappedIs
<1>5. Lite!HealthReadable(r) /\ Pg!HealthReadable(r)
  <2>1. e.consecutive_failures <= MaxUint16 /\ e.consecutive_successes <= MaxUint16
    BY <1>1 DEF Entities
  <2>2. {"consecutive_failures",
            "consecutive_successes"} \subseteq (PlainColumns \ {"probe_json"}) \cap Columns("location_health")
    BY DEF PlainColumns, Columns
  <2>3. QED
    BY <1>1, <2>1, <2>2, KeepsPlain DEF Lite!HealthReadable, Pg!HealthReadable
<1>6. QED
  BY <1>3, <1>4, <1>5

LEMMA MonitorHealthBack ==
  ASSUME NEW p \in Profiles, NEW e, WellFormed("monitor_health", e), NEW r, Keeps(p, r, e)
  PROVE  /\ p = "lite" => [r EXCEPT !.last_transition_at = Lite!ParseNullableTime(@)] = Back(p, e)
         /\ p = "pg" => [r EXCEPT !.last_transition_at = Pg!ParseNullableTime(@)] = Back(p, e)
<1>1. e \in Entities("monitor_health") /\ "monitor_health" \in TableNames /\ DOMAIN e = Columns("monitor_health") /\
          DOMAIN r = DOMAIN e /\ IsRecord(r)
  BY EntityColumns DEF WellFormed, TableNames, Keeps
<1>3. [r EXCEPT !.last_transition_at = Lite!ParseNullableTime(@)] = Mapped("lite", r) /\
          [r EXCEPT !.last_transition_at = Pg!ParseNullableTime(@)] = Mapped("pg", r)
  BY <1>1, MonitorHealthMapped
<1>4. Mapped(p, r) = Back(p, e)
  BY <1>1, MappedIs
<1>6. QED
  BY <1>3, <1>4

LEMMA IncidentBack ==
  ASSUME NEW p \in Profiles, NEW e, WellFormed("incidents", e), NEW r, Keeps(p, r, e)
  PROVE  /\ p = "lite" => Lite!MapIncident(r) = Back(p, e)
         /\ p = "pg" => Pg!MapIncident(r) = Back(p, e)
<1>1. e \in Entities("incidents") /\ "incidents" \in TableNames /\ DOMAIN e = Columns("incidents") /\
          DOMAIN r = DOMAIN e /\ IsRecord(r)
  BY EntityColumns DEF WellFormed, TableNames, Keeps
<1>2. r.opened_at # Null /\ r.last_transition_at # Null
  <2>1. e.opened_at \in Nat /\ e.last_transition_at \in Nat
    BY <1>1 DEF Entities
  <2>2. {"opened_at", "last_transition_at"} \subseteq TimeColumns \cap Columns("incidents")
    BY DEF TimeColumns, Columns
  <2>3. e.opened_at # Nothing /\ e.last_transition_at # Nothing
    BY <2>1, NatIsSome
  <2>4. QED
    BY <1>1, <2>2, <2>3, WrittenAt
<1>3. Lite!MapIncident(r) = Mapped("lite", r) /\ Pg!MapIncident(r) = Mapped("pg", r)
  BY <1>1, <1>2, IncidentMapped
<1>4. Mapped(p, r) = Back(p, e)
  BY <1>1, MappedIs
<1>6. QED
  BY <1>3, <1>4

\* What the methods that read one row by a key return.

AdminsFindByEmailRows(db, x) == {r \in db["admins"] : r.email = x}

LEMMA AdminsFindByEmailBack ==
  ASSUME NEW p \in Profiles, NEW db, NEW bk, Inv(p, db, bk), NEW e \in bk["admins"]
  PROVE  /\ p = "lite" => Lite!AdminsFindByEmail(db, e.email).value = Back(p, e)
         /\ p = "pg" => Pg!AdminsFindByEmail(db, e.email).value = Back(p, e)
<1>1. "admins" \in TableNames /\ {"email"} \in KeysOf("admins") /\ WellFormed("admins", e) /\ Valid("admins", e)
  <2>1. "admins" \in TableNames /\ {"email"} \in KeysOf("admins")
    BY DEF TableNames, KeysOf, Unique, PrimaryKey
  <2>2. QED
    BY <2>1, RowOf
<1>2. \A r \in db["admins"] : \A o \in bk["admins"] : Keeps(p, r, o) =>
          (r \in AdminsFindByEmailRows(db, e.email) <=> o = e)
  <2>1. {"email"} \subseteq (PlainColumns \ {"probe_json"}) \cap Columns("admins")
    BY DEF PlainColumns, Columns
  <2>2. ASSUME NEW r \in db["admins"], NEW o \in bk["admins"], Keeps(p, r, o)
            PROVE r \in AdminsFindByEmailRows(db, e.email) <=> o = e
    <3>1. r.email = o.email
      BY <1>1, <2>1, <2>2, ColumnsKept
    <3>2. o.email = e.email => SameKey(o, e, {"email"})
      BY DEF SameKey, Equal
    <3>3. SameKey(o, e, {"email"}) => o = e
      BY <1>1, OneEntity
    <3>4. QED
      BY <2>2, <3>1, <3>2, <3>3 DEF AdminsFindByEmailRows
  <2>3. QED
    BY <2>2
<1>3. PICK r \in db["admins"] : AdminsFindByEmailRows(db, e.email) = {r} /\ Keeps(p, r, e)
  <2>1. AdminsFindByEmailRows(db, e.email) \subseteq db["admins"]
    BY DEF AdminsFindByEmailRows
  <2>2. QED
    BY <1>1, <1>2, <2>1, OneRow
<1>4. (CHOOSE s \in {r} : TRUE) = r
  OBVIOUS
<1>5. CASE p = "lite"
  <2>1. Lite!FindAdminByEmail(db, e.email) = [db |-> db, rows |-> {r}, error |-> "none"]
    BY <1>3, OneFound DEF Lite!FindAdminByEmail, Lite!Select, AdminsFindByEmailRows
  <2>2. Lite!AdminsFindByEmail(db, e.email).value = [r EXCEPT !.created_at = Lite!ParseTime(@)]
    BY <1>1, <1>3, <1>4, <2>1, AdminBack
        DEF Lite!AdminsFindByEmail, Lite!Found, Lite!Reply, Lite!RepositoryError, Lite!Always
  <2>3. QED
    BY <1>1, <1>3, <1>5, <2>2, AdminBack
<1>6. CASE p = "pg"
  <2>1. Pg!FindAdminByEmail(db, e.email) = [db |-> db, rows |-> {r}, error |-> "none"]
    BY <1>3, OneFound DEF Pg!FindAdminByEmail, Pg!Select, AdminsFindByEmailRows
  <2>2. Pg!AdminsFindByEmail(db, e.email).value = [r EXCEPT !.created_at = Pg!ParseTime(@)]
    BY <1>1, <1>3, <1>4, <2>1, AdminBack DEF Pg!AdminsFindByEmail, Pg!Found, Pg!Reply, Pg!RepositoryError, Pg!Always
  <2>3. QED
    BY <1>1, <1>3, <1>6, <2>2, AdminBack
<1>7. QED
  BY <1>5, <1>6 DEF Profiles

LocationsGetRows(db, x) == {r \in db["locations"] : r.id = x}

LEMMA LocationsGetBack ==
  ASSUME NEW p \in Profiles, NEW db, NEW bk, Inv(p, db, bk), NEW e \in bk["locations"]
  PROVE  /\ p = "lite" => Lite!LocationsGet(db, e.id).value = Back(p, e)
         /\ p = "pg" => Pg!LocationsGet(db, e.id).value = Back(p, e)
<1>1. "locations" \in TableNames /\ {"id"} \in KeysOf("locations") /\ WellFormed("locations", e) /\
          Valid("locations", e)
  <2>1. "locations" \in TableNames /\ {"id"} \in KeysOf("locations")
    BY DEF TableNames, KeysOf, Unique, PrimaryKey
  <2>2. QED
    BY <2>1, RowOf
<1>2. \A r \in db["locations"] : \A o \in bk["locations"] : Keeps(p, r, o) =>
          (r \in LocationsGetRows(db, e.id) <=> o = e)
  <2>1. {"id"} \subseteq (PlainColumns \ {"probe_json"}) \cap Columns("locations")
    BY DEF PlainColumns, Columns
  <2>2. ASSUME NEW r \in db["locations"], NEW o \in bk["locations"], Keeps(p, r, o)
            PROVE r \in LocationsGetRows(db, e.id) <=> o = e
    <3>1. r.id = o.id
      BY <1>1, <2>1, <2>2, ColumnsKept
    <3>2. o.id = e.id => SameKey(o, e, {"id"})
      BY DEF SameKey, Equal
    <3>3. SameKey(o, e, {"id"}) => o = e
      BY <1>1, OneEntity
    <3>4. QED
      BY <2>2, <3>1, <3>2, <3>3 DEF LocationsGetRows
  <2>3. QED
    BY <2>2
<1>3. PICK r \in db["locations"] : LocationsGetRows(db, e.id) = {r} /\ Keeps(p, r, e)
  <2>1. LocationsGetRows(db, e.id) \subseteq db["locations"]
    BY DEF LocationsGetRows
  <2>2. QED
    BY <1>1, <1>2, <2>1, OneRow
<1>4. (CHOOSE s \in {r} : TRUE) = r
  OBVIOUS
<1>5. CASE p = "lite"
  <2>1. Lite!GetLocation(db, e.id) = [db |-> db, rows |-> {r}, error |-> "none"]
    BY <1>3, OneFound DEF Lite!GetLocation, Lite!Select, LocationsGetRows
  <2>2. Lite!LocationsGet(db, e.id).value = [r EXCEPT !.created_at = Lite!ParseTime(@)]
    BY <1>1, <1>3, <1>4, <2>1, LocationBack
        DEF Lite!LocationsGet, Lite!Found, Lite!Reply, Lite!RepositoryError, Lite!Always
  <2>3. QED
    BY <1>1, <1>3, <1>5, <2>2, LocationBack
<1>6. CASE p = "pg"
  <2>1. Pg!GetLocation(db, e.id) = [db |-> db, rows |-> {r}, error |-> "none"]
    BY <1>3, OneFound DEF Pg!GetLocation, Pg!Select, LocationsGetRows
  <2>2. Pg!LocationsGet(db, e.id).value = [r EXCEPT !.created_at = Pg!ParseTime(@)]
    BY <1>1, <1>3, <1>4, <2>1, LocationBack DEF Pg!LocationsGet, Pg!Found, Pg!Reply, Pg!RepositoryError, Pg!Always
  <2>3. QED
    BY <1>1, <1>3, <1>6, <2>2, LocationBack
<1>7. QED
  BY <1>5, <1>6 DEF Profiles

MonitorsGetRows(db, x) == {r \in db["monitors"] : r.id = x}

LEMMA MonitorsGetBack ==
  ASSUME NEW p \in Profiles, NEW db, NEW bk, Inv(p, db, bk), NEW e \in bk["monitors"]
  PROVE  /\ p = "lite" => Lite!MonitorsGet(db, e.id).value = Back(p, e)
         /\ p = "pg" => Pg!MonitorsGet(db, e.id).value = Back(p, e)
<1>1. "monitors" \in TableNames /\ {"id"} \in KeysOf("monitors") /\ WellFormed("monitors", e) /\ Valid("monitors", e)
  <2>1. "monitors" \in TableNames /\ {"id"} \in KeysOf("monitors")
    BY DEF TableNames, KeysOf, Unique, PrimaryKey
  <2>2. QED
    BY <2>1, RowOf
<1>2. \A r \in db["monitors"] : \A o \in bk["monitors"] : Keeps(p, r, o) => (r \in MonitorsGetRows(db, e.id) <=> o = e)
  <2>1. {"id"} \subseteq (PlainColumns \ {"probe_json"}) \cap Columns("monitors")
    BY DEF PlainColumns, Columns
  <2>2. ASSUME NEW r \in db["monitors"], NEW o \in bk["monitors"], Keeps(p, r, o)
            PROVE r \in MonitorsGetRows(db, e.id) <=> o = e
    <3>1. r.id = o.id
      BY <1>1, <2>1, <2>2, ColumnsKept
    <3>2. o.id = e.id => SameKey(o, e, {"id"})
      BY DEF SameKey, Equal
    <3>3. SameKey(o, e, {"id"}) => o = e
      BY <1>1, OneEntity
    <3>4. QED
      BY <2>2, <3>1, <3>2, <3>3 DEF MonitorsGetRows
  <2>3. QED
    BY <2>2
<1>3. PICK r \in db["monitors"] : MonitorsGetRows(db, e.id) = {r} /\ Keeps(p, r, e)
  <2>1. MonitorsGetRows(db, e.id) \subseteq db["monitors"]
    BY DEF MonitorsGetRows
  <2>2. QED
    BY <1>1, <1>2, <2>1, OneRow
<1>4. (CHOOSE s \in {r} : TRUE) = r
  OBVIOUS
<1>5. CASE p = "lite"
  <2>1. Lite!GetMonitor(db, e.id) = [db |-> db, rows |-> {r}, error |-> "none"]
    BY <1>3, OneFound DEF Lite!GetMonitor, Lite!Select, MonitorsGetRows
  <2>2. Lite!MonitorsGet(db, e.id).value = Lite!MapMonitor(r)
    BY <1>1, <1>3, <1>4, <2>1, MonitorBack DEF Lite!MonitorsGet, Lite!Found, Lite!Reply, Lite!RepositoryError
  <2>3. QED
    BY <1>1, <1>3, <1>5, <2>2, MonitorBack
<1>6. CASE p = "pg"
  <2>1. Pg!GetMonitor(db, e.id) = [db |-> db, rows |-> {r}, error |-> "none"]
    BY <1>3, OneFound DEF Pg!GetMonitor, Pg!Select, MonitorsGetRows
  <2>2. Pg!MonitorsGet(db, e.id).value = Pg!MapMonitor(r)
    BY <1>1, <1>3, <1>4, <2>1, MonitorBack DEF Pg!MonitorsGet, Pg!Found, Pg!Reply, Pg!RepositoryError
  <2>3. QED
    BY <1>1, <1>3, <1>6, <2>2, MonitorBack
<1>7. QED
  BY <1>5, <1>6 DEF Profiles

AgentsGetRows(db, x) == {r \in db["agents"] : r.id = x}

LEMMA AgentsGetBack ==
  ASSUME NEW p \in Profiles, NEW db, NEW bk, Inv(p, db, bk), NEW e \in bk["agents"]
  PROVE  /\ p = "lite" => Lite!AgentsGet(db, e.id).value = Back(p, e)
         /\ p = "pg" => Pg!AgentsGet(db, e.id).value = Back(p, e)
<1>1. "agents" \in TableNames /\ {"id"} \in KeysOf("agents") /\ WellFormed("agents", e) /\ Valid("agents", e)
  <2>1. "agents" \in TableNames /\ {"id"} \in KeysOf("agents")
    BY DEF TableNames, KeysOf, Unique, PrimaryKey
  <2>2. QED
    BY <2>1, RowOf
<1>2. \A r \in db["agents"] : \A o \in bk["agents"] : Keeps(p, r, o) => (r \in AgentsGetRows(db, e.id) <=> o = e)
  <2>1. {"id"} \subseteq (PlainColumns \ {"probe_json"}) \cap Columns("agents")
    BY DEF PlainColumns, Columns
  <2>2. ASSUME NEW r \in db["agents"], NEW o \in bk["agents"], Keeps(p, r, o)
            PROVE r \in AgentsGetRows(db, e.id) <=> o = e
    <3>1. r.id = o.id
      BY <1>1, <2>1, <2>2, ColumnsKept
    <3>2. o.id = e.id => SameKey(o, e, {"id"})
      BY DEF SameKey, Equal
    <3>3. SameKey(o, e, {"id"}) => o = e
      BY <1>1, OneEntity
    <3>4. QED
      BY <2>2, <3>1, <3>2, <3>3 DEF AgentsGetRows
  <2>3. QED
    BY <2>2
<1>3. PICK r \in db["agents"] : AgentsGetRows(db, e.id) = {r} /\ Keeps(p, r, e)
  <2>1. AgentsGetRows(db, e.id) \subseteq db["agents"]
    BY DEF AgentsGetRows
  <2>2. QED
    BY <1>1, <1>2, <2>1, OneRow
<1>4. (CHOOSE s \in {r} : TRUE) = r
  OBVIOUS
<1>5. CASE p = "lite"
  <2>1. Lite!GetAgent(db, e.id) = [db |-> db, rows |-> {r}, error |-> "none"]
    BY <1>3, OneFound DEF Lite!GetAgent, Lite!Select, AgentsGetRows
  <2>2. Lite!AgentsGet(db, e.id).value = Lite!MapAgent(r)
    BY <1>1, <1>3, <1>4, <2>1, AgentBack DEF Lite!AgentsGet, Lite!Found, Lite!Reply, Lite!RepositoryError
  <2>3. QED
    BY <1>1, <1>3, <1>5, <2>2, AgentBack
<1>6. CASE p = "pg"
  <2>1. Pg!GetAgent(db, e.id) = [db |-> db, rows |-> {r}, error |-> "none"]
    BY <1>3, OneFound DEF Pg!GetAgent, Pg!Select, AgentsGetRows
  <2>2. Pg!AgentsGet(db, e.id).value = Pg!MapAgent(r)
    BY <1>1, <1>3, <1>4, <2>1, AgentBack DEF Pg!AgentsGet, Pg!Found, Pg!Reply, Pg!RepositoryError
  <2>3. QED
    BY <1>1, <1>3, <1>6, <2>2, AgentBack
<1>7. QED
  BY <1>5, <1>6 DEF Profiles

RunsGetRows(db, x) == {r \in db["check_runs"] : r.id = x}

LEMMA RunsGetBack ==
  ASSUME NEW p \in Profiles, NEW db, NEW bk, Inv(p, db, bk), NEW e \in bk["check_runs"]
  PROVE  /\ p = "lite" => Lite!RunsGet(db, e.id).value = Back(p, e)
         /\ p = "pg" => Pg!RunsGet(db, e.id).value = Back(p, e)
<1>1. "check_runs" \in TableNames /\ {"id"} \in KeysOf("check_runs") /\ WellFormed("check_runs", e) /\
          Valid("check_runs", e)
  <2>1. "check_runs" \in TableNames /\ {"id"} \in KeysOf("check_runs")
    BY DEF TableNames, KeysOf, Unique, PrimaryKey
  <2>2. QED
    BY <2>1, RowOf
<1>2. \A r \in db["check_runs"] : \A o \in bk["check_runs"] : Keeps(p, r, o) => (r \in RunsGetRows(db, e.id) <=> o = e)
  <2>1. {"id"} \subseteq (PlainColumns \ {"probe_json"}) \cap Columns("check_runs")
    BY DEF PlainColumns, Columns
  <2>2. ASSUME NEW r \in db["check_runs"], NEW o \in bk["check_runs"], Keeps(p, r, o)
            PROVE r \in RunsGetRows(db, e.id) <=> o = e
    <3>1. r.id = o.id
      BY <1>1, <2>1, <2>2, ColumnsKept
    <3>2. o.id = e.id => SameKey(o, e, {"id"})
      BY DEF SameKey, Equal
    <3>3. SameKey(o, e, {"id"}) => o = e
      BY <1>1, OneEntity
    <3>4. QED
      BY <2>2, <3>1, <3>2, <3>3 DEF RunsGetRows
  <2>3. QED
    BY <2>2
<1>3. PICK r \in db["check_runs"] : RunsGetRows(db, e.id) = {r} /\ Keeps(p, r, e)
  <2>1. RunsGetRows(db, e.id) \subseteq db["check_runs"]
    BY DEF RunsGetRows
  <2>2. QED
    BY <1>1, <1>2, <2>1, OneRow
<1>4. (CHOOSE s \in {r} : TRUE) = r
  OBVIOUS
<1>5. CASE p = "lite"
  <2>1. Lite!GetCheckRun(db, e.id) = [db |-> db, rows |-> {r}, error |-> "none"]
    BY <1>3, OneFound DEF Lite!GetCheckRun, Lite!Select, RunsGetRows
  <2>2. Lite!RunsGet(db, e.id).value = Lite!MapRun(r)
    BY <1>1, <1>3, <1>4, <2>1, RunBack DEF Lite!RunsGet, Lite!Found, Lite!Reply, Lite!RepositoryError
  <2>3. QED
    BY <1>1, <1>3, <1>5, <2>2, RunBack
<1>6. CASE p = "pg"
  <2>1. Pg!GetCheckRun(db, e.id) = [db |-> db, rows |-> {r}, error |-> "none"]
    BY <1>3, OneFound DEF Pg!GetCheckRun, Pg!Select, RunsGetRows
  <2>2. Pg!RunsGet(db, e.id).value = Pg!MapRun(r)
    BY <1>1, <1>3, <1>4, <2>1, RunBack DEF Pg!RunsGet, Pg!Found, Pg!Reply, Pg!RepositoryError
  <2>3. QED
    BY <1>1, <1>3, <1>6, <2>2, RunBack
<1>7. QED
  BY <1>5, <1>6 DEF Profiles

ResultsGetByRunRows(db, x) == {r \in db["probe_results"] : r.run_id = x}

LEMMA ResultsGetByRunBack ==
  ASSUME NEW p \in Profiles, NEW db, NEW bk, Inv(p, db, bk), NEW e \in bk["probe_results"]
  PROVE  /\ p = "lite" => Lite!ResultsGetByRun(db, e.run_id).value = Back(p, e)
         /\ p = "pg" => Pg!ResultsGetByRun(db, e.run_id).value = Back(p, e)
<1>1. "probe_results" \in TableNames /\ {"run_id"} \in KeysOf("probe_results") /\ WellFormed("probe_results", e) /\
          Valid("probe_results", e)
  <2>1. "probe_results" \in TableNames /\ {"run_id"} \in KeysOf("probe_results")
    BY DEF TableNames, KeysOf, Unique, PrimaryKey
  <2>2. QED
    BY <2>1, RowOf
<1>2. \A r \in db["probe_results"] : \A o \in bk["probe_results"] : Keeps(p, r, o) =>
          (r \in ResultsGetByRunRows(db, e.run_id) <=> o = e)
  <2>1. {"run_id"} \subseteq (PlainColumns \ {"probe_json"}) \cap Columns("probe_results")
    BY DEF PlainColumns, Columns
  <2>2. ASSUME NEW r \in db["probe_results"], NEW o \in bk["probe_results"], Keeps(p, r, o)
            PROVE r \in ResultsGetByRunRows(db, e.run_id) <=> o = e
    <3>1. r.run_id = o.run_id
      BY <1>1, <2>1, <2>2, ColumnsKept
    <3>2. o.run_id = e.run_id => SameKey(o, e, {"run_id"})
      BY DEF SameKey, Equal
    <3>3. SameKey(o, e, {"run_id"}) => o = e
      BY <1>1, OneEntity
    <3>4. QED
      BY <2>2, <3>1, <3>2, <3>3 DEF ResultsGetByRunRows
  <2>3. QED
    BY <2>2
<1>3. PICK r \in db["probe_results"] : ResultsGetByRunRows(db, e.run_id) = {r} /\ Keeps(p, r, e)
  <2>1. ResultsGetByRunRows(db, e.run_id) \subseteq db["probe_results"]
    BY DEF ResultsGetByRunRows
  <2>2. QED
    BY <1>1, <1>2, <2>1, OneRow
<1>4. (CHOOSE s \in {r} : TRUE) = r
  OBVIOUS
<1>5. CASE p = "lite"
  <2>1. Lite!GetProbeResultByRun(db, e.run_id) = [db |-> db, rows |-> {r}, error |-> "none"]
    BY <1>3, OneFound DEF Lite!GetProbeResultByRun, Lite!Select, ResultsGetByRunRows
  <2>2. Lite!ResultsGetByRun(db, e.run_id).value = Lite!MapProbeResult(r)
    BY <1>1, <1>3, <1>4, <2>1, ResultBack
        DEF Lite!ResultsGetByRun, Lite!Found, Lite!Reply, Lite!RepositoryError, Lite!Always
  <2>3. QED
    BY <1>1, <1>3, <1>5, <2>2, ResultBack
<1>6. CASE p = "pg"
  <2>1. Pg!GetProbeResultByRun(db, e.run_id) = [db |-> db, rows |-> {r}, error |-> "none"]
    BY <1>3, OneFound DEF Pg!GetProbeResultByRun, Pg!Select, ResultsGetByRunRows
  <2>2. Pg!ResultsGetByRun(db, e.run_id).value = Pg!MapProbeResult(r)
    BY <1>1, <1>3, <1>4, <2>1, ResultBack DEF Pg!ResultsGetByRun, Pg!Found, Pg!Reply, Pg!RepositoryError, Pg!Always
  <2>3. QED
    BY <1>1, <1>3, <1>6, <2>2, ResultBack
<1>7. QED
  BY <1>5, <1>6 DEF Profiles

ResultsGetByIDRows(db, x) == {r \in db["probe_results"] : r.id = x}

LEMMA ResultsGetByIDBack ==
  ASSUME NEW p \in Profiles, NEW db, NEW bk, Inv(p, db, bk), NEW e \in bk["probe_results"]
  PROVE  /\ p = "lite" => Lite!ResultsGetByID(db, e.id).value = Back(p, e)
         /\ p = "pg" => Pg!ResultsGetByID(db, e.id).value = Back(p, e)
<1>1. "probe_results" \in TableNames /\ {"id"} \in KeysOf("probe_results") /\ WellFormed("probe_results", e) /\
          Valid("probe_results", e)
  <2>1. "probe_results" \in TableNames /\ {"id"} \in KeysOf("probe_results")
    BY DEF TableNames, KeysOf, Unique, PrimaryKey
  <2>2. QED
    BY <2>1, RowOf
<1>2. \A r \in db["probe_results"] : \A o \in bk["probe_results"] : Keeps(p, r, o) =>
          (r \in ResultsGetByIDRows(db, e.id) <=> o = e)
  <2>1. {"id"} \subseteq (PlainColumns \ {"probe_json"}) \cap Columns("probe_results")
    BY DEF PlainColumns, Columns
  <2>2. ASSUME NEW r \in db["probe_results"], NEW o \in bk["probe_results"], Keeps(p, r, o)
            PROVE r \in ResultsGetByIDRows(db, e.id) <=> o = e
    <3>1. r.id = o.id
      BY <1>1, <2>1, <2>2, ColumnsKept
    <3>2. o.id = e.id => SameKey(o, e, {"id"})
      BY DEF SameKey, Equal
    <3>3. SameKey(o, e, {"id"}) => o = e
      BY <1>1, OneEntity
    <3>4. QED
      BY <2>2, <3>1, <3>2, <3>3 DEF ResultsGetByIDRows
  <2>3. QED
    BY <2>2
<1>3. PICK r \in db["probe_results"] : ResultsGetByIDRows(db, e.id) = {r} /\ Keeps(p, r, e)
  <2>1. ResultsGetByIDRows(db, e.id) \subseteq db["probe_results"]
    BY DEF ResultsGetByIDRows
  <2>2. QED
    BY <1>1, <1>2, <2>1, OneRow
<1>4. (CHOOSE s \in {r} : TRUE) = r
  OBVIOUS
<1>5. CASE p = "lite"
  <2>1. Lite!GetProbeResultByID(db, e.id) = [db |-> db, rows |-> {r}, error |-> "none"]
    BY <1>3, OneFound DEF Lite!GetProbeResultByID, Lite!Select, ResultsGetByIDRows
  <2>2. Lite!ResultsGetByID(db, e.id).value = Lite!MapProbeResult(r)
    BY <1>1, <1>3, <1>4, <2>1, ResultBack
        DEF Lite!ResultsGetByID, Lite!Found, Lite!Reply, Lite!RepositoryError, Lite!Always
  <2>3. QED
    BY <1>1, <1>3, <1>5, <2>2, ResultBack
<1>6. CASE p = "pg"
  <2>1. Pg!GetProbeResultByID(db, e.id) = [db |-> db, rows |-> {r}, error |-> "none"]
    BY <1>3, OneFound DEF Pg!GetProbeResultByID, Pg!Select, ResultsGetByIDRows
  <2>2. Pg!ResultsGetByID(db, e.id).value = Pg!MapProbeResult(r)
    BY <1>1, <1>3, <1>4, <2>1, ResultBack DEF Pg!ResultsGetByID, Pg!Found, Pg!Reply, Pg!RepositoryError, Pg!Always
  <2>3. QED
    BY <1>1, <1>3, <1>6, <2>2, ResultBack
<1>7. QED
  BY <1>5, <1>6 DEF Profiles

HealthGetLocationRows(db, x0, x1) == {r \in db["location_health"] : r.monitor_id = x0 /\ r.location_id = x1}

LEMMA HealthGetLocationBack ==
  ASSUME NEW p \in Profiles, NEW db, NEW bk, Inv(p, db, bk), NEW e \in bk["location_health"]
  PROVE  /\ p = "lite" => Lite!HealthGetLocation(db, e.monitor_id, e.location_id).value = Back(p, e)
         /\ p = "pg" => Pg!HealthGetLocation(db, e.monitor_id, e.location_id).value = Back(p, e)
<1>1. "location_health" \in TableNames /\ {"monitor_id", "location_id"} \in KeysOf("location_health") /\
          WellFormed("location_health", e) /\ Valid("location_health", e)
  <2>1. "location_health" \in TableNames /\ {"monitor_id", "location_id"} \in KeysOf("location_health")
    BY DEF TableNames, KeysOf, Unique, PrimaryKey
  <2>2. QED
    BY <2>1, RowOf
<1>2. \A r \in db["location_health"] : \A o \in bk["location_health"] : Keeps(p, r, o) =>
          (r \in HealthGetLocationRows(db, e.monitor_id, e.location_id) <=> o = e)
  <2>1. {"monitor_id", "location_id"} \subseteq (PlainColumns \ {"probe_json"}) \cap Columns("location_health")
    BY DEF PlainColumns, Columns
  <2>2. ASSUME NEW r \in db["location_health"], NEW o \in bk["location_health"], Keeps(p, r, o)
            PROVE r \in HealthGetLocationRows(db, e.monitor_id, e.location_id) <=> o = e
    <3>1. r.monitor_id = o.monitor_id /\ r.location_id = o.location_id
      BY <1>1, <2>1, <2>2, ColumnsKept
    <3>2. o.monitor_id = e.monitor_id /\ o.location_id = e.location_id => SameKey(o, e, {"monitor_id", "location_id"})
      BY DEF SameKey, Equal
    <3>3. SameKey(o, e, {"monitor_id", "location_id"}) => o = e
      BY <1>1, OneEntity
    <3>4. QED
      BY <2>2, <3>1, <3>2, <3>3 DEF HealthGetLocationRows
  <2>3. QED
    BY <2>2
<1>3. PICK r \in db["location_health"] : HealthGetLocationRows(db, e.monitor_id, e.location_id) = {r} /\ Keeps(p, r, e)
  <2>1. HealthGetLocationRows(db, e.monitor_id, e.location_id) \subseteq db["location_health"]
    BY DEF HealthGetLocationRows
  <2>2. QED
    BY <1>1, <1>2, <2>1, OneRow
<1>4. (CHOOSE s \in {r} : TRUE) = r
  OBVIOUS
<1>5. CASE p = "lite"
  <2>1. Lite!GetLocationHealth(db, [monitor_id |-> e.monitor_id, location_id |-> e.location_id]) = [db |-> db,
            rows |-> {r}, error |-> "none"]
    BY <1>3, OneFound DEF Lite!GetLocationHealth, Lite!Select, HealthGetLocationRows
  <2>2. Lite!HealthGetLocation(db, e.monitor_id, e.location_id).value = Lite!MapLocationHealth(r)
    BY <1>1, <1>3, <1>4, <2>1, LocationHealthBack
        DEF Lite!HealthGetLocation, Lite!Found, Lite!Reply, Lite!RepositoryError
  <2>3. QED
    BY <1>1, <1>3, <1>5, <2>2, LocationHealthBack
<1>6. CASE p = "pg"
  <2>1. Pg!GetLocationHealth(db, [monitor_id |-> e.monitor_id, location_id |-> e.location_id]) = [db |-> db,
            rows |-> {r}, error |-> "none"]
    BY <1>3, OneFound DEF Pg!GetLocationHealth, Pg!Select, HealthGetLocationRows
  <2>2. Pg!HealthGetLocation(db, e.monitor_id, e.location_id).value = Pg!MapLocationHealth(r)
    BY <1>1, <1>3, <1>4, <2>1, LocationHealthBack DEF Pg!HealthGetLocation, Pg!Found, Pg!Reply, Pg!RepositoryError
  <2>3. QED
    BY <1>1, <1>3, <1>6, <2>2, LocationHealthBack
<1>7. QED
  BY <1>5, <1>6 DEF Profiles

HealthGetMonitorRows(db, x) == {r \in db["monitor_health"] : r.monitor_id = x}

LEMMA HealthGetMonitorBack ==
  ASSUME NEW p \in Profiles, NEW db, NEW bk, Inv(p, db, bk), NEW e \in bk["monitor_health"]
  PROVE  /\ p = "lite" => Lite!HealthGetMonitor(db, e.monitor_id).value = Back(p, e)
         /\ p = "pg" => Pg!HealthGetMonitor(db, e.monitor_id).value = Back(p, e)
<1>1. "monitor_health" \in TableNames /\ {"monitor_id"} \in KeysOf("monitor_health") /\
          WellFormed("monitor_health", e) /\ Valid("monitor_health", e)
  <2>1. "monitor_health" \in TableNames /\ {"monitor_id"} \in KeysOf("monitor_health")
    BY DEF TableNames, KeysOf, Unique, PrimaryKey
  <2>2. QED
    BY <2>1, RowOf
<1>2. \A r \in db["monitor_health"] : \A o \in bk["monitor_health"] : Keeps(p, r, o) =>
          (r \in HealthGetMonitorRows(db, e.monitor_id) <=> o = e)
  <2>1. {"monitor_id"} \subseteq (PlainColumns \ {"probe_json"}) \cap Columns("monitor_health")
    BY DEF PlainColumns, Columns
  <2>2. ASSUME NEW r \in db["monitor_health"], NEW o \in bk["monitor_health"], Keeps(p, r, o)
            PROVE r \in HealthGetMonitorRows(db, e.monitor_id) <=> o = e
    <3>1. r.monitor_id = o.monitor_id
      BY <1>1, <2>1, <2>2, ColumnsKept
    <3>2. o.monitor_id = e.monitor_id => SameKey(o, e, {"monitor_id"})
      BY DEF SameKey, Equal
    <3>3. SameKey(o, e, {"monitor_id"}) => o = e
      BY <1>1, OneEntity
    <3>4. QED
      BY <2>2, <3>1, <3>2, <3>3 DEF HealthGetMonitorRows
  <2>3. QED
    BY <2>2
<1>3. PICK r \in db["monitor_health"] : HealthGetMonitorRows(db, e.monitor_id) = {r} /\ Keeps(p, r, e)
  <2>1. HealthGetMonitorRows(db, e.monitor_id) \subseteq db["monitor_health"]
    BY DEF HealthGetMonitorRows
  <2>2. QED
    BY <1>1, <1>2, <2>1, OneRow
<1>4. (CHOOSE s \in {r} : TRUE) = r
  OBVIOUS
<1>5. CASE p = "lite"
  <2>1. Lite!GetMonitorHealth(db, e.monitor_id) = [db |-> db, rows |-> {r}, error |-> "none"]
    BY <1>3, OneFound DEF Lite!GetMonitorHealth, Lite!Select, HealthGetMonitorRows
  <2>2. Lite!HealthGetMonitor(db, e.monitor_id).value = [r EXCEPT !.last_transition_at = Lite!ParseNullableTime(@)]
    BY <1>1, <1>3, <1>4, <2>1, MonitorHealthBack
        DEF Lite!HealthGetMonitor, Lite!Found, Lite!Reply, Lite!RepositoryError, Lite!Always
  <2>3. QED
    BY <1>1, <1>3, <1>5, <2>2, MonitorHealthBack
<1>6. CASE p = "pg"
  <2>1. Pg!GetMonitorHealth(db, e.monitor_id) = [db |-> db, rows |-> {r}, error |-> "none"]
    BY <1>3, OneFound DEF Pg!GetMonitorHealth, Pg!Select, HealthGetMonitorRows
  <2>2. Pg!HealthGetMonitor(db, e.monitor_id).value = [r EXCEPT !.last_transition_at = Pg!ParseNullableTime(@)]
    BY <1>1, <1>3, <1>4, <2>1, MonitorHealthBack
        DEF Pg!HealthGetMonitor, Pg!Found, Pg!Reply, Pg!RepositoryError, Pg!Always
  <2>3. QED
    BY <1>1, <1>3, <1>6, <2>2, MonitorHealthBack
<1>7. QED
  BY <1>5, <1>6 DEF Profiles

IncidentsGetActiveRows(db, x) == {r \in db["incidents"] : r.monitor_id = x /\ r.recovered_at = Null}

LEMMA IncidentsGetActiveBack ==
  ASSUME NEW p \in Profiles, NEW db, NEW bk, Inv(p, db, bk), NEW e \in bk["incidents"], e.recovered_at = Nothing
  PROVE  /\ p = "lite" => Lite!IncidentsGetActive(db, e.monitor_id).value = Back(p, e)
         /\ p = "pg" => Pg!IncidentsGetActive(db, e.monitor_id).value = Back(p, e)
<1>1. "incidents" \in TableNames /\ {"monitor_id", "recovered_at"} \in KeysOf("incidents") /\
          WellFormed("incidents", e) /\ Valid("incidents", e)
  <2>1. "incidents" \in TableNames /\ {"monitor_id", "recovered_at"} \in KeysOf("incidents")
    BY DEF TableNames, KeysOf, Unique, PrimaryKey
  <2>2. QED
    BY <2>1, RowOf
<1>2. \A r \in db["incidents"] : \A o \in bk["incidents"] : Keeps(p, r, o) =>
          (r \in IncidentsGetActiveRows(db, e.monitor_id) <=> o = e)
  <2>1. {"monitor_id"} \subseteq (PlainColumns \ {"probe_json"}) \cap Columns("incidents") /\
            "recovered_at" \in TimeColumns \cap Columns("incidents")
    BY DEF PlainColumns, Columns, TimeColumns
  <2>2. ASSUME NEW r \in db["incidents"], NEW o \in bk["incidents"], Keeps(p, r, o)
            PROVE r \in IncidentsGetActiveRows(db, e.monitor_id) <=> o = e
    <3>1. r.monitor_id = o.monitor_id
      BY <1>1, <2>1, <2>2, ColumnsKept
    <3>2. r.recovered_at = Null <=> o.recovered_at = Nothing
      <4>1. r.recovered_at = Moment(p, o.recovered_at)
        BY <1>1, <2>1, <2>2, ColumnsKept
      <4>2. o.recovered_at \in Maybe(Nat)
        BY <1>1, RowOf DEF Entities
      <4>3. QED
        BY <4>1, <4>2, SameMoment
    <3>3. o.monitor_id = e.monitor_id /\ o.recovered_at = Nothing => SameKey(o, e, {"monitor_id", "recovered_at"})
      BY DEF SameKey, Equal
    <3>4. SameKey(o, e, {"monitor_id", "recovered_at"}) => o = e
      BY <1>1, OneEntity
    <3>5. QED
      BY <2>2, <3>1, <3>2, <3>3, <3>4 DEF IncidentsGetActiveRows
  <2>3. QED
    BY <2>2
<1>3. PICK r \in db["incidents"] : IncidentsGetActiveRows(db, e.monitor_id) = {r} /\ Keeps(p, r, e)
  <2>1. IncidentsGetActiveRows(db, e.monitor_id) \subseteq db["incidents"]
    BY DEF IncidentsGetActiveRows
  <2>2. QED
    BY <1>1, <1>2, <2>1, OneRow
<1>4. (CHOOSE s \in {r} : TRUE) = r
  OBVIOUS
<1>5. CASE p = "lite"
  <2>1. Lite!GetActiveIncidentByMonitor(db, e.monitor_id) = [db |-> db, rows |-> {r}, error |-> "none"]
    BY <1>3, OneFound DEF Lite!GetActiveIncidentByMonitor, Lite!Select, IncidentsGetActiveRows
  <2>2. Lite!IncidentsGetActive(db, e.monitor_id).value = Lite!MapIncident(r)
    BY <1>1, <1>3, <1>4, <2>1, IncidentBack
        DEF Lite!IncidentsGetActive, Lite!Found, Lite!Reply, Lite!RepositoryError, Lite!Always
  <2>3. QED
    BY <1>1, <1>3, <1>5, <2>2, IncidentBack
<1>6. CASE p = "pg"
  <2>1. Pg!GetActiveIncidentByMonitor(db, e.monitor_id) = [db |-> db, rows |-> {r}, error |-> "none"]
    BY <1>3, OneFound DEF Pg!GetActiveIncidentByMonitor, Pg!Select, IncidentsGetActiveRows
  <2>2. Pg!IncidentsGetActive(db, e.monitor_id).value = Pg!MapIncident(r)
    BY <1>1, <1>3, <1>4, <2>1, IncidentBack DEF Pg!IncidentsGetActive, Pg!Found, Pg!Reply, Pg!RepositoryError, Pg!Always
  <2>3. QED
    BY <1>1, <1>3, <1>6, <2>2, IncidentBack
<1>7. QED
  BY <1>5, <1>6 DEF Profiles

-----------------------------------------------------------------------------
\* Two sets whose elements a relation pairs one to one have the same size.
LEMMA SameSize ==
  ASSUME NEW S, NEW T, IsFiniteSet(S), NEW rel,
         \A x \in S : \E y \in T : <<x, y>> \in rel,
         \A y \in T : \E x \in S : <<x, y>> \in rel,
         \A x \in S : \A y, z \in T : <<x, y>> \in rel /\ <<x, z>> \in rel => y = z,
         \A x, w \in S : \A y \in T : <<x, y>> \in rel /\ <<w, y>> \in rel => x = w
  PROVE  IsFiniteSet(T) /\ Cardinality(T) = Cardinality(S)
<1> DEFINE f == [x \in S |-> CHOOSE y \in T : <<x, y>> \in rel]
<1>1. \A x \in S : f[x] \in T /\ <<x, f[x]>> \in rel
  OBVIOUS
<1>2. f \in [S -> T]
  BY <1>1
<1> HIDE DEF f
<1>3. \A x, w \in S : f[x] = f[w] => x = w
  BY <1>1
<1>4. \A y \in T : \E x \in S : f[x] = y
  BY <1>1
<1>5. f \in Bijection(S, T)
  BY <1>2, <1>3, <1>4, Fun_IsBij
<1>6. QED
  BY <1>5, FS_Bijection, Fun_ExistsBij

\* The pairs of entities and rows that keep them.
Pairs(p, db, bk, t) == {x \in bk[t] \X db[t] : Keeps(p, x[2], x[1])}

LEMMA PairsAre ==
  ASSUME NEW p, NEW db, NEW bk, NEW t
  PROVE  \A e \in bk[t] : \A r \in db[t] : <<e, r>> \in Pairs(p, db, bk, t) <=> Keeps(p, r, e)
BY DEF Pairs

LEMMA RowsCounted ==
  ASSUME NEW p \in Profiles, NEW db, NEW bk, Inv(p, db, bk), NEW t \in TableNames
  PROVE  /\ IsFiniteSet(bk[t]) /\ IsFiniteSet(db[t])
         /\ Cardinality(db[t]) = Cardinality(bk[t])
<1>1. IsFiniteSet(bk[t])
  BY DEF Inv, BookInv
<1> DEFINE rel == Pairs(p, db, bk, t)
<1>0. \A e \in bk[t] : \A r \in db[t] : <<e, r>> \in rel <=> Keeps(p, r, e)
  BY PairsAre
<1> HIDE DEF rel
<1>2. /\ \A e \in bk[t] : \E r \in db[t] : <<e, r>> \in rel
      /\ \A r \in db[t] : \E e \in bk[t] : <<e, r>> \in rel
      /\ \A e \in bk[t] : \A r, s \in db[t] :
           <<e, r>> \in rel /\ <<e, s>> \in rel => r = s
      /\ \A e, f \in bk[t] : \A r \in db[t] :
           <<e, r>> \in rel /\ <<f, r>> \in rel => e = f
  BY <1>0, RowOf
<1>3. QED
  BY <1>1, <1>2, SameSize

-----------------------------------------------------------------------------
\* The orders of the listings.
LEMMA PairOrder ==
  ASSUME NEW x, NEW y, NEW i, NEW j
  PROVE  /\ Lite!Lexicographic(<<x, i>>, <<y, j>>) <=> (x < y \/ (x = y /\ i < j))
         /\ Pg!Lexicographic(<<x, i>>, <<y, j>>) <=> (x < y \/ (x = y /\ i < j))
<1> DEFINE a == <<x, i>>
           b == <<y, j>>
<1>1. DOMAIN a = 1 .. 2 /\ a[1] = x /\ a[2] = i /\ b[1] = y /\ b[2] = j
  OBVIOUS
<1> HIDE DEF a, b
<1>2. (\E n \in 1 .. 2 : a[n] < b[n] /\ \A m \in 1 .. n - 1 : a[m] = b[m]) <=> (x < y \/ (x = y /\ i < j))
  <2>1. ASSUME x < y PROVE \E n \in 1 .. 2 : a[n] < b[n] /\ \A m \in 1 .. n - 1 : a[m] = b[m]
    <3>1. 1 \in 1 .. 2 /\ a[1] < b[1] /\ \A m \in 1 .. 1 - 1 : a[m] = b[m]
      BY <1>1, <2>1
    <3>2. QED
      BY <3>1
  <2>2. ASSUME x = y, i < j PROVE \E n \in 1 .. 2 : a[n] < b[n] /\ \A m \in 1 .. n - 1 : a[m] = b[m]
    <3>1. 2 \in 1 .. 2 /\ a[2] < b[2] /\ \A m \in 1 .. 2 - 1 : a[m] = b[m]
      BY <1>1, <2>2
    <3>2. QED
      BY <3>1
  <2>3. ASSUME NEW n \in 1 .. 2, a[n] < b[n], \A m \in 1 .. n - 1 : a[m] = b[m] PROVE x < y \/ (x = y /\ i < j)
    <3>1. n = 1 \/ (n = 2 /\ 1 \in 1 .. n - 1)
      OBVIOUS
    <3>2. QED
      BY <1>1, <2>3, <3>1
  <2>4. QED
    BY <2>1, <2>2, <2>3
<1>3. QED
  BY <1>1, <1>2 DEF Lite!Lexicographic, Pg!Lexicographic, a, b

LEMMA TripleOrder ==
  ASSUME NEW x, NEW y, NEW i, NEW j, NEW k, NEW l
  PROVE  /\ Lite!Lexicographic(<<x, i, k>>, <<y, j, l>>) <=> (x < y \/ (x = y /\ (i < j \/ (i = j /\ k < l))))
         /\ Pg!Lexicographic(<<x, i, k>>, <<y, j, l>>) <=> (x < y \/ (x = y /\ (i < j \/ (i = j /\ k < l))))
<1> DEFINE a == <<x, i, k>>
           b == <<y, j, l>>
<1>1. DOMAIN a = 1 .. 3 /\ a[1] = x /\ a[2] = i /\ a[3] = k /\ b[1] = y /\ b[2] = j /\ b[3] = l
  OBVIOUS
<1> HIDE DEF a, b
<1>2. (\E n \in 1 .. 3 : a[n] < b[n] /\ \A m \in 1 .. n - 1 : a[m] = b[m])
         <=> (x < y \/ (x = y /\ (i < j \/ (i = j /\ k < l))))
  <2>1. ASSUME x < y PROVE \E n \in 1 .. 3 : a[n] < b[n] /\ \A m \in 1 .. n - 1 : a[m] = b[m]
    <3>1. 1 \in 1 .. 3 /\ a[1] < b[1] /\ \A m \in 1 .. 1 - 1 : a[m] = b[m]
      BY <1>1, <2>1
    <3>2. QED
      BY <3>1
  <2>2. ASSUME x = y, i < j PROVE \E n \in 1 .. 3 : a[n] < b[n] /\ \A m \in 1 .. n - 1 : a[m] = b[m]
    <3>1. 2 \in 1 .. 3 /\ a[2] < b[2] /\ \A m \in 1 .. 2 - 1 : a[m] = b[m]
      BY <1>1, <2>2
    <3>2. QED
      BY <3>1
  <2>3. ASSUME x = y, i = j, k < l PROVE \E n \in 1 .. 3 : a[n] < b[n] /\ \A m \in 1 .. n - 1 : a[m] = b[m]
    <3>1. 3 \in 1 .. 3 /\ a[3] < b[3] /\ \A m \in 1 .. 3 - 1 : a[m] = b[m]
      BY <1>1, <2>3
    <3>2. QED
      BY <3>1
  <2>4. ASSUME NEW n \in 1 .. 3, a[n] < b[n], \A m \in 1 .. n - 1 : a[m] = b[m]
        PROVE  x < y \/ (x = y /\ (i < j \/ (i = j /\ k < l)))
    <3>1. n = 1 \/ (n = 2 /\ 1 \in 1 .. n - 1) \/ (n = 3 /\ 1 \in 1 .. n - 1 /\ 2 \in 1 .. n - 1)
      OBVIOUS
    <3>2. QED
      BY <1>1, <2>4, <3>1
  <2>5. QED
    BY <2>1, <2>2, <2>3, <2>4
<1>3. QED
  BY <1>1, <1>2 DEF Lite!Lexicographic, Pg!Lexicographic, a, b

-----------------------------------------------------------------------------
\* The methods that update a row and return it.
ConsumeCall(p, db, hash, now, at) ==
  IF p = "lite" THEN Lite!AgentsConsumeEnrollmentToken(db, hash, now, at)
                ELSE Pg!AgentsConsumeEnrollmentToken(db, hash, now, at)
ClaimCall(p, db, params) == IF p = "lite" THEN Lite!RunsClaimProbe(db, params) ELSE Pg!RunsClaimProbe(db, params)
UpdateCall(p, db, incident) ==
  IF p = "lite" THEN Lite!IncidentsUpdate(db, incident) ELSE Pg!IncidentsUpdate(db, incident)

TokenRead(p, r) == IF p = "lite" THEN Lite!MapEnrollmentToken(r) ELSE Pg!MapEnrollmentToken(r)
RunRead(p, r) == IF p = "lite" THEN Lite!MapRun(r) ELSE Pg!MapRun(r)

Rank(p, v) == IF p = "lite" THEN Lite!Julian(v) ELSE v

ConsumeHit(p, db, hash, now) ==
  {r \in db["agent_enrollment_tokens"] : /\ r.token_hash = hash /\ r.consumed_at = Null
                                         /\ Rank(p, r.expires_at) > Rank(p, Moment(p, now))}
ConsumeNew(p, hit, at) == {[r EXCEPT !.consumed_at = Moment(p, at)] : r \in hit}

LEMMA ConsumeIs ==
  ASSUME NEW p \in Profiles, NEW db, NEW hash, NEW now \in Nat, NEW at \in Nat,
         NEW hit, hit = ConsumeHit(p, db, hash, now), NEW new, new = ConsumeNew(p, hit, at)
  PROVE  /\ new = {} => ConsumeCall(p, db, hash, now, at) = [db |-> db, value |-> Nothing, error |-> "none"]
         /\ \A s : new = {s} =>
              ConsumeCall(p, db, hash, now, at)
                = [db |-> [db EXCEPT !["agent_enrollment_tokens"] = (@ \ hit) \cup {s}], value |-> TokenRead(p, s),
                   error |-> "none"]
<1>1. now # Nothing /\ at # Nothing
  BY NatIsSome
<1>2. \A s : (CHOOSE x \in {s} : TRUE) = s
  OBVIOUS
<1> DEFINE after == [db EXCEPT !["agent_enrollment_tokens"] = (@ \ hit) \cup new]
<1>3. CASE p = "lite"
  <2> DEFINE q == [token_hash |-> hash, now |-> Lite!FormatTime(now), consumed_at |-> Lite!FormatTime(at)]
             answer == Lite!ConsumeAgentEnrollmentToken(db, q)
  <2>1. answer = Lite!One(Lite!Answer(after, new))
    BY <1>1, <1>3 DEF Lite!ConsumeAgentEnrollmentToken, Lite!Update, ConsumeHit, ConsumeNew, Rank, Moment
  <2>2. ConsumeCall(p, db, hash, now, at)
          = IF answer.error = "no_rows" THEN Lite!Reply(Lite!Answer(db, {}), Nothing)
            ELSE Lite!Found(answer, Lite!Always, Lite!MapEnrollmentToken)
    BY <1>1, <1>3 DEF ConsumeCall, Lite!AgentsConsumeEnrollmentToken, Lite!NullableTimeValue
  <2> HIDE DEF answer, after
  <2>3. ASSUME new = {} PROVE ConsumeCall(p, db, hash, now, at) = [db |-> db, value |-> Nothing, error |-> "none"]
    <3>1. answer.error = "no_rows"
      BY <2>1, <2>3, OneMissing
    <3>2. QED
      BY <2>2, <3>1 DEF Lite!Reply, Lite!Answer, Lite!RepositoryError
  <2>4. ASSUME NEW s, new = {s}
        PROVE  ConsumeCall(p, db, hash, now, at) = [db |-> after, value |-> TokenRead(p, s), error |-> "none"]
    <3>1. answer = [db |-> after, rows |-> {s}, error |-> "none"]
      BY <2>1, <2>4, OneFound
    <3>2. QED
      BY <1>2, <1>3, <2>2, <3>1 DEF Lite!Found, Lite!Reply, Lite!RepositoryError, Lite!Always, TokenRead
  <2>5. QED
    BY <2>3, <2>4 DEF after
<1>4. CASE p = "pg"
  <2> DEFINE q == [token_hash |-> hash, now |-> Pg!FormatTime(now), consumed_at |-> Pg!FormatTime(at)]
             answer == Pg!ConsumeAgentEnrollmentToken(db, q)
  <2>1. answer = Pg!One(Pg!Answer(after, new))
    BY <1>1, <1>4 DEF Pg!ConsumeAgentEnrollmentToken, Pg!Update, ConsumeHit, ConsumeNew, Rank, Moment
  <2>2. ConsumeCall(p, db, hash, now, at)
          = IF answer.error = "no_rows" THEN Pg!Reply(Pg!Answer(db, {}), Nothing)
            ELSE Pg!Found(answer, Pg!Always, Pg!MapEnrollmentToken)
    BY <1>1, <1>4 DEF ConsumeCall, Pg!AgentsConsumeEnrollmentToken, Pg!NullableTimeValue
  <2> HIDE DEF answer, after
  <2>3. ASSUME new = {} PROVE ConsumeCall(p, db, hash, now, at) = [db |-> db, value |-> Nothing, error |-> "none"]
    <3>1. answer.error = "no_rows"
      BY <2>1, <2>3, OneMissing
    <3>2. QED
      BY <2>2, <3>1 DEF Pg!Reply, Pg!Answer, Pg!RepositoryError
  <2>4. ASSUME NEW s, new = {s}
        PROVE  ConsumeCall(p, db, hash, now, at) = [db |-> after, value |-> TokenRead(p, s), error |-> "none"]
    <3>1. answer = [db |-> after, rows |-> {s}, error |-> "none"]
      BY <2>1, <2>4, OneFound
    <3>2. QED
      BY <1>2, <1>4, <2>2, <3>1 DEF Pg!Found, Pg!Reply, Pg!RepositoryError, Pg!Always, TokenRead
  <2>5. QED
    BY <2>3, <2>4 DEF after
<1>5. QED
  BY <1>3, <1>4 DEF Profiles
=============================================================================
