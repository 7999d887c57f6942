------------------------------- MODULE Lemmas -------------------------------
(***************************************************************************)
(* What several proofs need: sets of numbers, and what the rules of Health *)
(* return, for any width of the counters.                                  *)
(***************************************************************************)
EXTENDS Health, WellFoundedInduction, TLAPS

\* A set of natural numbers has a least element, and when it is bounded a
\* greatest one.
LEMMA LeastNatural ==
  ASSUME NEW T, T \subseteq Nat, T # {}
  PROVE  \E x \in T : \A y \in T : x <= y
<1>1. PICK x \in T : \A y \in T : ~ (<<y, x>> \in OpToRel(<, Nat))
  BY WFMin, NatLessThanWellFounded, Zenon
<1>2. \A y \in T : ~ (y < x)
  BY <1>1, Zenon DEF OpToRel
<1>3. QED
  BY <1>2

LEMMA GreatestNatural ==
  ASSUME NEW T, T \subseteq Nat, T # {}, NEW b \in Nat, \A x \in T : x <= b
  PROVE  \E x \in T : \A y \in T : y <= x
<1> DEFINE U == {b - x : x \in T}
<1>0. \A x \in T : b - x \in Nat
  OBVIOUS
<1>1. U \subseteq Nat /\ U # {}
  BY <1>0
<1>2. PICK u \in U : \A v \in U : u <= v
  BY <1>1, LeastNatural
<1>3. PICK x \in T : u = b - x
  OBVIOUS
<1>4. ASSUME NEW y \in T PROVE y <= x
  BY <1>2, <1>3, b - y \in U
<1>5. QED
  BY <1>4

-----------------------------------------------------------------------------
\* A counter keeps its width, at the wrap too.
LEMMA BumpType == ASSUME NEW c \in Counter PROVE Bump(c) \in Counter
<1>1. c \in Int /\ 0 <= c /\ c + 1 <= CounterModulus /\ CounterModulus \in Nat
  BY CounterAssumption DEF Counter
<1>2. (c + 1) % CounterModulus \in 0 .. CounterModulus - 1
  BY <1>1, CounterAssumption
<1>3. QED
  BY <1>2 DEF Bump, Counter

\* A probe outcome keeps the row well-formed, and never makes it unknown.
LEMMA ApplyProbeType ==
  ASSUME NEW row \in LocationHealth, NEW passed \in BOOLEAN, NEW thresholds
  PROVE  /\ ApplyProbe(row, passed, thresholds) \in LocationHealth
         /\ ApplyProbe(row, passed, thresholds).state = "unknown"
              => row.state = "unknown"
<1>1. 0 \in Counter
  BY CounterAssumption DEF Counter
<1>2. CASE passed
  <2>1. Bump(row.successes) \in Counter
    BY BumpType DEF LocationHealth
  <2>2. QED
    BY <1>1, <1>2, <2>1 DEF ApplyProbe, ApplySuccess, LocationHealth, LocationState
<1>3. CASE ~passed
  <2>1. Bump(row.failures) \in Counter
    BY BumpType DEF LocationHealth
  <2>2. QED
    BY <1>1, <1>3, <2>1 DEF ApplyProbe, ApplyFailure, LocationHealth, LocationState
<1>4. QED
  BY <1>2, <1>3

LEMMA StaleLocationType == StaleLocation \in LocationHealth
BY CounterAssumption DEF StaleLocation, LocationHealth, LocationState, Counter, NoDeadline

\* One outcome adds at most one to the streaks, and ends the other one.
LEMMA ApplyProbeCounts ==
  ASSUME NEW row \in LocationHealth, NEW passed \in BOOLEAN, NEW thresholds
  PROVE  ApplyProbe(row, passed, thresholds).failures + ApplyProbe(row, passed, thresholds).successes
           <= row.failures + row.successes + 1
<1> DEFINE f == row.failures
<1> DEFINE s == row.successes
<1>1. f \in Counter /\ s \in Counter /\ f \in Nat /\ s \in Nat
  BY CounterAssumption DEF LocationHealth, Counter
<1>2. Bump(f) \in Nat /\ Bump(f) <= f + 1 /\ Bump(s) \in Nat /\ Bump(s) <= s + 1
  BY <1>1, CounterAssumption DEF Bump, Counter
<1> HIDE DEF f, s
<1>3. CASE passed
  <2>1. /\ ApplyProbe(row, passed, thresholds).failures = 0
        /\ ApplyProbe(row, passed, thresholds).successes = Bump(s)
    BY <1>3 DEF ApplyProbe, ApplySuccess, LocationHealth, s
  <2>2. ApplyProbe(row, passed, thresholds).failures + ApplyProbe(row, passed, thresholds).successes
          <= f + s + 1
    BY <1>1, <1>2, <2>1
  <2>3. QED
    BY <2>2 DEF f, s
<1>4. CASE ~passed
  <2>1. /\ ApplyProbe(row, passed, thresholds).successes = 0
        /\ ApplyProbe(row, passed, thresholds).failures = Bump(f)
    BY <1>4 DEF ApplyProbe, ApplyFailure, LocationHealth, f
  <2>2. ApplyProbe(row, passed, thresholds).failures + ApplyProbe(row, passed, thresholds).successes
          <= f + s + 1
    BY <1>1, <1>2, <2>1
  <2>3. QED
    BY <2>2 DEF f, s
<1>5. QED
  BY <1>3, <1>4

\* An incident is not the absence of one.
LEMMA IncidentIsNotNoIncident ==
  ASSUME NEW state \in Unhealthy
  PROVE  IncidentAt(state) # NoIncident /\ IncidentAt(state) \in Incident
BY DEF IncidentAt, NoIncident, Unhealthy, Incident, Severity, SeverityFor

\* Where an incident stands after its monitor became healthy or unhealthy.
LEMMA IncidentFollows ==
  ASSUME NEW active \in Incident, NEW state \in {"up"} \union Unhealthy
  PROVE  IncidentAfter(active, state) = IF state = "up" THEN NoIncident ELSE IncidentAt(state)
<1>1. "up" \notin Unhealthy
  BY DEF Unhealthy
<1>2. CASE state = "up" /\ active = NoIncident
  <2>1. IncidentAction(active, state) = "none"
    BY <1>1, <1>2 DEF IncidentAction
  <2>2. QED
    BY <1>2, <2>1 DEF IncidentAfter
<1>3. CASE state = "up" /\ active # NoIncident
  <2>1. IncidentAction(active, state) = "recover"
    BY <1>3 DEF IncidentAction
  <2>2. QED
    BY <1>3, <2>1 DEF IncidentAfter
<1>4. CASE state # "up" /\ active = NoIncident
  <2>1. IncidentAction(active, state) = "open"
    BY <1>4 DEF IncidentAction
  <2>2. QED
    BY <1>4, <2>1 DEF IncidentAfter
<1>5. CASE state # "up" /\ active # NoIncident /\ active = IncidentAt(state)
  <2>1. IncidentAction(active, state) = "none"
    BY <1>5 DEF IncidentAction
  <2>2. QED
    BY <1>5, <2>1 DEF IncidentAfter
<1>6. CASE state # "up" /\ active # NoIncident /\ active # IncidentAt(state)
  <2>1. IncidentAction(active, state) = "change"
    BY <1>6 DEF IncidentAction
  <2>2. QED
    BY <1>6, <2>1 DEF IncidentAfter
<1>7. QED
  BY <1>2, <1>3, <1>4, <1>5, <1>6
=============================================================================
