-------------------------- MODULE MonitoringProofs --------------------------
(***************************************************************************)
(* Proofs about how a monitor is probed, what its history makes of its     *)
(* health, and how the console shows it.                                   *)
(***************************************************************************)
EXTENDS Probing, HealthHistory, Console, Refresh, Lemmas,
        SequenceTheorems, FunctionTheorems, FiniteSetTheorems

-----------------------------------------------------------------------------
(***************************************************************************)
(* Probing.                                                                *)
(***************************************************************************)
\* Nothing has the length nothing.
LEMMA TotalOfNothing == Total(<<>>) = 0
<1> DEFINE step(f) == [s \in SUBSET {} |-> IF s = {} THEN 0 ELSE <<>>[CHOOSE x \in s : TRUE] + f[s \ {CHOOSE x \in s : TRUE}]]
<1>1. \A f : step(f) = [s \in SUBSET {} |-> 0]
  OBVIOUS
<1>2. DOMAIN <<>> = {}
  OBVIOUS
<1>3. QED
  BY <1>1, <1>2, ZenonT(30) DEF Total, FoldFunction, FoldFunctionOnSet, MapThenFoldSet

\* The values that are reported are the longest start of the answer that fits,
\* so they fit.
LEMMA BoundedValuesFit ==
  ASSUME NEW lengths \in Answers
  PROVE  /\ BoundDNSValues(lengths) \in Seq(Nat)
         /\ Len(BoundDNSValues(lengths)) <= MaxValues
         /\ Total(BoundDNSValues(lengths)) <= MaxBytes
<1> DEFINE Good(n) == \A k \in 1 .. n : Fits(lengths, k)
<1> DEFINE T == {n \in 0 .. Len(lengths) : Good(n)}
<1> DEFINE Longest(n) == Good(n) /\ (n < Len(lengths) => ~ Fits(lengths, n + 1))
<1>0. lengths \in Seq(Nat) /\ Len(lengths) \in Nat /\ MaxValues \in Nat /\ MaxBytes \in Nat
  BY ProbingAssumption
<1>1. PICK n \in T : \A m \in T : m <= n
  <2>1. 0 \in T
    BY <1>0
  <2>2. T \subseteq Nat /\ \A x \in T : x <= Len(lengths)
    BY <1>0
  <2>3. QED
    BY <1>0, <2>1, <2>2, GreatestNatural
<1>2. Longest(n)
  <2>1. ASSUME n < Len(lengths), Fits(lengths, n + 1) PROVE FALSE
    <3>1. Good(n + 1)
      BY <2>1, <1>0 DEF T
    <3>2. n + 1 \in T
      BY <2>1, <3>1, <1>0 DEF T
    <3>3. QED
      BY <1>0, <1>1, <3>2
  <2>2. QED
    BY <2>1
<1> DEFINE m == CHOOSE i \in 0 .. Len(lengths) : Longest(i)
<1>3. m \in 0 .. Len(lengths) /\ Longest(m)
  <2>1. \E i \in 0 .. Len(lengths) : Longest(i)
    BY <1>2
  <2> HIDE DEF Longest
  <2>2. QED
    BY <2>1
<1>4. BoundDNSValues(lengths) = SubSeq(lengths, 1, m)
  BY DEF BoundDNSValues
<1> HIDE DEF m
<1>5. SubSeq(lengths, 1, m) \in Seq(Nat) /\ Len(SubSeq(lengths, 1, m)) = m
  BY <1>0, <1>3, SubSeqProperties
<1>6. CASE m = 0
  <2>1. SubSeq(lengths, 1, m) = <<>>
    BY <1>0, <1>5, <1>6, EmptySeq
  <2>2. BoundDNSValues(lengths) = <<>>
    BY <1>4, <2>1
  <2> HIDE DEF Longest, Good, T
  <2>3. QED
    BY <1>0, <2>2, TotalOfNothing
<1>7. CASE m # 0
  <2>1. Fits(lengths, m)
    BY <1>0, <1>3, <1>7
  <2>2. QED
    BY <1>4, <1>5, <2>1 DEF Fits
<1>8. QED
  BY <1>6, <1>7

-----------------------------------------------------------------------------
\* What is left to dial was validated.
DialsAllowed ==
  /\ addresses \in Seq(Address) /\ ValidatesAll(addresses) /\ (stage = "dial" => addresses # <<>>)
  /\ OnlyAllowedDialled

\* Nothing is reported before the end but what an answer has brought.
ReportIsOpen ==
  /\ result = [code |-> result.code, status |-> result.status, values |-> result.values]
  /\ stage # "done" => result.code = "none"
  /\ stage \notin {"body", "done"} => result.status = 0
  /\ Len(result.values) <= MaxValues /\ Total(result.values) <= MaxBytes

\* How much of the assertions holds at each stage.
AssertedSoFar ==
  /\ stage \in {"handshake", "exchange", "body", "read", "again"} => dialled # {}
  /\ stage = "body" =>
       /\ probe.kind = "http" /\ ~ Expires
       /\ observed = <<result.status>> /\ (result.status \in 0 .. 599 \/ observed[1] > 599)
  /\ stage = "handshake" => target.tls
  /\ stage = "again" => probe.kind = "dns"
  /\ stage = "read" =>
       probe.kind = "tcp" /\ probe.expect # <<>> /\ ~ Contains(observed, probe.expect)
  /\ probe.kind = "tcp" =>
       /\ stage \notin {"start", "done"} => target.tls = probe.remaining
       /\ observed \in Seq(Byte) /\ (stage \notin {"read", "done"} => observed = <<>>)
       /\ stage \in {"exchange", "read"} /\ probe.remaining => peer = "lasting"

ProbingInv ==
  /\ probe \in Probe
  /\ DialsAllowed
  /\ ReportIsOpen
  /\ AssertedSoFar
  /\ PassedMeansAsserted
  /\ AcceptableResult

LEMMA ProbingInvInit == ProbingInit => ProbingInv
<1> SUFFICES ASSUME ProbingInit PROVE ProbingInv
  OBVIOUS
<1>1. DialsAllowed
  BY DEF ProbingInit, DialsAllowed, ValidatesAll, OnlyAllowedDialled
<1>2. ReportIsOpen
  BY TotalOfNothing, ProbingAssumption DEF ProbingInit, ReportIsOpen, NoResult
<1>3. AssertedSoFar
  BY DEF ProbingInit, AssertedSoFar
<1>4. QED
  BY <1>1, <1>2, <1>3 DEF ProbingInv, ProbingInit, PassedMeansAsserted, AcceptableResult

LEMMA ContainsNothing ==
  /\ Contains(<<>>, <<>>)
  /\ \A e \in Seq(Byte) : e # <<>> => ~ Contains(<<>>, e)
<1>1. SubSeq(<<>>, 1, 0) = <<>> /\ Len(<<>>) = 0
  OBVIOUS
<1>2. Contains(<<>>, <<>>)
  BY <1>1 DEF Contains
<1>3. ASSUME NEW e \in Seq(Byte), e # <<>> PROVE ~ Contains(<<>>, e)
  <2>1. Len(e) \in Nat \ {0}
    BY <1>3, EmptySeq
  <2>2. 0 .. Len(<<>>) - Len(e) = {}
    BY <1>1, <2>1
  <2>3. QED
    BY <2>2 DEF Contains
<1>4. QED
  BY <1>2, <1>3

LEMMA NoStatus == 0 \in 0 .. 599
OBVIOUS

\* A report that says nothing of the content ends an execution that had none.
LEMMA ProbingFails ==
  ASSUME ProbingInv, stage # "done", NEW code \in Codes \ (Mismatches \cup {""}), Report(code),
         stage = "body" => observed' = observed,
         probe' = probe, DialsAllowed',
         probe.kind = "tcp" => observed' = observed
  PROVE  ProbingInv'
<1>1. stage' = "done" /\ result'.code = code /\ result'.status = result.status /\ result'.values = result.values
      /\ result' = [code |-> result'.code, status |-> result'.status, values |-> result'.values]
  BY DEF Report, Go, ProbingInv, ReportIsOpen
<1>3. ReportIsOpen'
  BY <1>1 DEF ProbingInv, ReportIsOpen
<1>4. AssertedSoFar'
  BY <1>1 DEF ProbingInv, AssertedSoFar
<1>5. PassedMeansAsserted'
  BY <1>1 DEF PassedMeansAsserted
<1>6. AcceptableResult'
  <2>1. result.status \in 0 .. 599 \/ observed'[1] > 599
    <3>1. CASE stage = "body"
      BY <3>1 DEF ProbingInv, AssertedSoFar
    <3>2. CASE stage # "body"
      <4>1. result.status = 0
        BY <3>2 DEF ProbingInv, ReportIsOpen
      <4>2. QED
        BY <4>1, NoStatus, Zenon
    <3>3. QED
      BY <3>1, <3>2
  <2>2. QED
    BY <1>1, <2>1 DEF AcceptableResult, ProbingInv, ReportIsOpen
<1>7. QED
  BY <1>3, <1>4, <1>5, <1>6 DEF ProbingInv

\* What was dialled, and is left to be, is as it was.
LEMMA DialsUnchanged ==
  ASSUME ProbingInv, stage' # "dial", addresses' = addresses, dialled' = dialled
  PROVE  DialsAllowed'
BY DEF ProbingInv, DialsAllowed, OnlyAllowedDialled, ValidatesAll

\* Between two stages nothing is reported.
LEMMA ProbingGoesOn ==
  ASSUME ProbingInv, stage' \notin {"body", "done"}, stage \notin {"body", "done"},
         probe' = probe, result' = result, DialsAllowed', AssertedSoFar'
  PROVE  ProbingInv'
<1>1. ReportIsOpen'
  BY DEF ProbingInv, ReportIsOpen
<1>2. PassedMeansAsserted' /\ AcceptableResult'
  BY DEF PassedMeansAsserted, AcceptableResult
<1>3. QED
  BY <1>1, <1>2 DEF ProbingInv

\* Resolution and dialling: what is dialled was validated before.
LEMMA ProbingDials ==
  ASSUME ProbingInv, Execute \/ (\E found \in Resolutions : Resolve(found)) \/ Dial
  PROVE  ProbingInv'
<1>0. /\ probe \in Probe /\ DialsAllowed /\ ReportIsOpen /\ AssertedSoFar
      /\ probe.kind \in {"http", "tcp", "dns", "other"} /\ (probe.kind = "tcp" => probe.tls = probe.remaining)
  BY ProbeAssumption DEF ProbingInv
<1>1. CASE Execute
  <2>1. CASE \E code \in {"protocol_error", "target_denied"} : Report(code)
    <3>1. PICK code \in {"protocol_error", "target_denied"} : Report(code)
      BY <2>1
    <3>2. DialsAllowed'
      BY <1>1, <3>1, DialsUnchanged DEF Execute, Report, Go
    <3>3. code \in Codes \ (Mismatches \cup {""})
      BY DEF Codes, Mismatches
    <3>4. QED
      BY <1>1, <3>1, <3>2, <3>3, ProbingFails DEF Execute
  <2>2. CASE Go("resolve") /\ target' = [host |-> probe.host, tls |-> probe.tls] /\ UNCHANGED result
    <3>1. DialsAllowed'
      BY <1>0, <1>1, <2>2 DEF Execute, Go, DialsAllowed, OnlyAllowedDialled, ValidatesAll
    <3>2. AssertedSoFar'
      BY <1>0, <1>1, <2>2 DEF Execute, Go, AssertedSoFar
    <3>3. QED
      BY <1>1, <2>2, <3>1, <3>2, ProbingGoesOn DEF Execute, Go
  <2>3. QED
    BY <1>1, <2>1, <2>2 DEF Execute
<1>2. ASSUME NEW found \in Resolutions, Resolve(found) PROVE ProbingInv'
  <2>1. CASE \E code \in {"dns_error", "target_denied"} : Report(code) /\ UNCHANGED addresses
    <3>1. PICK code \in {"dns_error", "target_denied"} : Report(code) /\ UNCHANGED addresses
      BY <2>1
    <3>2. DialsAllowed'
      BY <1>2, <3>1, DialsUnchanged DEF Resolve, Report, Go
    <3>3. code \in Codes \ (Mismatches \cup {""})
      BY DEF Codes, Mismatches
    <3>4. QED
      BY <1>2, <3>1, <3>2, <3>3, ProbingFails DEF Resolve
  <2>2. CASE Go("dial") /\ addresses' = found /\ UNCHANGED result /\ found # <<>> /\ ValidatesAll(found)
    <3>1. found \in Seq(Address)
      <4>1. \A a, b \in Address : <<a>> \in Seq(Address) /\ <<a, b>> \in Seq(Address)
        OBVIOUS
      <4>2. <<>> \in Seq(Address)
        OBVIOUS
      <4>3. \/ \E a \in Address : found = <<a>>
            \/ \E a, b \in Address : found = <<a, b>>
            \/ found = <<>>
        BY DEF Resolutions
      <4>4. QED
        BY <4>1, <4>2, <4>3, Zenon
    <3>2. DialsAllowed'
      BY <1>0, <1>2, <2>2, <3>1 DEF Resolve, Go, DialsAllowed, OnlyAllowedDialled, ValidatesAll
    <3>3. AssertedSoFar'
      BY <1>0, <1>2, <2>2 DEF Resolve, Go, AssertedSoFar
    <3>4. QED
      BY <1>2, <2>2, <3>2, <3>3, ProbingGoesOn DEF Resolve, Go
  <2>3. QED
    BY <1>2, <2>1, <2>2 DEF Resolve
<1>3. CASE Dial
  <2>1. Head(addresses) = addresses[1] /\ addresses # <<>> /\ addresses \in Seq(Address)
    BY <1>0, <1>3 DEF Dial, DialsAllowed
  <2>2. ValidateAddress(Head(addresses)) /\ Tail(addresses) \in Seq(Address) /\ ValidatesAll(Tail(addresses))
    <3>1. Len(addresses) \in Nat \ {0} /\ DOMAIN addresses = 1 .. Len(addresses)
      BY <2>1, EmptySeq, LenProperties
    <3>2. ValidateAddress(Head(addresses))
      BY <1>0, <2>1, <3>1 DEF DialsAllowed, ValidatesAll
    <3>3. /\ Tail(addresses) \in Seq(Address) /\ Len(Tail(addresses)) = Len(addresses) - 1
          /\ \A i \in 1 .. Len(Tail(addresses)) : Tail(addresses)[i] = addresses[i + 1]
      BY <2>1, HeadTailProperties
    <3>4. ValidatesAll(Tail(addresses))
      BY <1>0, <3>1, <3>3, LenProperties DEF DialsAllowed, ValidatesAll
    <3>5. QED
      BY <3>2, <3>3, <3>4
  <2>3. addresses' \in Seq(Address) /\ ValidatesAll(addresses')
    BY <1>3, <2>2 DEF Dial, ValidatesAll
  <2>4. \A a \in dialled' : ValidateAddress(a)
    BY <1>0, <1>3, <2>2 DEF Dial, DialsAllowed, OnlyAllowedDialled
  <2>5. dialled' # {} /\ probe' = probe /\ observed' = observed /\ target' = target
    BY <1>3 DEF Dial
  <2>6. CASE stage' \in {"handshake", "exchange", "dial"} /\ UNCHANGED result /\ (stage' = "exchange" => ~ target.tls)
              /\ (stage' = "handshake" => target.tls) /\ (stage' = "dial" => addresses' # <<>>)
    <3>1. DialsAllowed'
      BY <2>3, <2>4, <2>6 DEF DialsAllowed, OnlyAllowedDialled, ValidatesAll
    <3>2. AssertedSoFar'
      BY <1>0, <1>3, <2>5, <2>6 DEF Dial, AssertedSoFar
    <3>3. QED
      BY <1>3, <2>5, <2>6, <3>1, <3>2, ProbingGoesOn DEF Dial
  <2>7. CASE \E code \in {"connect_error", "timeout"} : Report(code)
    <3>1. DialsAllowed'
      BY <2>3, <2>4, <2>7 DEF DialsAllowed, OnlyAllowedDialled, ValidatesAll, Report, Go
    <3>2. PICK code \in {"connect_error", "timeout"} : Report(code)
      BY <2>7
    <3>3. code \in Codes \ (Mismatches \cup {""})
      BY DEF Codes, Mismatches
    <3>4. QED
      BY <1>3, <3>1, <3>2, <3>3, ProbingFails DEF Dial
  <2>8. QED
    BY <1>3, <2>6, <2>7 DEF Dial, Go, Talk, ReportAny
<1>4. QED
  BY <1>1, <1>2, <1>3

\* A handshake, and what HTTP does before it has a body.
LEMMA ProbingTalks ==
  ASSUME ProbingInv,
         \/ \E certificate \in {"none", "expiring", "lasting"} : Handshake(certificate)
         \/ HTTPFails \/ BodyTooLarge
         \/ \E to \in Destinations : Redirect(to)
         \/ \E status \in {200, 302, 404, 700} : Response(status)
  PROVE  ProbingInv'
<1>0. /\ probe \in Probe /\ DialsAllowed /\ ReportIsOpen /\ AssertedSoFar
      /\ probe.kind \in {"http", "tcp", "dns", "other"} /\ probe.remaining \in BOOLEAN
  BY ProbeAssumption DEF ProbingInv
<1>1. ASSUME NEW certificate \in {"none", "expiring", "lasting"}, Handshake(certificate) PROVE ProbingInv'
  <2>1. CASE \E code \in {"tls_error", "timeout", "connect_error", "protocol_error"} : Report(code)
    <3>1. PICK code \in {"tls_error", "timeout", "connect_error", "protocol_error"} : Report(code)
      BY <2>1
    <3>2. DialsAllowed'
      BY <1>1, <3>1, DialsUnchanged DEF Handshake, Report, Go
    <3>3. code \in Codes \ (Mismatches \cup {""})
      BY DEF Codes, Mismatches
    <3>4. QED
      BY <1>1, <3>1, <3>2, <3>3, ProbingFails, ZenonT(30) DEF Handshake
  <2>2. CASE Report("tls_expiring") /\ certificate = "expiring" /\ probe.kind = "tcp"
    <3>1. /\ stage' = "done" /\ probe' = probe /\ observed' = observed /\ dialled' = dialled
          /\ result' = [code |-> "tls_expiring", status |-> result.status, values |-> result.values]
          /\ result.status = 0
      BY <1>0, <1>1, <2>2 DEF Handshake, Report, Go, ReportIsOpen
    <3>2. probe.remaining /\ peer' = "expiring"
      BY <1>0, <1>1, <2>2 DEF Handshake, AssertedSoFar
    <3>3. DialsAllowed'
      BY <1>1, <3>1, DialsUnchanged DEF Handshake
    <3>4. ReportIsOpen' /\ AssertedSoFar'
      BY <1>0, <2>2, <3>1 DEF ReportIsOpen, AssertedSoFar
    <3>5. PassedMeansAsserted'
      BY <2>2, <3>1, <3>2 DEF PassedMeansAsserted, Asserted
    <3>6. AcceptableResult'
      BY <1>0, <3>1, NoStatus DEF AcceptableResult, Codes, ReportIsOpen
    <3>7. QED
      BY <1>0, <3>1, <3>3, <3>4, <3>5, <3>6 DEF ProbingInv
  <2>3. CASE Go("exchange") /\ UNCHANGED result /\ ~ (certificate = "expiring" /\ probe.kind = "tcp") /\ certificate # "none"
    <3>1. DialsAllowed'
      BY <1>1, <2>3, DialsUnchanged DEF Handshake, Go
    <3>2. AssertedSoFar'
      BY <1>0, <1>1, <2>3 DEF Handshake, Go, AssertedSoFar
    <3>3. QED
      BY <1>1, <2>3, <3>1, <3>2, ProbingGoesOn DEF Handshake, Go
  <2>4. QED
    BY <1>1, <2>1, <2>2, <2>3 DEF Handshake, ReportAny
<1>2. CASE HTTPFails \/ BodyTooLarge
  <2>1. PICK code \in {"timeout", "connect_error", "protocol_error", "response_too_large"} : Report(code)
    BY <1>2 DEF HTTPFails, BodyTooLarge, ReportAny
  <2>2. DialsAllowed'
    BY <1>2, <2>1, DialsUnchanged DEF HTTPFails, BodyTooLarge, Report, Go
  <2>3. code \in Codes \ (Mismatches \cup {""})
    BY DEF Codes, Mismatches
  <2>4. QED
    BY <1>2, <2>1, <2>2, <2>3, ProbingFails DEF HTTPFails, BodyTooLarge
<1>3. ASSUME NEW to \in Destinations, Redirect(to) PROVE ProbingInv'
  <2>1. CASE RedirectRefused(to) # ""
    <3>1. RedirectRefused(to) \in {"protocol_error", "target_denied"} /\ Report(RedirectRefused(to))
      BY <1>3, <2>1 DEF Redirect, RedirectRefused
    <3>2. DialsAllowed'
      BY <1>3, <2>1, <3>1, DialsUnchanged DEF Redirect, Report, Go
    <3>3. RedirectRefused(to) \in Codes \ (Mismatches \cup {""})
      BY <3>1, ZenonT(30) DEF Codes, Mismatches
    <3>4. QED
      BY <1>3, <2>1, <3>1, <3>2, <3>3, ProbingFails, ZenonT(30) DEF Redirect
  <2>2. CASE RedirectRefused(to) = ""
    <3>1. DialsAllowed'
      BY <1>3, <2>2, DialsUnchanged DEF Redirect, Go
    <3>2. AssertedSoFar'
      <4>1. stage' = "resolve" /\ probe' = probe /\ probe.kind = "http"
        BY <1>3, <2>2 DEF Redirect, Go
      <4>2. QED
        BY <4>1 DEF AssertedSoFar
    <3>3. QED
      BY <1>3, <2>2, <3>1, <3>2, ProbingGoesOn DEF Redirect, Go
  <2>3. QED
    BY <2>1, <2>2, ZenonT(30)
<1>4. ASSUME NEW status \in {200, 302, 404, 700}, Response(status) PROVE ProbingInv'
  <2>0. /\ \/ Expires /\ stage' = "done" /\ result' = [result EXCEPT !.status = status, !.code = "tls_expiring"]
           \/ ~ Expires /\ stage' = "body" /\ result' = [result EXCEPT !.status = status]
    BY <1>4 DEF Response, Go
  <2>1. /\ result' = [code |-> result'.code, status |-> status, values |-> result.values]
        /\ result'.status = status /\ result'.values = result.values
        /\ result'.code = IF Expires THEN "tls_expiring" ELSE "none"
    <3>1. CASE Expires
      <4>1. PICK c, n, v : result = [code |-> c, status |-> n, values |-> v]
        BY <1>0 DEF ReportIsOpen
      <4>2. result' = [result EXCEPT !.status = status, !.code = "tls_expiring"]
        BY <2>0, <3>1
      <4>3. result' = [code |-> "tls_expiring", status |-> status, values |-> v] /\ result.values = v
        BY <4>1, <4>2, ZenonT(30)
      <4>4. QED
        BY <3>1, <4>3
    <3>2. CASE ~ Expires
      <4>1. PICK n, v : result = [code |-> "none", status |-> n, values |-> v]
        BY <1>0, <1>4 DEF ReportIsOpen, Response
      <4>2. QED
        BY <2>0, <3>2, <4>1
    <3>3. QED
      BY <3>1, <3>2
  <2>7. /\ observed' = <<status>> /\ observed'[1] = status /\ probe' = probe /\ peer' = peer
        /\ probe.kind = "http" /\ stage = "exchange" /\ dialled' = dialled /\ addresses' = addresses
    BY <1>4 DEF Response
  <2>2. status \in 0 .. 599 \/ status > 599
    OBVIOUS
  <2>3. DialsAllowed'
    BY <1>4, <2>1, <2>7, DialsUnchanged DEF Response, Go
  <2>4. CASE Expires /\ stage' = "done" /\ result'.code = "tls_expiring"
    <3>1. ReportIsOpen'
      BY <1>0, <2>1, <2>7, <2>4 DEF ReportIsOpen
    <3>2. AssertedSoFar'
      BY <1>0, <2>1, <2>7, <2>4 DEF AssertedSoFar
    <3>3. PassedMeansAsserted'
      BY <2>1, <2>7, <2>4 DEF PassedMeansAsserted, Asserted, Expires
    <3>4. AcceptableResult'
      BY <1>0, <2>1, <2>7, <2>2, <2>4 DEF AcceptableResult, Codes, ReportIsOpen
    <3>5. QED
      BY <1>0, <2>1, <2>7, <2>3, <3>1, <3>2, <3>3, <3>4 DEF ProbingInv
  <2>5. CASE ~ Expires /\ stage' = "body" /\ result'.code = "none"
    <3>1. ReportIsOpen'
      BY <1>0, <2>1, <2>7, <2>5 DEF ReportIsOpen
    <3>2. AssertedSoFar'
      BY <1>0, <2>1, <2>7, <2>2, <2>5 DEF AssertedSoFar, Expires
    <3>3. PassedMeansAsserted' /\ AcceptableResult'
      BY <2>5 DEF PassedMeansAsserted, AcceptableResult
    <3>4. QED
      BY <1>0, <2>1, <2>7, <2>3, <3>1, <3>2, <3>3 DEF ProbingInv
  <2>6. QED
    BY <2>0, <2>1, <2>7, <2>4, <2>5
<1>5. QED
  BY <1>1, <1>2, <1>3, <1>4

\* The body of an HTTP answer.
LEMMA ProbingReadsBody ==
  ASSUME ProbingInv, NEW matches \in BOOLEAN, Body(matches)
  PROVE  ProbingInv'
<1>0. DialsAllowed /\ ReportIsOpen /\ AssertedSoFar /\ probe \in Probe
  BY DEF ProbingInv
<1>1. PICK code \in {"status_mismatch", "body_mismatch", ""} :
        /\ Report(code)
        /\ code = "status_mismatch" <=> ~ StatusMatches
        /\ code = "" <=> StatusMatches /\ matches
  BY DEF Body
<1>2. /\ probe.kind = "http" /\ ~ Expires /\ observed # <<>> /\ stage = "body" /\ dialled # {}
      /\ result.status \in 0 .. 599 \/ observed[1] > 599
  <2>1. stage = "body"
    BY DEF Body
  <2>2. <<result.status>> # <<>>
    OBVIOUS
  <2>3. QED
    BY <1>0, <2>1, <2>2 DEF AssertedSoFar
<1>3. UNCHANGED <<probe, target, addresses, dialled, hops, peer, observed>> /\ holds' = matches /\ stage' = "done"
  BY <1>1 DEF Body, Report, Go
<1>4. /\ result' = [code |-> code, status |-> result.status, values |-> result.values]
      /\ result'.status = result.status /\ result'.values = result.values
  BY <1>0, <1>1 DEF Report, ReportIsOpen
<1>5. DialsAllowed'
  BY <1>3, DialsUnchanged
<1>6. ReportIsOpen' /\ AssertedSoFar'
  BY <1>0, <1>2, <1>3, <1>4 DEF ReportIsOpen, AssertedSoFar
<1>7. PassedMeansAsserted'
  <2>1. StatusMatches' = StatusMatches /\ Expires' = Expires
    BY <1>3 DEF StatusMatches, Expires
  <2>2. Asserted' <=> StatusMatches /\ matches
    BY <1>2, <1>3, <2>1 DEF Asserted, Expires
  <2>3. result'.code = code /\ dialled' # {}
    BY <1>2, <1>3, <1>4
  <2>4. CASE code = ""
    BY <1>1, <2>2, <2>3, <2>4 DEF PassedMeansAsserted, Mismatches
  <2>5. CASE code # ""
    BY <1>1, <2>2, <2>3, <2>5 DEF PassedMeansAsserted, Mismatches
  <2>6. QED
    BY <2>4, <2>5
<1>8. AcceptableResult'
  BY <1>0, <1>2, <1>3, <1>4 DEF AcceptableResult, Codes, ReportIsOpen
<1>9. QED
  BY <1>0, <1>3, <1>5, <1>6, <1>7, <1>8 DEF ProbingInv

\* What TCP sends and reads, in pieces.
LEMMA ProbingReadsStream ==
  ASSUME ProbingInv, Send \/ (\E chunk \in Chunks : ReadChunk(chunk)) \/ ReadEnds
  PROVE  ProbingInv'
<1>0. DialsAllowed /\ ReportIsOpen /\ AssertedSoFar /\ probe \in Probe /\ probe.expect \in Seq(Byte)
  BY ProbeAssumption DEF ProbingInv
\* A report at the end of a stream that holds what is expected, or does not.
<1>1. ASSUME NEW code \in {"", "tcp_expect_mismatch"}, Report(code), stage # "done", stage # "body",
             DialsAllowed', probe' = probe, peer' = peer, probe.kind = "tcp", observed' \in Seq(Byte), dialled' # {},
             code = "" <=> Contains(observed', probe.expect),
             probe.remaining => peer = "lasting"
      PROVE  ProbingInv'
  <2>1. /\ result' = [code |-> code, status |-> result.status, values |-> result.values]
        /\ result'.status = 0 /\ result'.values = result.values /\ stage' = "done"
    BY <1>0, <1>1 DEF Report, Go, ReportIsOpen
  <2>2. ReportIsOpen' /\ AssertedSoFar'
    BY <1>0, <1>1, <2>1 DEF ReportIsOpen, AssertedSoFar
  <2>3. PassedMeansAsserted'
    BY <1>1, <2>1 DEF PassedMeansAsserted, Asserted, Mismatches
  <2>4. AcceptableResult'
    BY <1>0, <1>1, <2>1, NoStatus, ZenonT(30) DEF AcceptableResult, Codes, ReportIsOpen
  <2>5. QED
    BY <1>0, <1>1, <2>2, <2>3, <2>4 DEF ProbingInv
\* One that says nothing of it.
<1>2. ASSUME NEW code \in {"timeout", "protocol_error"}, Report(code), stage # "done",
             addresses' = addresses, dialled' = dialled, probe' = probe, observed' = observed
      PROVE  ProbingInv'
  <2>1. DialsAllowed'
    BY <1>2, DialsUnchanged DEF Report, Go
  <2>2. code \in Codes \ (Mismatches \cup {""})
    BY DEF Codes, Mismatches
  <2>3. QED
    BY <1>2, <2>1, <2>2, ProbingFails
<1>3. CASE Send
  <2>1. stage = "exchange" /\ probe.kind = "tcp" /\ dialled # {} /\ observed = <<>> /\ (probe.remaining => peer = "lasting")
    BY <1>0, <1>3 DEF Send, AssertedSoFar
  <2>2. UNCHANGED <<probe, target, addresses, dialled, hops, peer, observed, holds>>
    BY <1>3 DEF Send
  <2>3. CASE probe.expect = <<>> /\ Report("")
    <3>1. DialsAllowed'
      BY <2>2, <2>3, DialsUnchanged DEF Report, Go
    <3>2. observed' \in Seq(Byte) /\ Contains(observed', probe.expect)
      <4>1. <<>> \in Seq(Byte)
        OBVIOUS
      <4>2. QED
        BY <2>1, <2>2, <2>3, <4>1, ContainsNothing, Zenon
    <3>3. QED
      BY <1>1, <2>1, <2>2, <2>3, <3>1, <3>2
  <2>4. CASE probe.expect # <<>> /\ Go("read") /\ UNCHANGED result
    <3>1. DialsAllowed'
      BY <2>2, <2>4, DialsUnchanged DEF Go
    <3>2. ~ Contains(observed, probe.expect)
      BY <1>0, <2>1, <2>4, ContainsNothing
    <3>3. AssertedSoFar'
      BY <1>0, <2>1, <2>2, <2>4, <3>2 DEF AssertedSoFar, Go
    <3>4. QED
      BY <2>1, <2>2, <2>4, <3>1, <3>3, ProbingGoesOn DEF Go
  <2>5. CASE ReportAny({"timeout", "protocol_error"})
    BY <1>2, <2>1, <2>2, <2>5 DEF ReportAny
  <2>6. QED
    BY <1>3, <2>3, <2>4, <2>5 DEF Send
<1>4. ASSUME NEW chunk \in Chunks, ReadChunk(chunk) PROVE ProbingInv'
  <2>1. /\ stage = "read" /\ probe.kind = "tcp" /\ dialled # {} /\ observed \in Seq(Byte)
        /\ probe.expect # <<>> /\ (probe.remaining => peer = "lasting")
    BY <1>0, <1>4 DEF ReadChunk, AssertedSoFar
  <2>2. observed' = observed \o chunk /\ UNCHANGED <<probe, target, addresses, dialled, hops, peer, holds>>
    BY <1>4 DEF ReadChunk
  <2>3. observed' \in Seq(Byte)
    <3>1. chunk \in Seq(Byte)
      <4>1. PICK n \in 1 .. BufferSize : chunk \in [1 .. n -> Byte]
        BY DEF Chunks
      <4>2. n \in Nat
        BY ProbingAssumption
      <4>3. QED
        BY <4>1, <4>2
    <3>2. QED
      BY <2>1, <2>2, <3>1, ConcatProperties
  <2>4. CASE Contains(observed', probe.expect) /\ Report("")
    <3>1. DialsAllowed'
      BY <2>2, <2>4, DialsUnchanged DEF Report, Go
    <3>2. QED
      BY <1>1, <2>1, <2>2, <2>3, <2>4, <3>1
  <2>5. CASE ~ Contains(observed', probe.expect) /\ Report("tcp_expect_mismatch")
    <3>1. DialsAllowed'
      BY <2>2, <2>5, DialsUnchanged DEF Report, Go
    <3>2. QED
      BY <1>1, <2>1, <2>2, <2>3, <2>5, <3>1
  <2>6. CASE ~ Contains(observed', probe.expect) /\ UNCHANGED <<stage, result>>
    <3>1. DialsAllowed'
      BY <2>1, <2>2, <2>6, DialsUnchanged
    <3>2. AssertedSoFar'
      BY <1>0, <2>1, <2>2, <2>3, <2>6 DEF AssertedSoFar
    <3>3. QED
      BY <2>1, <2>2, <2>6, <3>1, <3>2, ProbingGoesOn
  <2>7. QED
    BY <1>4, <2>2, <2>4, <2>5, <2>6 DEF ReadChunk, FoundIn
<1>5. CASE ReadEnds
  <2>1. /\ stage = "read" /\ probe.kind = "tcp" /\ dialled # {} /\ observed \in Seq(Byte)
        /\ ~ Contains(observed, probe.expect) /\ (probe.remaining => peer = "lasting")
    BY <1>0, <1>5 DEF ReadEnds, AssertedSoFar
  <2>2. UNCHANGED <<probe, target, addresses, dialled, hops, peer, observed, holds>>
    BY <1>5 DEF ReadEnds
  <2>3. CASE Report("tcp_expect_mismatch")
    <3>1. DialsAllowed'
      BY <2>2, <2>3, DialsUnchanged DEF Report, Go
    <3>2. QED
      BY <1>1, <2>1, <2>2, <2>3, <3>1
  <2>4. CASE ReportAny({"timeout", "protocol_error"})
    BY <1>2, <2>1, <2>2, <2>4 DEF ReportAny
  <2>5. QED
    BY <1>5, <2>3, <2>4 DEF ReadEnds, ReportAny
<1>6. QED
  BY <1>3, <1>4, <1>5

\* The answers to a DNS question.
LEMMA ProbingAsks ==
  ASSUME ProbingInv,
         Truncated \/ DNSFails \/ (\E lengths \in Answers, matches \in BOOLEAN : DNSAnswer(lengths, matches))
  PROVE  ProbingInv'
<1>0. DialsAllowed /\ ReportIsOpen /\ AssertedSoFar /\ probe \in Probe
  BY DEF ProbingInv
<1>1. CASE Truncated
  <2>1. /\ stage = "exchange" /\ stage' = "again" /\ probe.kind = "dns"
        /\ UNCHANGED <<probe, target, addresses, dialled, hops, peer, observed, holds, result>>
    BY <1>1 DEF Truncated, Go
  <2>2. DialsAllowed'
    BY <2>1, DialsUnchanged
  <2>3. AssertedSoFar'
    BY <1>0, <2>1 DEF AssertedSoFar
  <2>4. QED
    BY <2>1, <2>2, <2>3, ProbingGoesOn
<1>2. CASE DNSFails
  <2>1. PICK code \in {"timeout", "dns_error"} : Report(code)
    BY <1>2 DEF DNSFails, ReportAny
  <2>2. DialsAllowed'
    BY <1>2, <2>1, DialsUnchanged DEF DNSFails, Report, Go
  <2>3. code \in Codes \ (Mismatches \cup {""})
    BY DEF Codes, Mismatches
  <2>4. QED
    BY <1>2, <2>1, <2>2, <2>3, ProbingFails DEF DNSFails
<1>3. ASSUME NEW lengths \in Answers, NEW matches \in BOOLEAN, DNSAnswer(lengths, matches) PROVE ProbingInv'
  <2> DEFINE code == IF matches THEN "" ELSE "dns_mismatch"
  <2>1. /\ stage \in {"exchange", "again"} /\ stage' = "done" /\ probe.kind = "dns" /\ holds' = matches
        /\ UNCHANGED <<probe, target, addresses, dialled, hops, peer>>
        /\ result' = [result EXCEPT !.values = BoundDNSValues(lengths), !.code = code]
    BY <1>3 DEF DNSAnswer, Go
  <2>2. PICK c, n, v : result = [code |-> c, status |-> n, values |-> v] /\ n = 0
    BY <1>0, <2>1 DEF ReportIsOpen
  <2>3. result' = [code |-> code, status |-> 0, values |-> BoundDNSValues(lengths)]
    BY <2>1, <2>2
  <2> HIDE DEF code
  <2>4. result'.code = code /\ result'.status = 0 /\ result'.values = BoundDNSValues(lengths)
    BY <2>3
  <2>5. DialsAllowed'
    BY <2>1, DialsUnchanged
  <2>6. ReportIsOpen'
    BY <2>1, <2>3, <2>4, BoundedValuesFit DEF ReportIsOpen
  <2>7. AssertedSoFar' /\ dialled' # {}
    BY <1>0, <2>1 DEF AssertedSoFar
  <2>8. PassedMeansAsserted'
    BY <2>1, <2>4, <2>7 DEF PassedMeansAsserted, Asserted, Mismatches, code
  <2>9. AcceptableResult'
    BY <2>1, <2>4, NoStatus, BoundedValuesFit DEF AcceptableResult, Codes, code
  <2>10. QED
    BY <1>0, <2>1, <2>5, <2>6, <2>7, <2>8, <2>9 DEF ProbingInv
<1>4. QED
  BY <1>1, <1>2, <1>3

LEMMA ProbingStep == ProbingInv /\ [ProbingNext]_probingVars => ProbingInv'
<1> SUFFICES ASSUME ProbingInv, [ProbingNext]_probingVars PROVE ProbingInv'
  OBVIOUS
<1>1. CASE ProbingNext
  BY <1>1, ProbingDials, ProbingTalks, ProbingReadsBody, ProbingReadsStream, ProbingAsks DEF ProbingNext
<1>2. CASE UNCHANGED probingVars
  <2>1. DialsAllowed' /\ ReportIsOpen'
    BY <1>2 DEF probingVars, ProbingInv, DialsAllowed, OnlyAllowedDialled, ValidatesAll, ReportIsOpen
  <2>2. AssertedSoFar' = AssertedSoFar
    BY <1>2 DEF probingVars, AssertedSoFar, Expires
  <2>3. PassedMeansAsserted' = PassedMeansAsserted
    BY <1>2 DEF probingVars, PassedMeansAsserted, Asserted, StatusMatches
  <2>4. AcceptableResult' = AcceptableResult
    BY <1>2 DEF probingVars, AcceptableResult
  <2>5. QED
    BY <1>2, <2>1, <2>2, <2>3, <2>4 DEF probingVars, ProbingInv
<1>3. QED
  BY <1>1, <1>2

\* ProbingInv holds in every state of a probe of any kind, whatever its peers
\* send and however it is cut into pieces.
THEOREM ProbingInvariance == ProbingSpec => []ProbingInv
BY ProbingInvInit, ProbingStep, PTL DEF ProbingSpec

\* No address is dialled that the policy denies, whatever the names resolve to
\* at each hop (every hop resolves and validates before it dials).
THEOREM ProbingOnlyAllowedDialled == ProbingSpec => []OnlyAllowedDialled
<1>1. ProbingInv => OnlyAllowedDialled
  BY DEF ProbingInv, DialsAllowed
<1>2. QED
  BY <1>1, ProbingInvariance, PTL

\* A probe passes only when every assertion holds of what the last target sent,
\* in pieces of any size and after any number of redirects, and a mismatch is
\* reported only when one does not hold.
THEOREM ProbingPassedMeansAsserted == ProbingSpec => []PassedMeansAsserted
<1>1. ProbingInv => PassedMeansAsserted
  BY DEF ProbingInv
<1>2. QED
  BY <1>1, ProbingInvariance, PTL

\* What is reported is what the server accepts, for answers of any lengths and
\* any bounds on the values (boundDNSValues), except for a status above 599.
THEOREM ProbingAcceptableResult == ProbingSpec => []AcceptableResult
<1>1. ProbingInv => AcceptableResult
  BY DEF ProbingInv
<1>2. QED
  BY <1>1, ProbingInvariance, PTL

-----------------------------------------------------------------------------
(***************************************************************************)
(* The health of a location and its history.                               *)
(***************************************************************************)
Event == {"passed", "failed", "stale"}

\* The operators of the property, of any history.
StretchIn(h, n, length, event) == n >= length /\ \A k \in n - length + 1 .. n : h[k] = event
DecisiveIn(h) ==
  {n \in 1 .. Len(h) : \/ h[n] = "stale"
                       \/ StretchIn(h, n, Rule.failures, "failed")
                       \/ StretchIn(h, n, Rule.recoveries, "passed")}
StateAfter(event) == CASE event = "passed" -> "up" [] event = "failed" -> "down" [] OTHER -> "unknown"
StateIn(h) == IF DecisiveIn(h) = {} THEN "pending" ELSE StateAfter(h[Max(DecisiveIn(h))])

\* The history ends in exactly p of these events.
Trailing(h, event, p) ==
  /\ p \in 0 .. Len(h)
  /\ \A k \in Len(h) - p + 1 .. Len(h) : h[k] = event
  /\ p < Len(h) => h[Len(h) - p] # event

\* A counter never exceeds the stretch it counts, and is exact until it wraps.
Counts(h, event, counter) ==
  counter \in Nat /\ \E p \in 0 .. Len(h) : Trailing(h, event, p) /\ counter <= p /\ (p < CounterModulus => counter = p)

HistoryInv ==
  /\ history \in Seq(Event)
  /\ health = [state |-> health.state, failures |-> health.failures, successes |-> health.successes, staleAt |-> NoDeadline]
  /\ health.failures < CounterModulus /\ health.successes < CounterModulus
  /\ Counts(history, "failed", health.failures) /\ Counts(history, "passed", health.successes)
  /\ health.state = StateIn(history)

LEMMA RuleIs ==
  /\ Rule.failures \in Nat \ {0} /\ Rule.failures < CounterModulus
  /\ Rule.recoveries \in Nat \ {0} /\ Rule.recoveries < CounterModulus
  /\ CounterModulus \in Nat \ {0, 1}
BY HistoryAssumption, CounterAssumption DEF Counter

\* One event more.
LEMMA Appended ==
  ASSUME NEW h \in Seq(Event), NEW e \in Event
  PROVE  LET g == Append(h, e) IN
         /\ g \in Seq(Event) /\ Len(g) = Len(h) + 1 /\ Len(h) \in Nat
         /\ g[Len(h) + 1] = e /\ \A k \in 1 .. Len(h) : g[k] = h[k]
BY AppendProperties, LenProperties

LEMMA TrailingGrows ==
  ASSUME NEW h \in Seq(Event), NEW e \in Event, NEW p \in Nat, Trailing(h, e, p)
  PROVE  Trailing(Append(h, e), e, p + 1)
<1> DEFINE g == Append(h, e)
<1> DEFINE n == Len(h)
<1>0. n \in Nat /\ Len(g) = n + 1 /\ g[n + 1] = e /\ \A k \in 1 .. n : g[k] = h[k]
  BY Appended
<1>1. p \in 0 .. n /\ (\A k \in n - p + 1 .. n : h[k] = e) /\ (p < n => h[n - p] # e)
  BY DEF Trailing
<1> HIDE DEF g, n
<1>2. p + 1 \in 0 .. n + 1 /\ n + 1 - (p + 1) = n - p /\ (p + 1 < n + 1 => p < n /\ n - p \in 1 .. n)
  BY <1>0, <1>1
<1>3. \A k \in n - p + 1 .. n + 1 : k = n + 1 \/ (k \in n - p + 1 .. n /\ k \in 1 .. n)
  BY <1>0, <1>1
<1>4. \A k \in n - p + 1 .. n + 1 : g[k] = e
  BY <1>0, <1>1, <1>3
<1>5. p + 1 < n + 1 => g[n - p] # e
  BY <1>0, <1>1, <1>2
<1>6. QED
  BY <1>0, <1>2, <1>4, <1>5 DEF Trailing, g

LEMMA TrailingEnds ==
  ASSUME NEW h \in Seq(Event), NEW e \in Event, NEW f \in Event, e # f
  PROVE  Trailing(Append(h, e), f, 0)
<1> DEFINE g == Append(h, e)
<1>1. Len(h) \in Nat /\ Len(g) = Len(h) + 1 /\ g[Len(h) + 1] = e
  BY Appended
<1> HIDE DEF g
<1>2. Len(g) - 0 = Len(h) + 1 /\ \A k \in Len(g) - 0 + 1 .. Len(g) : FALSE
  BY <1>1
<1>3. QED
  BY <1>1, <1>2 DEF Trailing, g

\* The stretch that ends the history is as long as it is.
LEMMA TrailingStretch ==
  ASSUME NEW h \in Seq(Event), NEW f, NEW p \in Nat, Trailing(h, f, p), NEW length \in Nat \ {0}
  PROVE  StretchIn(h, Len(h), length, f) <=> length <= p
<1> DEFINE n == Len(h)
<1>0. n \in Nat
  BY LenProperties
<1>1. p \in 0 .. n /\ (\A k \in n - p + 1 .. n : h[k] = f) /\ (p < n => h[n - p] # f)
  BY DEF Trailing
<1> HIDE DEF n
<1>2. ASSUME length <= p PROVE n >= length /\ \A k \in n - length + 1 .. n : h[k] = f
  <2>1. \A k \in n - length + 1 .. n : k \in n - p + 1 .. n
    BY <1>0, <1>1, <1>2
  <2>2. QED
    BY <1>0, <1>1, <1>2, <2>1
<1>3. ASSUME n >= length, \A k \in n - length + 1 .. n : h[k] = f, ~ (length <= p) PROVE FALSE
  <2>1. p < n /\ n - p \in n - length + 1 .. n
    BY <1>0, <1>1, <1>3
  <2>2. QED
    BY <1>1, <1>3, <2>1
<1>4. QED
  BY <1>2, <1>3 DEF StretchIn, n

\* The last place is decisive when it is stale or ends a stretch; the others
\* stay what they were.
LEMMA DecisiveGrows ==
  ASSUME NEW h \in Seq(Event), NEW e \in Event
  PROVE  LET g == Append(h, e) IN
         StateIn(g) = IF Len(g) \in DecisiveIn(g) THEN StateAfter(e) ELSE StateIn(h)
<1> DEFINE g == Append(h, e)
<1> DEFINE n == Len(h)
<1> DEFINE D == DecisiveIn(h)
<1> DEFINE E == DecisiveIn(g)
<1>0. n \in Nat /\ Len(g) = n + 1 /\ g[n + 1] = e /\ \A k \in 1 .. n : g[k] = h[k]
  BY Appended
<1>1. D \subseteq 1 .. n /\ E \subseteq 1 .. n + 1
  BY <1>0 DEF DecisiveIn
<1>2. ASSUME NEW m \in 1 .. n, NEW length \in Nat, NEW f
      PROVE  StretchIn(g, m, length, f) <=> StretchIn(h, m, length, f)
  <2>1. m >= length => \A k \in m - length + 1 .. m : k \in 1 .. n
    BY <1>0
  <2>2. QED
    BY <1>0, <2>1 DEF StretchIn
<1>3. ASSUME NEW m \in 1 .. n PROVE m \in D <=> m \in E
  <2>1. m \in 1 .. n + 1
    BY <1>0
  <2>2. g[m] = h[m]
    BY <1>0
  <2>3. /\ StretchIn(g, m, Rule.failures, "failed") <=> StretchIn(h, m, Rule.failures, "failed")
        /\ StretchIn(g, m, Rule.recoveries, "passed") <=> StretchIn(h, m, Rule.recoveries, "passed")
    BY <1>2, RuleIs
  <2>4. m \in 1 .. Len(g) /\ m \in 1 .. Len(h)
    BY <1>0, <2>1
  <2> HIDE DEF g
  <2>5. QED
    BY <2>2, <2>3, <2>4 DEF DecisiveIn
<1> HIDE DEF g, n, D, E
<1>4. CASE n + 1 \in E
  <2>1. \A m \in E : m <= n + 1
    BY <1>0, <1>1
  <2>2. Max(E) = n + 1
    <3>1. \A m \in E : n + 1 >= m
      BY <1>0, <1>1
    <3>2. \E x \in E : \A y \in E : x >= y
      BY <1>4, <3>1
    <3>3. Max(E) \in E /\ \A y \in E : Max(E) >= y
      BY <3>2 DEF Max
    <3>4. Max(E) \in 1 .. n + 1 /\ Max(E) >= n + 1
      BY <1>1, <1>4, <3>3
    <3>5. QED
      BY <1>0, <3>4
  <2>3. QED
    BY <1>0, <1>4, <2>2 DEF StateIn, E, g
<1>5. CASE n + 1 \notin E
  <2>1. E = D
    <3>1. ASSUME NEW m \in E PROVE m \in D
      <4>1. m \in 1 .. n + 1 /\ m # n + 1
        BY <1>1, <1>5, <3>1
      <4>2. m \in 1 .. n
        BY <1>0, <4>1
      <4>3. QED
        BY <1>3, <3>1, <4>2
    <3>2. ASSUME NEW m \in D PROVE m \in E
      BY <1>1, <1>3, <3>2
    <3>3. QED
      BY <3>1, <3>2
  <2>2. CASE D = {}
    BY <1>0, <1>5, <2>1, <2>2 DEF StateIn, E, D, g, n
  <2>3. CASE D # {}
    <3>1. D \subseteq Nat /\ \A m \in D : m <= n
      <4>1. \A m \in 1 .. n : m \in Nat /\ m <= n
        BY <1>0
      <4>2. QED
        BY <1>1, <4>1
    <3>2. PICK x \in D : \A y \in D : y <= x
      BY <1>0, <2>3, <3>1, GreatestNatural
    <3>3. \A y \in D : x >= y
      BY <3>1, <3>2
    <3>4. Max(D) \in D
      BY <3>3 DEF Max
    <3>5. g[Max(D)] = h[Max(D)]
      BY <1>0, <1>1, <3>4
    <3>6. QED
      BY <1>0, <1>5, <2>1, <2>3, <3>5 DEF StateIn, E, D, g, n
  <2>4. QED
    BY <2>2, <2>3
<1>6. QED
  BY <1>4, <1>5, <1>0 DEF E, g, n

\* Which stretch the last event ends.
LEMMA LastIsDecisive ==
  ASSUME NEW h \in Seq(Event), NEW e \in {"passed", "failed"}, NEW p \in Nat, Trailing(h, e, p)
  PROVE  LET g == Append(h, e) IN
         Len(g) \in DecisiveIn(g) <=> (IF e = "passed" THEN Rule.recoveries ELSE Rule.failures) <= p + 1
<1> DEFINE g == Append(h, e)
<1> DEFINE n == Len(g)
<1> DEFINE f == IF e = "passed" THEN "failed" ELSE "passed"
<1>0. g \in Seq(Event) /\ n \in Nat /\ n \in 1 .. Len(g) /\ g[n] = e /\ e \in Event /\ f \in Event /\ e # f
  <2>1. e \in Event
    BY DEF Event
  <2>2. g \in Seq(Event) /\ n = Len(h) + 1 /\ g[n] = e /\ Len(h) \in Nat
    BY <2>1, Appended
  <2> HIDE DEF g
  <2>3. f \in Event /\ e # f
    BY DEF Event
  <2>4. QED
    BY <2>1, <2>2, <2>3
<1>1. Trailing(g, e, p + 1) /\ Trailing(g, f, 0)
  BY <1>0, TrailingGrows, TrailingEnds
<1>2. /\ Rule.failures \in Nat \ {0} /\ Rule.recoveries \in Nat \ {0}
      /\ p + 1 \in Nat /\ 0 \in Nat
  BY RuleIs
<1> HIDE DEF g, f
<1>3. \A length \in Nat \ {0} : /\ StretchIn(g, n, length, e) <=> length <= p + 1
                                /\ StretchIn(g, n, length, f) <=> length <= 0
  BY <1>0, <1>1, <1>2, TrailingStretch
<1>4. \A length \in Nat \ {0} : ~ StretchIn(g, n, length, f)
  BY <1>3
<1>5. n \in DecisiveIn(g) <=> \/ StretchIn(g, n, Rule.failures, "failed")
                              \/ StretchIn(g, n, Rule.recoveries, "passed")
  BY <1>0 DEF DecisiveIn
<1> HIDE DEF n
<1>6. CASE e = "passed"
  <2>1. f = "failed"
    BY <1>6 DEF f
  <2>2. QED
    BY <1>2, <1>3, <1>4, <1>5, <1>6, <2>1 DEF n, g
<1>7. CASE e = "failed"
  <2>1. f = "passed"
    BY <1>7 DEF f
  <2>2. QED
    BY <1>2, <1>3, <1>4, <1>5, <1>7, <2>1 DEF n, g
<1>8. QED
  BY <1>6, <1>7

\* A counter that falls short of its threshold where the stretch does not has
\* wrapped; then the stretch had decided before.
LEMMA CounterDecides ==
  ASSUME NEW h \in Seq(Event), NEW e \in {"passed", "failed"}, NEW c, c < CounterModulus, Counts(h, e, c)
  PROVE  LET threshold == IF e = "passed" THEN Rule.recoveries ELSE Rule.failures IN
         /\ StateIn(Append(h, e)) = IF Bump(c) >= threshold THEN StateAfter(e) ELSE StateIn(h)
         /\ Counts(Append(h, e), e, Bump(c)) /\ Bump(c) < CounterModulus
<1> DEFINE threshold == IF e = "passed" THEN Rule.recoveries ELSE Rule.failures
<1> DEFINE M == CounterModulus
<1> DEFINE g == Append(h, e)
<1>0. threshold \in Nat \ {0} /\ threshold < M /\ M \in Nat \ {0, 1} /\ e \in Event
  BY RuleIs DEF Event
<1>1. c \in Nat /\ c < M
  BY DEF Counts
<1>2. PICK p \in Nat : Trailing(h, e, p) /\ c <= p /\ (p < M => c = p)
  BY LenProperties DEF Counts
<1>3. Bump(c) = IF c + 1 = M THEN 0 ELSE c + 1
  <2>1. CASE c + 1 = M
    BY <1>0, <1>1, <2>1 DEF Bump
  <2>2. CASE c + 1 # M
    BY <1>0, <1>1, <2>2 DEF Bump
  <2>3. QED
    BY <2>1, <2>2
<1>4. Len(g) \in DecisiveIn(g) <=> threshold <= p + 1
  BY <1>2, LastIsDecisive
<1>5. StateIn(g) = IF Len(g) \in DecisiveIn(g) THEN StateAfter(e) ELSE StateIn(h)
  BY <1>0, DecisiveGrows
<1>6. Trailing(g, e, p + 1)
  BY <1>0, <1>2, TrailingGrows
<1> HIDE DEF threshold, M, g
<1>7. Bump(c) \in Nat /\ Bump(c) < M /\ Bump(c) <= p + 1 /\ (p + 1 < M => Bump(c) = p + 1)
  BY <1>0, <1>1, <1>2, <1>3
<1>8. Counts(g, e, Bump(c))
  <2>1. p + 1 \in 0 .. Len(g)
    BY <1>6 DEF Trailing
  <2>2. QED
    BY <1>6, <1>7, <2>1 DEF Counts, M
<1>9. CASE Bump(c) >= threshold
  <2>1. threshold <= p + 1
    BY <1>0, <1>7, <1>9
  <2>2. QED
    BY <1>4, <1>5, <1>7, <1>8, <1>9, <2>1 DEF threshold, M, g
<1>10. CASE ~ (Bump(c) >= threshold) /\ ~ (threshold <= p + 1)
  BY <1>4, <1>5, <1>7, <1>8, <1>10 DEF threshold, M, g
<1>11. CASE ~ (Bump(c) >= threshold) /\ threshold <= p + 1
  <2>1. threshold <= p
    BY <1>0, <1>7, <1>11
  <2>2. StretchIn(h, Len(h), threshold, e)
    BY <1>0, <1>2, <2>1, TrailingStretch
  <2>3. Len(h) \in Nat /\ Len(h) \in 1 .. Len(h)
    <3>1. p \in 0 .. Len(h) /\ Len(h) \in Nat
      BY <1>2, LenProperties DEF Trailing
    <3>2. QED
      BY <1>0, <2>1, <3>1
  <2>4. Len(h) \in DecisiveIn(h)
    BY <2>2, <2>3 DEF DecisiveIn, threshold
  <2>5. Max(DecisiveIn(h)) = Len(h)
    <3>1. \A y \in DecisiveIn(h) : y \in 1 .. Len(h)
      BY DEF DecisiveIn
    <3>2. \A y \in DecisiveIn(h) : Len(h) >= y
      BY <2>3, <3>1
    <3>3. Max(DecisiveIn(h)) \in DecisiveIn(h) /\ \A y \in DecisiveIn(h) : Max(DecisiveIn(h)) >= y
      BY <2>4, <3>2 DEF Max
    <3>4. Max(DecisiveIn(h)) \in 1 .. Len(h) /\ Max(DecisiveIn(h)) >= Len(h)
      BY <2>4, <3>1, <3>3
    <3>5. QED
      BY <2>3, <3>4
  <2>6. h[Len(h)] = e
    <3>1. Len(h) \in Len(h) - threshold + 1 .. Len(h)
      BY <1>0, <2>3
    <3>2. QED
      BY <2>2, <3>1 DEF StretchIn
  <2>7. StateIn(h) = StateAfter(e)
    BY <2>4, <2>5, <2>6 DEF StateIn
  <2>8. QED
    BY <1>4, <1>5, <1>7, <1>8, <1>11, <2>7 DEF threshold, M, g
<1>12. QED
  BY <1>9, <1>10, <1>11

\* The other counter starts again.
LEMMA CounterStarts ==
  ASSUME NEW h \in Seq(Event), NEW e \in Event, NEW f \in Event, e # f
  PROVE  Counts(Append(h, e), f, 0)
<1>1. 0 \in Nat /\ 0 <= 0
  OBVIOUS
<1>2. Trailing(Append(h, e), f, 0)
  BY TrailingEnds
<1>3. 0 \in 0 .. Len(Append(h, e))
  BY <1>2 DEF Trailing
<1>4. QED
  BY <1>1, <1>2, <1>3 DEF Counts

LEMMA HistoryStep ==
  ASSUME HistoryInv, [HistoryNext]_historyVars
  PROVE  HistoryInv'
<1>0. /\ history \in Seq(Event) /\ {"passed", "failed", "stale"} = Event /\ 0 < CounterModulus
      /\ health.failures < CounterModulus /\ health.successes < CounterModulus
      /\ Counts(history, "failed", health.failures) /\ Counts(history, "passed", health.successes)
      /\ health.state = StateIn(history)
  BY RuleIs DEF HistoryInv, Event
<1>1. PICK state, failures, successes :
        health = [state |-> state, failures |-> failures, successes |-> successes, staleAt |-> NoDeadline]
  BY DEF HistoryInv
<1>2. ASSUME NEW e \in Event, Happens(e) PROVE history' = Append(history, e) /\ history' \in Seq(Event)
  BY <1>0, <1>2, Appended DEF Happens
<1>3. CASE Happens("passed") /\ health' = ApplyProbe(health, TRUE, Rule)
  <2>1. health' = [state |-> IF Bump(successes) >= Rule.recoveries THEN "up" ELSE state,
                   failures |-> 0, successes |-> Bump(successes), staleAt |-> NoDeadline]
    BY <1>1, <1>3 DEF ApplyProbe, ApplySuccess
  <2>2. history' = Append(history, "passed") /\ history' \in Seq(Event)
    BY <1>0, <1>2, <1>3
  <2>3. /\ StateIn(history') = IF Bump(successes) >= Rule.recoveries THEN StateAfter("passed") ELSE StateIn(history)
        /\ Counts(history', "passed", Bump(successes)) /\ Bump(successes) < CounterModulus
    BY <1>0, <1>1, <2>2, CounterDecides
  <2>4. Counts(history', "failed", 0)
    BY <1>0, <2>2, CounterStarts
  <2>5. StateAfter("passed") = "up" /\ state = StateIn(history)
    BY <1>0, <1>1 DEF StateAfter
  <2>6. QED
    BY <1>0, <2>1, <2>2, <2>3, <2>4, <2>5 DEF HistoryInv
<1>4. CASE Happens("failed") /\ health' = ApplyProbe(health, FALSE, Rule)
  <2>1. health' = [state |-> IF Bump(failures) >= Rule.failures THEN "down" ELSE state,
                   failures |-> Bump(failures), successes |-> 0, staleAt |-> NoDeadline]
    BY <1>1, <1>4 DEF ApplyProbe, ApplyFailure
  <2>2. history' = Append(history, "failed") /\ history' \in Seq(Event)
    BY <1>0, <1>2, <1>4
  <2>3. /\ StateIn(history') = IF Bump(failures) >= Rule.failures THEN StateAfter("failed") ELSE StateIn(history)
        /\ Counts(history', "failed", Bump(failures)) /\ Bump(failures) < CounterModulus
    BY <1>0, <1>1, <2>2, CounterDecides
  <2>4. Counts(history', "passed", 0)
    BY <1>0, <2>2, CounterStarts
  <2>5. StateAfter("failed") = "down" /\ state = StateIn(history)
    BY <1>0, <1>1 DEF StateAfter
  <2>6. QED
    BY <1>0, <2>1, <2>2, <2>3, <2>4, <2>5 DEF HistoryInv
<1>5. CASE Happens("stale") /\ health' = StaleLocation
  <2>1. health' = [state |-> "unknown", failures |-> 0, successes |-> 0, staleAt |-> NoDeadline]
    BY <1>5 DEF StaleLocation
  <2>2. history' = Append(history, "stale") /\ history' \in Seq(Event)
    BY <1>0, <1>2, <1>5
  <2>3. Counts(history', "passed", 0) /\ Counts(history', "failed", 0)
    BY <1>0, <2>2, CounterStarts
  <2>4. Len(history') \in DecisiveIn(history')
    <3>1. Len(history') = Len(history) + 1 /\ Len(history) \in Nat /\ history'[Len(history) + 1] = "stale"
      BY <1>0, <2>2, Appended
    <3>2. Len(history') \in 1 .. Len(history')
      BY <3>1
    <3>3. QED
      BY <3>1, <3>2 DEF DecisiveIn
  <2>5. StateIn(history') = StateAfter("stale")
    BY <1>0, <2>2, <2>4, DecisiveGrows
  <2>6. StateAfter("stale") = "unknown"
    BY DEF StateAfter
  <2>7. QED
    BY <1>0, <2>1, <2>2, <2>3, <2>5, <2>6 DEF HistoryInv
<1>6. CASE UNCHANGED historyVars
  BY <1>6 DEF historyVars, HistoryInv
<1>7. QED
  BY <1>3, <1>4, <1>5, <1>6 DEF HistoryNext

\* The counters count the last stretch of the history, up to their wrap, and
\* the state is that of the last decisive one (ApplyProbe, StaleLocation).
THEOREM HistoryInvariance == HistorySpec => []HistoryInv
<1>1. HistoryInit => HistoryInv
  <2> SUFFICES ASSUME HistoryInit PROVE HistoryInv
    OBVIOUS
  <2>1. health = [state |-> "pending", failures |-> 0, successes |-> 0, staleAt |-> NoDeadline]
        /\ history = <<>> /\ <<>> \in Seq(Event) /\ Len(<<>>) = 0
    BY EmptySeq DEF HistoryInit, PendingLocation
  <2>2. DecisiveIn(<<>>) = {}
    BY <2>1 DEF DecisiveIn
  <2>3. StateIn(<<>>) = "pending"
    BY <2>2 DEF StateIn
  <2>4. Trailing(<<>>, "failed", 0) /\ Trailing(<<>>, "passed", 0)
    BY <2>1 DEF Trailing
  <2>5. Counts(<<>>, "failed", 0) /\ Counts(<<>>, "passed", 0) /\ 0 < CounterModulus
    BY <2>4, RuleIs DEF Counts
  <2>6. QED
    BY <2>1, <2>3, <2>5 DEF HistoryInv
<1>2. HistoryInv /\ [HistoryNext]_historyVars => HistoryInv'
  BY HistoryStep
<1>3. QED
  BY <1>1, <1>2, PTL DEF HistorySpec

\* The state of a location is what its whole history says, for counters of any
\* width and thresholds below it.
THEOREM HistoryStateFromHistory == HistorySpec => []StateFromHistory
<1>1. HistoryInv => StateFromHistory
  <2>1. DecisiveIn(history) = Decisive
    BY DEF DecisiveIn, Decisive, StretchIn, Stretch
  <2>2. QED
    BY <2>1 DEF HistoryInv, StateFromHistory, StateIn, StateAfter
<1>2. QED
  BY <1>1, HistoryInvariance, PTL

-----------------------------------------------------------------------------
(***************************************************************************)
(* The refresh of the view: the controller is that of the last refresh, and*)
(* nothing was begun since.                                                *)
(***************************************************************************)
RefreshStage == {"fetch", "text", "response", "body", "failed", "done"}
RefreshRow ==
  [generation : Nat, href : URL, main : Nat, pageview : Nat, stage : RefreshStage, aborted : BOOLEAN]

RefreshTypeOK ==
  /\ generation \in Nat /\ pageview \in Nat /\ main \in Nat
  /\ fetches \in Seq(RefreshRow) /\ controller \in Nat
  /\ navigation \in URL \cup {NoURL} /\ location \in URL

OwnerIsLast ==
  controller # 0 => controller = Len(fetches) /\ fetches[controller].pageview = pageview

RefreshInv == RefreshTypeOK /\ OwnerIsLast /\ content.url = location

\* The condition of the property, of one refresh.
WrittenInTime(k) ==
  fetches[k].stage = "body" /\ fetches'[k].stage = "done" /\ content' # content
    => k = Len(fetches) /\ fetches[k].pageview = pageview

RefreshStepOK == RefreshInv' /\ \A k \in DOMAIN fetches : WrittenInTime(k)

\* Replacing the elements of a sequence leaves its length.
LEMMA SameLength ==
  ASSUME NEW S, NEW s \in Seq(S), NEW t, DOMAIN t = DOMAIN s, t = [i \in DOMAIN t |-> t[i]], \A i \in DOMAIN s : t[i] \in S
  PROVE  t \in Seq(S) /\ Len(t) = Len(s)
<1>1. DOMAIN s = 1 .. Len(s) /\ Len(s) \in Nat
  BY LenProperties
<1>2. t \in [1 .. Len(s) -> S]
  BY <1>1
<1>3. t \in Seq(S)
  BY <1>1, <1>2, SeqDef
<1>4. DOMAIN t = 1 .. Len(t) /\ Len(t) \in Nat
  BY <1>3, LenProperties
<1>5. QED
  BY <1>1, <1>3, <1>4

\* An aborted refresh keeps its place, and what it was begun for; no refresh
\* ends by it.
LEMMA AbortedIsNotDone ==
  ASSUME RefreshTypeOK
  PROVE  /\ Aborted(fetches) \in Seq(RefreshRow) /\ Len(Aborted(fetches)) = Len(fetches)
         /\ \A k \in DOMAIN fetches : fetches[k].stage # "done" => Aborted(fetches)[k].stage # "done"
<1> DEFINE a == Aborted(fetches)
<1>0. DOMAIN fetches = 1 .. Len(fetches) /\ \A k \in DOMAIN fetches : fetches[k] \in RefreshRow
  BY LenProperties, ElementOfSeq DEF RefreshTypeOK
<1>1. CASE controller = 0
  BY <1>1 DEF Aborted, RefreshTypeOK
<1>2. CASE controller # 0
  <2> DEFINE row(r) == [r EXCEPT !.aborted = TRUE, !.stage = IF @ \in {"fetch", "text"} THEN "failed" ELSE @]
  <2>1. ASSUME NEW r \in RefreshRow
        PROVE  row(r) \in RefreshRow /\ (r.stage # "done" => row(r).stage # "done")
    BY DEF RefreshRow, RefreshStage
  <2>2. a = [k \in DOMAIN fetches |-> IF k = controller THEN row(fetches[k]) ELSE fetches[k]]
    BY <1>2 DEF Aborted
  <2> HIDE DEF row, a
  <2>3. \A k \in DOMAIN fetches : a[k] \in RefreshRow /\ (fetches[k].stage # "done" => a[k].stage # "done")
    BY <1>0, <2>1, <2>2
  <2>4. DOMAIN a = DOMAIN fetches /\ a = [k \in DOMAIN a |-> a[k]]
    BY <2>2
  <2>5. a \in Seq(RefreshRow) /\ Len(a) = Len(fetches)
    BY <2>3, <2>4, SameLength DEF RefreshTypeOK
  <2>6. QED
    BY <2>3, <2>5 DEF a
<1>3. QED
  BY <1>1, <1>2

\* What a refresh that goes on does to the row of it.
LEMMA StageMoves ==
  ASSUME RefreshTypeOK, NEW k \in DOMAIN fetches, NEW v \in RefreshStage,
         fetches' = [fetches EXCEPT ![k].stage = v]
  PROVE  /\ fetches' \in Seq(RefreshRow) /\ Len(fetches') = Len(fetches)
         /\ \A j \in DOMAIN fetches : fetches'[j].pageview = fetches[j].pageview
         /\ \A j \in DOMAIN fetches : j # k => fetches'[j].stage = fetches[j].stage
<1>0. DOMAIN fetches = 1 .. Len(fetches) /\ \A j \in DOMAIN fetches : fetches[j] \in RefreshRow
  BY LenProperties, ElementOfSeq DEF RefreshTypeOK
<1>1. ASSUME NEW r \in RefreshRow
      PROVE  [r EXCEPT !.stage = v] \in RefreshRow /\ [r EXCEPT !.stage = v].pageview = r.pageview
  BY DEF RefreshRow
<1> DEFINE t == [j \in DOMAIN fetches |-> IF j = k THEN [fetches[j] EXCEPT !.stage = v] ELSE fetches[j]]
<1>2. fetches' = t
  OBVIOUS
<1>3. \A j \in DOMAIN fetches : t[j] \in RefreshRow /\ t[j].pageview = fetches[j].pageview
  BY <1>0, <1>1
<1>4. DOMAIN t = DOMAIN fetches /\ t = [j \in DOMAIN t |-> t[j]]
  OBVIOUS
<1>5. \A j \in DOMAIN fetches : j # k => t[j].stage = fetches[j].stage
  OBVIOUS
<1> HIDE DEF t
<1>6. t \in Seq(RefreshRow) /\ Len(t) = Len(fetches)
  BY <1>3, <1>4, SameLength DEF RefreshTypeOK
<1>7. QED
  BY <1>2, <1>3, <1>5, <1>6

\* A refresh that goes on leaves the place the user is at.
LEMMA RefreshGoesOn ==
  ASSUME RefreshInv, NEW k \in DOMAIN fetches, NEW v \in RefreshStage,
         fetches' = [fetches EXCEPT ![k].stage = v], controller' \in {0, controller},
         UNCHANGED <<generation, navigation, location, main, pageview>>, content'.url = location,
         fetches[k].stage = "body" /\ content' # content => OwnsRefresh(k)
  PROVE  RefreshStepOK
<1>0. DOMAIN fetches = 1 .. Len(fetches) /\ Len(fetches) \in Nat
  BY LenProperties DEF RefreshInv, RefreshTypeOK
<1>1. /\ fetches' \in Seq(RefreshRow) /\ Len(fetches') = Len(fetches)
      /\ \A j \in DOMAIN fetches : fetches'[j].pageview = fetches[j].pageview
      /\ \A j \in DOMAIN fetches : j # k => fetches'[j].stage = fetches[j].stage
  BY StageMoves DEF RefreshInv
<1>2. RefreshTypeOK'
  BY <1>1 DEF RefreshInv, RefreshTypeOK
<1>3. OwnerIsLast'
  <2>1. SUFFICES ASSUME controller' # 0
                 PROVE  controller' = Len(fetches') /\ fetches'[controller'].pageview = pageview'
    BY DEF OwnerIsLast
  <2>2. controller' = controller /\ controller = Len(fetches) /\ fetches[controller].pageview = pageview
    BY <2>1 DEF RefreshInv, OwnerIsLast
  <2>3. controller \in DOMAIN fetches
    BY <1>0, <2>1, <2>2
  <2>4. QED
    BY <1>1, <2>2, <2>3
<1>4. ASSUME NEW j \in DOMAIN fetches PROVE WrittenInTime(j)
  <2>1. CASE j = k
    BY <2>1, <1>0 DEF WrittenInTime, OwnsRefresh, RefreshInv, OwnerIsLast
  <2>2. CASE j # k
    BY <1>1, <2>2 DEF WrittenInTime
  <2>3. QED
    BY <2>1, <2>2
<1>5. QED
  BY <1>2, <1>3, <1>4 DEF RefreshStepOK, RefreshInv

LEMMA RefreshStep ==
  ASSUME RefreshInv, [RefreshNext]_refreshVars
  PROVE  RefreshStepOK
<1>0. DOMAIN fetches = 1 .. Len(fetches) /\ Len(fetches) \in Nat
  BY LenProperties DEF RefreshInv, RefreshTypeOK
<1>1. CASE RefreshAuthoritative
  <2> DEFINE f == [generation |-> generation + 1, href |-> location, main |-> main, pageview |-> pageview,
                   stage |-> "fetch", aborted |-> FALSE]
  <2>1. f \in RefreshRow
    BY DEF RefreshInv, RefreshTypeOK, RefreshRow, RefreshStage
  <2>2. Aborted(fetches) \in Seq(RefreshRow) /\ Len(Aborted(fetches)) = Len(fetches)
    BY AbortedIsNotDone DEF RefreshInv
  <2>3. fetches' = Append(Aborted(fetches), f) /\ controller' = Len(fetches') /\ generation' = generation + 1
        /\ UNCHANGED <<navigation, location, main, content, pageview>>
    BY <1>1 DEF RefreshAuthoritative
  <2>4. f.pageview = pageview
    OBVIOUS
  <2> HIDE DEF f
  <2>5. fetches' \in Seq(RefreshRow) /\ Len(fetches') = Len(fetches) + 1 /\ fetches'[Len(fetches) + 1] = f
    BY <2>1, <2>2, <2>3, AppendProperties
  <2>6. RefreshTypeOK' /\ content'.url = location'
    BY <1>0, <2>3, <2>5 DEF RefreshInv, RefreshTypeOK
  <2>7. OwnerIsLast'
    BY <1>0, <2>3, <2>4, <2>5 DEF OwnerIsLast
  <2>8. QED
    BY <2>3, <2>6, <2>7 DEF RefreshStepOK, RefreshInv, WrittenInTime
<1>2. ASSUME NEW k \in DOMAIN fetches, Comes(k) PROVE RefreshStepOK
  <2> DEFINE v == IF fetches[k].stage = "fetch" THEN "response" ELSE "body"
  <2>1. fetches' = [fetches EXCEPT ![k].stage = v] /\ v \in RefreshStage
    BY <1>2 DEF Comes, RefreshStage
  <2> HIDE DEF v
  <2>2. UNCHANGED <<generation, controller, navigation, location, main, content, pageview>>
    BY <1>2 DEF Comes
  <2>3. QED
    BY <2>1, <2>2, RefreshGoesOn DEF RefreshInv
<1>3. ASSUME NEW k \in DOMAIN fetches, Breaks(k) PROVE RefreshStepOK
  <2>1. fetches' = [fetches EXCEPT ![k].stage = "failed"] /\ "failed" \in RefreshStage
    BY <1>3 DEF Breaks, RefreshStage
  <2>2. UNCHANGED <<generation, controller, navigation, location, main, content, pageview>>
    BY <1>3 DEF Breaks
  <2>3. QED
    BY <2>1, <2>2, RefreshGoesOn DEF RefreshInv
<1>4. ASSUME NEW k \in DOMAIN fetches, OnResponse(k) PROVE RefreshStepOK
  <2>1. \E v \in RefreshStage : fetches' = [fetches EXCEPT ![k].stage = v]
    BY <1>4 DEF OnResponse, Finish, RefreshStage
  <2>2. controller' \in {0, controller} /\ UNCHANGED <<generation, navigation, location, main, pageview>>
    BY <1>4 DEF OnResponse, Finish
  <2>3. content'.url = location
    BY <1>4 DEF OnResponse, RefreshInv
  <2>4. fetches[k].stage # "body"
    BY <1>4 DEF OnResponse
  <2>5. QED
    BY <2>1, <2>2, <2>3, <2>4, RefreshGoesOn
<1>5. ASSUME NEW k \in DOMAIN fetches, OnBody(k) PROVE RefreshStepOK
  <2>1. fetches' = [fetches EXCEPT ![k].stage = "done"] /\ "done" \in RefreshStage
    BY <1>5 DEF OnBody, Finish, RefreshStage
  <2>2. controller' \in {0, controller} /\ UNCHANGED <<generation, navigation, location, main, pageview>>
    BY <1>5 DEF OnBody, Finish
  <2>3. content'.url = location
    BY <1>5 DEF OnBody, OwnsRefresh, RefreshInv
  <2>4. content' # content => OwnsRefresh(k)
    BY <1>5 DEF OnBody
  <2>5. QED
    BY <2>1, <2>2, <2>3, <2>4, RefreshGoesOn
<1>6. ASSUME NEW k \in DOMAIN fetches, OnError(k) PROVE RefreshStepOK
  <2>1. fetches' = [fetches EXCEPT ![k].stage = "done"] /\ "done" \in RefreshStage
    BY <1>6 DEF OnError, Finish, RefreshStage
  <2>2. controller' \in {0, controller} /\ UNCHANGED <<generation, navigation, location, main, pageview>>
    BY <1>6 DEF OnError, Finish
  <2>3. content'.url = location
    BY <1>6 DEF OnError, RefreshInv
  <2>4. fetches[k].stage # "body"
    BY <1>6 DEF OnError
  <2>5. QED
    BY <2>1, <2>2, <2>3, <2>4, RefreshGoesOn
\* A navigation aborts.
<1>7. ASSUME Invalidate, main' \in Nat, pageview' \in Nat, location' \in URL, navigation' \in URL \cup {NoURL},
             content'.url = location'
      PROVE  RefreshStepOK
  <2>1. fetches' = Aborted(fetches) /\ controller' = 0 /\ generation' = generation + 1
    BY <1>7 DEF Invalidate
  <2>2. RefreshTypeOK'
    BY <1>7, <2>1, AbortedIsNotDone DEF RefreshInv, RefreshTypeOK
  <2>3. \A k \in DOMAIN fetches : WrittenInTime(k)
    BY <2>1, AbortedIsNotDone DEF RefreshInv, WrittenInTime
  <2>4. QED
    BY <1>7, <2>1, <2>2, <2>3 DEF RefreshStepOK, RefreshInv, OwnerIsLast
<1>8. ASSUME NEW url \in URL, BeforeRequest(url) PROVE RefreshStepOK
  BY <1>7, <1>8 DEF BeforeRequest, RefreshInv, RefreshTypeOK
<1>9. ASSUME NEW url \in URL, Popstate(url) PROVE RefreshStepOK
  BY <1>7, <1>9 DEF Popstate, RefreshInv, RefreshTypeOK
<1>10. CASE Swap
  <2>1. UNCHANGED <<generation, controller, fetches, main, pageview>>
    BY <1>10 DEF Swap
  <2>2. navigation' \in URL \cup {NoURL} /\ location' \in URL /\ content'.url = location'
    BY <1>10 DEF Swap, RefreshInv, RefreshTypeOK
  <2>3. RefreshInv'
    BY <2>1, <2>2 DEF RefreshInv, RefreshTypeOK, OwnerIsLast
  <2>4. QED
    BY <2>1, <2>3 DEF RefreshStepOK, WrittenInTime
<1>11. CASE UNCHANGED refreshVars
  BY <1>11 DEF refreshVars, RefreshStepOK, RefreshInv, RefreshTypeOK, OwnerIsLast, WrittenInTime
<1>12. QED
  BY <1>1, <1>2, <1>3, <1>4, <1>5, <1>6, <1>8, <1>9, <1>10, <1>11 DEF RefreshNext

\* The controller is that of the last refresh, and the view is of the address.
THEOREM RefreshInvariance == RefreshSpec => []RefreshInv
<1>1. RefreshInit => RefreshInv
  BY EmptySeq DEF RefreshInit, RefreshInv, RefreshTypeOK, OwnerIsLast
<1>2. RefreshInv /\ [RefreshNext]_refreshVars => RefreshInv'
  BY RefreshStep DEF RefreshStepOK
<1>3. QED
  BY <1>1, <1>2, PTL DEF RefreshSpec

\* The view shows the page in the address bar, and no answer that was waited
\* for overwrites a later navigation or refresh, however many are under way
\* (ownsRefresh after both awaits of refreshAuthoritative).
THEOREM RefreshShowsWhereItIs == RefreshSpec => ShowsWhereItIs
<1>1. RefreshInv /\ [RefreshNext]_refreshVars =>
        [/\ content'.url = location'
         /\ \A k \in DOMAIN fetches :
              fetches[k].stage = "body" /\ fetches'[k].stage = "done" /\ content' # content
                => k = Len(fetches) /\ fetches[k].pageview = pageview]_refreshVars
  BY RefreshStep DEF RefreshStepOK, RefreshInv, WrittenInTime
<1>2. QED
  BY <1>1, RefreshInvariance, PTL DEF RefreshSpec, ShowsWhereItIs

-----------------------------------------------------------------------------
(***************************************************************************)
(* The sessions and the search.                                            *)
(***************************************************************************)
LEMMA Enumerable ==
  ASSUME NEW T, T \subseteq Nat, IsFiniteSet(T)
  PROVE  \E s \in [1 .. Cardinality(T) -> T] : Ascending(s) /\ Elements(s) = T
<1> DEFINE Good(U) == \E s \in [1 .. Cardinality(U) -> U] : Ascending(s) /\ Elements(s) = U
<1> DEFINE B == {n \in Nat : \E U \in SUBSET Nat : IsFiniteSet(U) /\ Cardinality(U) = n /\ ~ Good(U)}
<1>1. ASSUME B # {} PROVE FALSE
  <2>1. PICK n \in B : \A m \in B : n <= m
    BY <1>1, LeastNatural
  <2>2. PICK U \in SUBSET Nat : IsFiniteSet(U) /\ Cardinality(U) = n /\ ~ Good(U)
    BY <2>1
  <2>3. n \in Nat
    BY <2>1
  <2>4. CASE U = {}
    <3>1. n = 0
      BY <2>2, <2>4, FS_EmptySet
    <3> DEFINE s == [i \in 1 .. 0 |-> 0]
    <3>2. s \in [1 .. 0 -> U] /\ Ascending(s) /\ Elements(s) = U
      BY <2>4 DEF Ascending, Elements
    <3>3. QED
      BY <2>2, <3>1, <3>2
  <2>5. CASE U # {}
    <3>1. PICK x \in U : \A y \in U : x <= y
      BY <2>5, LeastNatural
    <3> DEFINE V == U \ {x}
    <3>2. IsFiniteSet(V) /\ Cardinality(V) = n - 1 /\ V \in SUBSET Nat
      BY <2>2, FS_RemoveElement
    <3>3. n - 1 \in Nat /\ n - 1 < n
      BY <2>3, <3>2, FS_CardinalityType
    <3>4. Good(V)
      <4>1. n - 1 \notin B
        BY <2>1, <2>3, <3>3
      <4> HIDE DEF Good, V
      <4>2. QED
        BY <3>2, <3>3, <4>1
    <3>5. PICK s \in [1 .. n - 1 -> V] : Ascending(s) /\ Elements(s) = V
      BY <3>2, <3>4
    <3> DEFINE t == [i \in 1 .. n |-> IF i = 1 THEN x ELSE s[i - 1]]
    <3>6. \A i \in 1 .. n : i # 1 => i - 1 \in 1 .. n - 1
      BY <2>3
    <3>7. \A i \in 1 .. n - 1 : i + 1 \in 1 .. n /\ i + 1 # 1 /\ i + 1 - 1 = i
      BY <2>3
    <3>8. t \in [1 .. n -> U]
      BY <3>6
    <3>9. \A y \in V : y \in Nat /\ x < y
      BY <3>1
    <3>10. Ascending(t)
      <4>1. ASSUME NEW i \in 1 .. n, NEW j \in 1 .. n, i < j PROVE t[i] < t[j]
        <5>1. j # 1 /\ j - 1 \in 1 .. n - 1 /\ s[j - 1] \in V
          BY <3>6, <4>1
        <5>2. CASE i = 1
          BY <3>9, <5>1, <5>2
        <5>3. CASE i # 1
          <6>1. i - 1 \in 1 .. n - 1 /\ i - 1 < j - 1
            BY <2>3, <3>6, <4>1, <5>3
          <6>2. s[i - 1] < s[j - 1]
            BY <3>5, <5>1, <6>1 DEF Ascending
          <6>3. QED
            BY <5>1, <5>3, <6>2
        <5>4. QED
          BY <5>2, <5>3
      <4>2. QED
        BY <4>1 DEF Ascending
    <3>11. Elements(t) = U
      <4>1. \A i \in 1 .. n : t[i] \in U
        BY <3>8
      <4>2. ASSUME NEW y \in U PROVE \E i \in 1 .. n : t[i] = y
        <5>1. CASE y = x
          <6>1. 1 \in 1 .. n
            BY <2>3, <3>3
          <6>2. QED
            BY <5>1, <6>1
        <5>2. CASE y # x
          <6>1. PICK i \in 1 .. n - 1 : s[i] = y
            BY <3>5, <5>2 DEF Elements
          <6>2. i + 1 \in 1 .. n /\ t[i + 1] = y
            BY <3>7, <6>1
          <6>3. QED
            BY <6>2
        <5>3. QED
          BY <5>1, <5>2
      <4> HIDE DEF t
      <4>3. QED
        BY <3>8, <4>1, <4>2 DEF Elements
    <3>12. QED
      BY <2>2, <3>8, <3>10, <3>11
  <2>6. QED
    BY <2>4, <2>5
<1>2. Cardinality(T) \in Nat
  BY FS_CardinalityType
<1> HIDE DEF Good
<1>3. Good(T)
  BY <1>1, <1>2
<1>4. QED
  BY <1>3 DEF Good

LEMMA FiniteGreatest ==
  ASSUME NEW T, T \subseteq Nat, IsFiniteSet(T), T # {}
  PROVE  \E x \in T : \A y \in T : y <= x
<1> DEFINE n == Cardinality(T)
<1>1. PICK s \in [1 .. n -> T] : Ascending(s) /\ Elements(s) = T
  BY Enumerable
<1>2. n \in Nat /\ n # 0
  BY FS_CardinalityType, FS_EmptySet
<1> HIDE DEF n
<1>3. n \in 1 .. n /\ s[n] \in T
  BY <1>2
<1>4. ASSUME NEW y \in T PROVE y <= s[n]
  <2>1. PICK i \in 1 .. n : s[i] = y
    BY <1>1 DEF Elements
  <2>2. CASE i = n
    BY <1>3, <2>1, <2>2
  <2>3. CASE i # n
    <3>1. i \in DOMAIN s /\ n \in DOMAIN s /\ i < n
      BY <1>2, <1>3, <2>1, <2>3
    <3>2. s[i] < s[n]
      BY <1>1, <3>1 DEF Ascending
    <3>3. s[i] \in Nat /\ s[n] \in Nat
      BY <1>3, <2>1
    <3>4. QED
      BY <2>1, <3>2, <3>3
  <2>4. QED
    BY <2>2, <2>3
<1>5. QED
  BY <1>3, <1>4

LEMMA InOrderIs ==
  ASSUME NEW T, T \subseteq Nat, IsFiniteSet(T)
  PROVE  InOrder(T) \in Seq(T) /\ Ascending(InOrder(T)) /\ Elements(InOrder(T)) = T
<1>1. InOrder(T) \in [1 .. Cardinality(T) -> T] /\ Ascending(InOrder(T)) /\ Elements(InOrder(T)) = T
  <2> DEFINE Is(s) == Ascending(s) /\ Elements(s) = T
  <2>1. \E s \in [1 .. Cardinality(T) -> T] : Is(s)
    BY Enumerable
  <2>2. InOrder(T) = CHOOSE s \in [1 .. Cardinality(T) -> T] : Is(s)
    BY DEF InOrder
  <2> HIDE DEF Is
  <2>3. InOrder(T) \in [1 .. Cardinality(T) -> T] /\ Is(InOrder(T))
    BY <2>1, <2>2
  <2>4. QED
    BY <2>3 DEF Is
<1>2. Cardinality(T) \in Nat
  BY FS_CardinalityType
<1>3. QED
  BY <1>1, <1>2, SeqDef
-----------------------------------------------------------------------------
(***************************************************************************)
(* One page of the list.                                                   *)
(***************************************************************************)
LEMMA PageIs ==
  ASSUME NEW cursor \in Nat, listed \subseteq Listable
  PROVE  /\ IsFiniteSet(Page(cursor)) /\ Page(cursor) \subseteq Behind(cursor)
         /\ NextCursor(cursor) \in Nat
         /\ NextCursor(cursor) = 0 => Page(cursor) = Behind(cursor)
         /\ NextCursor(cursor) # 0 =>
              /\ NextCursor(cursor) > cursor
              /\ \A m \in Page(cursor) : m <= NextCursor(cursor)
              /\ \A m \in Behind(cursor) : m <= NextCursor(cursor) => m \in Page(cursor)
<1> DEFINE Before(m) == {n \in Behind(cursor) : n < m}
<1>1. Behind(cursor) \subseteq Listable /\ Page(cursor) \subseteq Behind(cursor)
  BY DEF Behind, Page
<1>2. IsFiniteSet(Behind(cursor)) /\ IsFiniteSet(Page(cursor)) /\ \A m : IsFiniteSet(Before(m))
  BY <1>1, ConsoleAssumption, FS_Subset
<1>3. Behind(cursor) \subseteq Nat /\ Page(cursor) \subseteq Nat
  BY <1>1, ConsoleAssumption
<1>4. CASE Page(cursor) = Behind(cursor)
  BY <1>2, <1>4 DEF NextCursor
<1>5. CASE Page(cursor) # Behind(cursor)
  <2> DEFINE m == NextCursor(cursor)
  <2>1. Page(cursor) # {}
    <3>1. PICK b \in Behind(cursor) : \A n \in Behind(cursor) : b <= n
      BY <1>1, <1>3, <1>5, LeastNatural
    <3>2. Before(b) = {}
      BY <1>3, <3>1
    <3>3. Cardinality(Before(b)) < PageSize
      BY <3>2, FS_EmptySet, ConsoleAssumption
    <3>4. QED
      BY <3>3 DEF Page
  <2>2. m \in Page(cursor) /\ \A n \in Page(cursor) : n <= m
    <3>1. m = CHOOSE x \in Page(cursor) : \A y \in Page(cursor) : x >= y
      BY <1>5 DEF NextCursor, Max
    <3>2. PICK x \in Page(cursor) : \A y \in Page(cursor) : y <= x
      BY <1>2, <1>3, <2>1, FiniteGreatest
    <3>3. \A y \in Page(cursor) : x >= y
      BY <1>3, <3>2
    <3> HIDE DEF m
    <3>4. m \in Page(cursor) /\ \A y \in Page(cursor) : m >= y
      BY <3>1, <3>3
    <3>5. QED
      BY <1>3, <3>4
  <2>3. m \in Nat /\ m > cursor
    BY <1>1, <1>3, <2>2 DEF Behind
  <2>4. ASSUME NEW n \in Behind(cursor), n <= m PROVE n \in Page(cursor)
    <3>1. Before(n) \subseteq Before(m)
      BY <1>3, <2>3, <2>4
    <3>2. Cardinality(Before(n)) <= Cardinality(Before(m))
      BY <1>2, <3>1, FS_Subset
    <3>3. Cardinality(Before(m)) < PageSize
      BY <2>2 DEF Page
    <3>4. Cardinality(Before(n)) \in Nat /\ Cardinality(Before(m)) \in Nat /\ PageSize \in Nat
      BY <1>2, FS_CardinalityType, ConsoleAssumption
    <3>5. Cardinality(Before(n)) < PageSize
      BY <3>2, <3>3, <3>4
    <3>6. QED
      BY <3>5 DEF Page
  <2>5. QED
    BY <1>1, <1>2, <1>5, <2>2, <2>3, <2>4
<1>6. QED
  BY <1>4, <1>5
-----------------------------------------------------------------------------
(***************************************************************************)
(* The sessions.                                                           *)
(***************************************************************************)
RequestRow ==
  [op : {"none", "login", "monitors", "logout"},
   stage : {"idle", "exchange", "list", "health", "revoke", "answered"},
   credential : Nat, query : BOOLEAN, cursor : Nat, seen : SUBSET Nat, items : Seq(Nat),
   shows : {"nothing", "monitors", "redirection", "form", "problem"}, session : {"keep", "set", "clear"},
   unread : BOOLEAN]

WalkRow == [shown : Seq(Nat), next : Nat, stable : SUBSET Listable, state : {"none", "open", "ended"}]

ConsoleTypeOK ==
  /\ issued \in Nat /\ live \subseteq 1 .. issued /\ cookie \in 0 .. issued
  /\ listed \subseteq Listable
  /\ browsing \in [Tab -> RequestRow] /\ walk \in WalkRow

\* Every credential was issued, and one that is forgotten is not accepted again
\* unless its lookup had failed.
CredentialOK(r) == r.credential \in 0 .. issued /\ (r.session = "clear" => r.credential \notin live \/ r.unread)

SessionInv == ConsoleTypeOK /\ \A t \in Tab : CredentialOK(browsing[t])

\* What a search has shown is complete up to its cursor.
Complete(w, s, from, upto) ==
  \A m \in w.stable \cap Matching : from < m /\ m <= upto => m \in Elements(s)

WalkOK ==
  /\ Ascending(walk.shown) /\ walk.stable \subseteq listed
  /\ walk.state = "open" =>
       /\ \A m \in Elements(walk.shown) : m <= walk.next
       /\ Complete(walk, walk.shown, 0, walk.next)
  /\ walk.state = "ended" => walk.stable \cap Matching \subseteq Elements(walk.shown)

\* The request of the walker, r, that goes on from what the walk w has shown.
Continues(r, w) ==
  /\ w.state = "open" /\ r.stage \in {"list", "health", "answered"}
  /\ Ascending(r.items) /\ \A m \in Elements(r.items) : w.next < m
  /\ r.stage = "list" \/ r.cursor # 0 =>
       /\ w.next <= r.cursor /\ \A m \in Elements(r.items) : m <= r.cursor
       /\ Complete(w, r.items, w.next, r.cursor)
  /\ r.stage # "list" /\ r.cursor = 0 =>
       \A m \in w.stable \cap Matching : w.next < m => m \in Elements(r.items)

SearchInv ==
  /\ WalkOK
  /\ \A t \in Tab : browsing[t].query => t = Walker
  /\ browsing[Walker].query => Continues(browsing[Walker], walk)

\* A step that gives the tab t the request r.
TabStep(t, r) ==
  /\ r \in RequestRow /\ browsing' = [browsing EXCEPT ![t] = r]
  /\ issued' \in Nat /\ issued <= issued' /\ live' \subseteq live \cup {issued'}
  /\ live' \subseteq live \/ issued' = issued + 1
  /\ cookie' \in 0 .. issued' /\ listed' \subseteq Listable /\ walk' \in WalkRow
  /\ r.credential \in 0 .. issued' /\ (r.session = "clear" => r.credential \notin live' \/ r.unread)

LEMMA TabStepKeeps ==
  ASSUME SessionInv, NEW t \in Tab, NEW r, TabStep(t, r)
  PROVE  SessionInv'
<1>1. browsing' \in [Tab -> RequestRow] /\ browsing'[t] = r /\ \A u \in Tab \ {t} : browsing'[u] = browsing[u]
  BY DEF TabStep, SessionInv, ConsoleTypeOK
<1>2. issued \in Nat /\ issued' \in Nat /\ issued <= issued' /\ live \subseteq 1 .. issued
  BY DEF TabStep, SessionInv, ConsoleTypeOK
<1>3. live' \subseteq 1 .. issued'
  BY <1>2 DEF TabStep
<1>4. ASSUME NEW c \in 0 .. issued, c \notin live PROVE c \in 0 .. issued' /\ c \notin live'
  BY <1>2, <1>4 DEF TabStep
<1>5. ASSUME NEW u \in Tab \ {t} PROVE CredentialOK(browsing[u])'
  <2>1. CredentialOK(browsing[u])
    BY DEF SessionInv
  <2>2. browsing[u].credential \in 0 .. issued' /\ (browsing[u].session = "clear" => browsing[u].credential \notin live' \/ browsing[u].unread)
    <3>1. browsing[u].credential \in 0 .. issued
      BY <2>1 DEF CredentialOK
    <3>2. browsing[u].credential \in 0 .. issued'
      BY <1>2, <3>1
    <3>3. QED
      BY <1>4, <2>1, <3>1, <3>2 DEF CredentialOK
  <2>3. QED
    BY <1>1, <2>2 DEF CredentialOK
<1>6. CredentialOK(browsing[t])'
  BY <1>1 DEF TabStep, CredentialOK
<1>7. ConsoleTypeOK'
  BY <1>1, <1>2, <1>3 DEF TabStep, ConsoleTypeOK
<1>8. QED
  BY <1>5, <1>6, <1>7 DEF SessionInv

\* The requests and the responses.
LEMMA RequestRows ==
  /\ NoRequest \in RequestRow /\ NoRequest.credential = 0 /\ ~ NoRequest.query /\ NoRequest.session = "keep"
  /\ NoRequest.stage = "idle"
  /\ LET r == [NoRequest EXCEPT !.op = "login", !.stage = "exchange"] IN
     r \in RequestRow /\ r.credential = 0 /\ ~ r.query /\ r.session = "keep"
  /\ \A op \in {"login", "logout"}, at \in {"exchange", "revoke"}, c \in Nat :
       LET r == [NoRequest EXCEPT !.op = op, !.stage = at, !.credential = c] IN
       r \in RequestRow /\ r.credential = c /\ ~ r.query /\ r.session = "keep"
<1>0. <<>> \in Seq(Nat)
  BY EmptySeq
<1>1. NoRequest \in RequestRow /\ NoRequest.credential = 0 /\ ~ NoRequest.query /\ NoRequest.session = "keep"
      /\ NoRequest.stage = "idle"
  BY <1>0 DEF NoRequest, RequestRow
<1>2. ASSUME NEW op \in {"login", "logout"}, NEW at \in {"exchange", "revoke"}, NEW c \in Nat
      PROVE  LET r == [NoRequest EXCEPT !.op = op, !.stage = at, !.credential = c] IN
             r \in RequestRow /\ r.credential = c /\ ~ r.query /\ r.session = "keep"
  BY <1>0 DEF NoRequest, RequestRow
<1>4. LET r == [NoRequest EXCEPT !.op = "login", !.stage = "exchange"] IN
      r \in RequestRow /\ r.credential = 0 /\ ~ r.query /\ r.session = "keep"
  BY <1>0 DEF NoRequest, RequestRow
<1>5. QED
  BY <1>1, <1>2, <1>4

LEMMA OutcomeRow ==
  ASSUME NEW shows \in {"redirection", "form", "problem"}, NEW session \in {"keep", "set", "clear"}, NEW c \in Nat
  PROVE  /\ Outcome(shows, session, c) \in RequestRow /\ Outcome(shows, session, c).credential = c
         /\ ~ Outcome(shows, session, c).query /\ Outcome(shows, session, c).session = session
<1>1. <<>> \in Seq(Nat)
  BY EmptySeq
<1>2. QED
  BY <1>1 DEF NoRequest, RequestRow, Outcome

LEMMA EnrichedRow ==
  ASSUME NEW r \in RequestRow,
         NEW q, q = [r EXCEPT !.stage = "answered", !.shows = "monitors", !.credential = 0, !.seen = {}]
  PROVE  /\ q \in RequestRow /\ q.credential = 0 /\ q.session = r.session /\ q.unread = r.unread /\ q.query = r.query
         /\ q.stage = "answered" /\ q.items = r.items /\ q.cursor = r.cursor
BY DEF RequestRow

LEMMA AscendingConcat ==
  ASSUME NEW a \in Seq(Nat), NEW b \in Seq(Nat), Ascending(a), Ascending(b),
         \A x \in Elements(a), y \in Elements(b) : x < y
  PROVE  a \o b \in Seq(Nat) /\ Ascending(a \o b) /\ Elements(a \o b) = Elements(a) \cup Elements(b)
<1> DEFINE s == a \o b
<1>1. /\ s \in Seq(Nat) /\ Len(s) = Len(a) + Len(b)
      /\ \A i \in 1 .. Len(a) + Len(b) : s[i] = IF i <= Len(a) THEN a[i] ELSE b[i - Len(a)]
  BY ConcatProperties
<1>2. /\ Len(a) \in Nat /\ DOMAIN a = 1 .. Len(a) /\ Len(b) \in Nat /\ DOMAIN b = 1 .. Len(b)
      /\ DOMAIN s = 1 .. Len(a) + Len(b)
  BY <1>1, LenProperties
<1> HIDE DEF s
<1>3. \A i \in DOMAIN a : i \in DOMAIN s /\ s[i] = a[i]
  BY <1>1, <1>2
<1>4. \A i \in DOMAIN b : Len(a) + i \in DOMAIN s /\ s[Len(a) + i] = b[i]
  <2>1. \A i \in DOMAIN b : Len(a) + i \in DOMAIN s /\ ~ (Len(a) + i <= Len(a)) /\ Len(a) + i - Len(a) = i
    BY <1>2
  <2>2. QED
    BY <1>1, <1>2, <2>1
<1>5. \A i \in DOMAIN s : \/ i \in DOMAIN a /\ s[i] = a[i]
                          \/ i > Len(a) /\ i - Len(a) \in DOMAIN b /\ s[i] = b[i - Len(a)]
  BY <1>1, <1>2
<1>6. Elements(s) = Elements(a) \cup Elements(b)
  <2>1. ASSUME NEW x \in Elements(s) PROVE x \in Elements(a) \cup Elements(b)
    BY <1>5, <2>1 DEF Elements
  <2>2. ASSUME NEW x \in Elements(a) PROVE x \in Elements(s)
    BY <1>3, <2>2 DEF Elements
  <2>3. ASSUME NEW x \in Elements(b) PROVE x \in Elements(s)
    <3>1. PICK i \in DOMAIN b : x = b[i]
      BY <2>3 DEF Elements
    <3>2. Len(a) + i \in DOMAIN s /\ s[Len(a) + i] = x
      BY <1>4, <3>1
    <3>3. QED
      BY <3>2 DEF Elements
  <2>4. QED
    BY <2>1, <2>2, <2>3
<1>7. ASSUME NEW i \in DOMAIN s, NEW j \in DOMAIN s, i < j PROVE s[i] < s[j]
  <2>1. CASE i \in DOMAIN a /\ j \in DOMAIN a
    BY <1>3, <1>7, <2>1 DEF Ascending
  <2>2. CASE i > Len(a) /\ j > Len(a)
    <3>1. i - Len(a) \in DOMAIN b /\ j - Len(a) \in DOMAIN b /\ i - Len(a) < j - Len(a)
      BY <1>2, <1>7, <2>2
    <3>2. s[i] = b[i - Len(a)] /\ s[j] = b[j - Len(a)]
      BY <1>2, <1>5, <2>2
    <3>3. QED
      BY <3>1, <3>2 DEF Ascending
  <2>3. CASE i \in DOMAIN a /\ j > Len(a)
    <3>1. s[i] = a[i] /\ j - Len(a) \in DOMAIN b /\ s[j] = b[j - Len(a)]
      BY <1>2, <1>3, <1>5, <2>3
    <3>2. s[i] \in Elements(a) /\ s[j] \in Elements(b)
      BY <2>3, <3>1 DEF Elements
    <3>3. QED
      BY <3>2
  <2>4. QED
    BY <1>2, <1>7, <2>1, <2>2, <2>3
<1>8. QED
  BY <1>1, <1>6, <1>7 DEF s, Ascending

\* One page more of a search.
LEMMA PageContinues ==
  ASSUME NEW r \in RequestRow, NEW w \in WalkRow, NEW items, listed \subseteq Listable, w.stable \subseteq listed,
         Continues(r, w), r.stage = "list", items = r.items \o InOrder(Page(r.cursor) \cap Matching),
         NEW q \in RequestRow, q.items = items, q.cursor = NextCursor(r.cursor),
         q.stage = "health" \/ (q.stage = "list" /\ NextCursor(r.cursor) # 0)
  PROVE  Continues(q, w)
<1> DEFINE c == r.cursor
<1> DEFINE n == NextCursor(c)
<1> DEFINE P == Page(c) \cap Matching
<1>1. c \in Nat /\ r.items \in Seq(Nat) /\ w.next \in Nat /\ w.stable \subseteq Nat
  BY ConsoleAssumption DEF RequestRow, WalkRow
<1>2. /\ IsFiniteSet(Page(c)) /\ Page(c) \subseteq Behind(c) /\ n \in Nat
      /\ n = 0 => Page(c) = Behind(c)
      /\ n # 0 => /\ n > c
                  /\ \A m \in Page(c) : m <= n
                  /\ \A m \in Behind(c) : m <= n => m \in Page(c)
  BY <1>1, PageIs
<1>3. Behind(c) \subseteq Nat /\ \A m \in Behind(c) : c < m
  BY ConsoleAssumption DEF Behind
<1>4. P \subseteq Nat /\ IsFiniteSet(P)
  BY <1>2, <1>3, FS_Subset
<1>5. InOrder(P) \in Seq(P) /\ Ascending(InOrder(P)) /\ Elements(InOrder(P)) = P
  BY <1>4, InOrderIs
<1>6. InOrder(P) \in Seq(Nat)
  BY <1>4, <1>5, SeqMonotonic
<1>7. /\ w.state = "open" /\ Ascending(r.items) /\ \A m \in Elements(r.items) : w.next < m /\ m <= c
      /\ w.next <= c /\ Complete(w, r.items, w.next, c)
  BY DEF Continues
<1>8. Elements(r.items) \subseteq Nat
  <2>1. DOMAIN r.items = 1 .. Len(r.items)
    BY <1>1, LenProperties
  <2>2. QED
    BY <1>1, <2>1, ElementOfSeq DEF Elements
<1>a. \A m \in P : m \in Nat /\ m \in Page(c) /\ c < m
  BY <1>2, <1>3
<1>b. \A m \in Elements(r.items) : m \in Nat /\ w.next < m /\ m <= c
  BY <1>7, <1>8, Zenon
<1>9. ASSUME NEW x \in Elements(r.items), NEW y \in Elements(InOrder(P)) PROVE x < y
  <2>1. x \in Nat /\ x <= c
    BY <1>b, Zenon
  <2>2. y \in Nat /\ c < y
    BY <1>5, <1>a, Zenon
  <2>3. QED
    BY <1>1, <2>1, <2>2
<1>10. Ascending(items) /\ Elements(items) = Elements(r.items) \cup P
  BY <1>1, <1>5, <1>6, <1>7, <1>9, AscendingConcat
<1> HIDE DEF P
<1>11. \A m \in Elements(items) : w.next < m
  <2>1. ASSUME NEW m \in P PROVE w.next < m
    <3>1. m \in Nat /\ c < m /\ w.next <= c
      BY <1>7, <1>a, Zenon
    <3>2. QED
      BY <1>1, <3>1
  <2>2. QED
    BY <1>10, <1>b, <2>1, Zenon
<1>12. ASSUME NEW m \in w.stable \cap Matching, w.next < m, n = 0 \/ m <= n PROVE m \in Elements(items)
  <2>0. m \in Nat /\ m \in listed
    BY <1>1
  <2>1. CASE m <= c
    BY <1>7, <1>10, <1>12, <2>1 DEF Complete
  <2>2. CASE ~ (m <= c)
    <3>1. m \in Behind(c)
      BY <1>1, <2>0, <2>2 DEF Behind
    <3>2. m \in Page(c)
      BY <1>2, <1>12, <3>1
    <3>3. QED
      BY <1>10, <3>2 DEF P
  <2>3. QED
    BY <2>1, <2>2
<1>13. n # 0 => w.next <= n /\ \A m \in Elements(items) : m <= n
  <2>1. SUFFICES ASSUME n # 0 PROVE w.next <= n /\ \A m \in Elements(items) : m <= n
    OBVIOUS
  <2>2. n > c /\ w.next <= c /\ \A m \in Page(c) : m <= n
    BY <1>2, <1>7, <2>1, Zenon
  <2>3. ASSUME NEW m \in Elements(r.items) PROVE m <= n
    <3>1. m \in Nat /\ m <= c
      BY <1>b, Zenon
    <3>2. QED
      BY <1>1, <1>2, <2>2, <3>1
  <2>4. \A m \in P : m <= n
    BY <1>a, <2>2, Zenon
  <2>5. w.next <= n
    BY <1>1, <1>2, <2>2
  <2>6. QED
    BY <1>10, <2>3, <2>4, <2>5, Zenon
<1> HIDE DEF c, n
<1>14. q.cursor = n
  BY DEF n, c
<1>15. n # 0 => Complete(w, items, w.next, n)
  BY <1>12 DEF Complete
<1>16. QED
  BY <1>7, <1>10, <1>11, <1>12, <1>13, <1>14, <1>15 DEF Continues
-----------------------------------------------------------------------------
(***************************************************************************)
(* The steps.                                                              *)
(***************************************************************************)
ConsoleInv == SessionInv /\ SearchInv

\* What the search needs of a step of a tab.
LEMMA SearchKept ==
  ASSUME ConsoleInv, NEW t \in Tab, NEW r, TabStep(t, r), WalkOK', r.query => t = Walker,
         IF t = Walker THEN r.query => Continues(r, walk') ELSE walk' = walk
  PROVE  ConsoleInv'
<1>1. SessionInv'
  BY TabStepKeeps DEF ConsoleInv
<1>2. browsing'[t] = r /\ \A u \in Tab \ {t} : browsing'[u] = browsing[u]
  BY DEF TabStep, ConsoleInv, SessionInv, ConsoleTypeOK
<1>3. \A u \in Tab : browsing'[u].query => u = Walker
  BY <1>2 DEF ConsoleInv, SearchInv
<1>4. browsing'[Walker].query => Continues(browsing'[Walker], walk')
  <2>1. CASE t = Walker
    BY <1>2, <2>1
  <2>2. CASE t # Walker
    <3>1. browsing'[Walker] = browsing[Walker] /\ walk' = walk
      BY <1>2, <2>2, ConsoleAssumption
    <3>2. QED
      BY <3>1 DEF ConsoleInv, SearchInv
  <2>3. QED
    BY <2>1, <2>2
<1>5. SearchInv'
  BY <1>3, <1>4 DEF SearchInv
<1>6. QED
  BY <1>1, <1>5 DEF ConsoleInv

\* A step that has nothing to do with the search, and issues nothing.
LEMMA QuietStep ==
  ASSUME ConsoleInv, NEW t \in Tab, NEW r \in RequestRow, browsing' = [browsing EXCEPT ![t] = r], ~ r.query,
         UNCHANGED <<issued, cookie, listed, walk>>, live' \subseteq live,
         r.credential \in 0 .. issued, r.session = "clear" => r.credential \notin live' \/ r.unread
  PROVE  ConsoleInv'
<1>1. TabStep(t, r)
  BY DEF TabStep, ConsoleInv, SessionInv, ConsoleTypeOK
<1>2. WalkOK'
  BY DEF ConsoleInv, SearchInv, WalkOK, Complete
<1>3. QED
  BY <1>1, <1>2, SearchKept

LEMMA RespondStep ==
  ASSUME ConsoleInv, NEW t \in Tab, NEW shows \in {"redirection", "form", "problem"}, NEW session \in {"keep", "clear"},
         Respond(t, shows, session), UNCHANGED <<issued, cookie, listed, walk>>, live' \subseteq live,
         session = "clear" => browsing[t].credential \notin live'
  PROVE  ConsoleInv'
<1> DEFINE c == IF session = "keep" THEN 0 ELSE browsing[t].credential
<1> DEFINE r == Outcome(shows, session, c)
<1>0. browsing[t].credential \in 0 .. issued /\ issued \in Nat /\ browsing \in [Tab -> RequestRow]
  BY DEF ConsoleInv, SessionInv, CredentialOK, ConsoleTypeOK
<1>1. c \in Nat /\ c \in 0 .. issued /\ (session = "clear" => c \notin live')
  BY <1>0
<1>2. browsing' = [browsing EXCEPT ![t] = r]
  BY DEF Respond
<1> HIDE DEF c
<1>3. r \in RequestRow /\ r.credential = c /\ ~ r.query /\ r.session = session
  BY <1>1, OutcomeRow
<1> HIDE DEF r
<1>4. QED
  BY <1>1, <1>2, <1>3, QuietStep

\* A session is given up because it ended, or because its lookup failed.
LEMMA UnauthorizedStep ==
  ASSUME ConsoleInv, NEW t \in Tab, NEW shows \in {"redirection", "problem"}, Unauthorized(t, shows),
         UNCHANGED <<issued, live, cookie, listed, walk>>
  PROVE  ConsoleInv'
<1> DEFINE c == browsing[t].credential
<1>0. c \in 0 .. issued /\ c \in Nat /\ browsing \in [Tab -> RequestRow]
  BY DEF ConsoleInv, SessionInv, CredentialOK, ConsoleTypeOK
<1>1. PICK unread \in BOOLEAN :
        /\ unread \/ c \notin live
        /\ browsing' = [browsing EXCEPT ![t] = [Outcome(shows, "clear", c) EXCEPT !.unread = unread]]
  BY DEF Unauthorized
<1> HIDE DEF c
<1> DEFINE r == [Outcome(shows, "clear", c) EXCEPT !.unread = unread]
<1>2. r \in RequestRow /\ r.credential = c /\ ~ r.query /\ r.session = "clear" /\ r.unread = unread
  <2>1. <<>> \in Seq(Nat)
    BY EmptySeq
  <2>2. QED
    BY <1>0, <1>1, <2>1 DEF Outcome, NoRequest, RequestRow
<1>3. browsing' = [browsing EXCEPT ![t] = r]
  BY <1>1
<1> HIDE DEF r
<1>4. QED
  BY <1>0, <1>1, <1>2, <1>3, QuietStep

LEMMA LoadStep ==
  ASSUME ConsoleInv, NEW t \in Tab, NEW query \in BOOLEAN, NEW cursor \in Nat, Load(t, query, cursor), cookie # 0
  PROVE  \E r \in RequestRow :
           /\ browsing' = [browsing EXCEPT ![t] = r] /\ r.credential = cookie /\ r.query = query
           /\ r.session = "keep" /\ r.stage = "list" /\ r.items = <<>> /\ r.cursor = cursor
<1>1. cookie \in Nat
  BY DEF ConsoleInv, SessionInv, ConsoleTypeOK
<1> DEFINE q == [NoRequest EXCEPT !.op = "monitors", !.stage = "list", !.credential = cookie,
                                  !.query = query, !.cursor = cursor]
<1>2. /\ q \in RequestRow /\ q.credential = cookie /\ q.query = query /\ q.session = "keep"
      /\ q.stage = "list" /\ q.items = <<>> /\ q.cursor = cursor
  <2>1. <<>> \in Seq(Nat)
    BY EmptySeq
  <2>2. QED
    BY <1>1, <2>1 DEF NoRequest, RequestRow
<1>3. browsing' = [browsing EXCEPT ![t] = q]
  BY DEF Load, Visit
<1> HIDE DEF q
<1>4. QED
  BY <1>2, <1>3

LEMMA SearchBegins ==
  ASSUME ConsoleInv, NEW t \in Tab, Search(t)
  PROVE  ConsoleInv'
<1>0. /\ t = Walker /\ cookie # 0 /\ UNCHANGED <<issued, live, cookie, listed>>
      /\ listed \subseteq Listable /\ walk \in WalkRow /\ issued \in Nat /\ cookie \in 0 .. issued
  BY DEF Search, ConsoleInv, SessionInv, ConsoleTypeOK
<1>1. ASSUME NEW w \in WalkRow, walk' = w, Load(t, TRUE, w.next), WalkOK', w.state = "open" PROVE ConsoleInv'
  <2>0. w.next \in Nat
    BY DEF WalkRow
  <2>1. PICK r \in RequestRow :
          /\ browsing' = [browsing EXCEPT ![t] = r] /\ r.credential = cookie /\ r.query = TRUE
          /\ r.session = "keep" /\ r.stage = "list" /\ r.items = <<>> /\ r.cursor = w.next
    BY <1>0, <1>1, <2>0, LoadStep, ZenonT(30)
  <2>2. TabStep(t, r)
    BY <1>0, <1>1, <2>1 DEF TabStep, ConsoleInv, SessionInv, ConsoleTypeOK
  <2>3. Continues(r, w)
    <3>1. Ascending(r.items) /\ Elements(r.items) = {}
      BY <2>1 DEF Ascending, Elements
    <3>2. Complete(w, r.items, w.next, r.cursor)
      <4>1. \A m \in w.stable \cap Matching : ~ (w.next < m /\ m <= w.next)
        <5>1. \A m \in Matching : m \in Nat
          BY ConsoleAssumption
        <5>2. QED
          BY <2>0, <5>1
      <4>2. QED
        BY <2>1, <4>1 DEF Complete
    <3>3. QED
      BY <1>1, <2>0, <2>1, <3>1, <3>2 DEF Continues
  <2>4. QED
    BY <1>0, <1>1, <2>2, <2>3, SearchKept
<1>2. CASE walk.state = "open" /\ Load(t, TRUE, walk.next) /\ UNCHANGED walk
  <2>1. WalkOK'
    BY <1>0, <1>2 DEF ConsoleInv, SearchInv, WalkOK, Complete
  <2>2. QED
    BY <1>0, <1>1, <1>2, <2>1
<1>3. CASE Load(t, TRUE, 0) /\ walk' = [NoWalk EXCEPT !.state = "open", !.stable = listed]
  <2> DEFINE w == [shown |-> <<>>, next |-> 0, stable |-> listed, state |-> "open"]
  <2>0. <<>> \in Seq(Nat)
    BY EmptySeq
  <2>1. walk' = w
    BY <1>3 DEF NoWalk
  <2>2. w \in WalkRow /\ w.next = 0 /\ w.state = "open" /\ w.stable = listed /\ w.shown = <<>>
    BY <1>0, <2>0 DEF WalkRow
  <2> HIDE DEF w
  <2>3. Ascending(w.shown) /\ Elements(w.shown) = {}
    BY <2>2 DEF Ascending, Elements
  <2>4. Complete(w, w.shown, 0, w.next)
    <3>1. \A m \in Matching : m \in Nat /\ ~ (0 < m /\ m <= 0)
      BY ConsoleAssumption
    <3>2. QED
      BY <2>2, <3>1 DEF Complete
  <2>5. WalkOK'
    BY <1>0, <2>1, <2>2, <2>3, <2>4 DEF WalkOK, Complete
  <2>6. QED
    BY <1>1, <1>3, <2>1, <2>2, <2>5
<1>4. QED
  BY <1>2, <1>3 DEF Search

LEMMA PageStep ==
  ASSUME ConsoleInv, NEW t \in Tab, ListPage(t)
  PROVE  ConsoleInv'
<1> DEFINE r == browsing[t]
<1> DEFINE n == NextCursor(r.cursor)
<1> DEFINE items == r.items \o InOrder(IF r.query THEN Page(r.cursor) \cap Matching ELSE Page(r.cursor))
<1>0. /\ r \in RequestRow /\ CredentialOK(r) /\ listed \subseteq Listable /\ walk \in WalkRow
      /\ issued \in Nat /\ cookie \in 0 .. issued /\ WalkOK
  BY DEF ConsoleInv, SessionInv, ConsoleTypeOK, SearchInv
<1>1. r.stage = "list" /\ UNCHANGED <<issued, live, cookie, listed, walk>>
  BY DEF ListPage, In
<1>2. \/ browsing' = [browsing EXCEPT ![t] = [r EXCEPT !.stage = "health", !.items = items, !.cursor = n]]
      \/ /\ browsing' = [browsing EXCEPT ![t] = [r EXCEPT !.items = items, !.cursor = n, !.seen = @ \cup {r.cursor}]]
         /\ r.query /\ n # 0
  BY DEF ListPage, WindowEnds
<1>3. r.cursor \in Nat /\ r.items \in Seq(Nat)
  BY <1>0 DEF RequestRow
<1>4. n \in Nat /\ IsFiniteSet(Page(r.cursor)) /\ Page(r.cursor) \subseteq Listable
  BY <1>0, <1>3, PageIs DEF Behind
<1>5. items \in Seq(Nat)
  <2> DEFINE P == IF r.query THEN Page(r.cursor) \cap Matching ELSE Page(r.cursor)
  <2>1. P \subseteq Nat /\ P \subseteq Page(r.cursor)
    BY <1>4, ConsoleAssumption
  <2>2. IsFiniteSet(P)
    BY <1>4, <2>1, FS_Subset
  <2> HIDE DEF P
  <2>3. InOrder(P) \in Seq(Nat)
    BY <2>1, <2>2, InOrderIs, SeqMonotonic
  <2>4. r.items \o InOrder(P) \in Seq(Nat)
    BY <1>3, <2>3, ConcatProperties
  <2>5. QED
    BY <2>4 DEF P
<1>6. r.query => items = r.items \o InOrder(Page(r.cursor) \cap Matching)
  OBVIOUS
<1> HIDE DEF items, n
\* The request that goes on.
<1>7. ASSUME NEW q \in RequestRow, browsing' = [browsing EXCEPT ![t] = q], q.credential = r.credential,
             q.session = r.session, q.unread = r.unread, q.query = r.query, q.items = items, q.cursor = n,
             q.stage = "health" \/ (q.stage = "list" /\ n # 0)
      PROVE  ConsoleInv'
  <2>1. TabStep(t, q)
    BY <1>0, <1>1, <1>7 DEF TabStep, CredentialOK
  <2>2. q.query => t = Walker
    BY <1>7 DEF ConsoleInv, SearchInv
  <2>3. q.query => Continues(q, walk)
    <3>1. SUFFICES ASSUME q.query PROVE Continues(q, walk)
      OBVIOUS
    <3>2. Continues(r, walk)
      BY <1>7, <2>2, <3>1 DEF ConsoleInv, SearchInv
    <3>3. walk.stable \subseteq listed
      BY <1>0 DEF WalkOK
    <3>4. items = r.items \o InOrder(Page(r.cursor) \cap Matching)
      BY <1>6, <1>7, <3>1
    <3> HIDE DEF r
    <3>5. QED
      BY <1>0, <1>1, <1>7, <3>2, <3>3, <3>4, PageContinues DEF n
  <2>4. WalkOK'
    BY <1>0, <1>1 DEF WalkOK, Complete
  <2>5. QED
    BY <1>1, <2>1, <2>2, <2>3, <2>4, SearchKept
<1>8. CASE browsing' = [browsing EXCEPT ![t] = [r EXCEPT !.stage = "health", !.items = items, !.cursor = n]]
  <2> DEFINE q == [r EXCEPT !.stage = "health", !.items = items, !.cursor = n]
  <2>0. q = [r EXCEPT !.stage = "health", !.items = items, !.cursor = n] /\ r \in RequestRow /\ items \in Seq(Nat) /\ n \in Nat
    BY <1>0, <1>4, <1>5
  <2> HIDE DEF q, r
  <2>1. /\ q \in RequestRow /\ q.credential = r.credential /\ q.session = r.session /\ q.unread = r.unread /\ q.query = r.query
        /\ q.stage = "health" /\ q.items = items /\ q.cursor = n
    BY <2>0 DEF RequestRow
  <2>2. QED
    BY <1>7, <1>8, <2>1 DEF q
<1>9. CASE /\ browsing' = [browsing EXCEPT ![t] = [r EXCEPT !.items = items, !.cursor = n, !.seen = @ \cup {r.cursor}]]
           /\ r.query /\ n # 0
  <2> DEFINE q == [r EXCEPT !.items = items, !.cursor = n, !.seen = @ \cup {r.cursor}]
  <2>0. q = [r EXCEPT !.items = items, !.cursor = n, !.seen = @ \cup {r.cursor}] /\ r \in RequestRow /\ items \in Seq(Nat) /\ n \in Nat
    BY <1>0, <1>4, <1>5
  <2> HIDE DEF q, r
  <2>1. /\ q \in RequestRow /\ q.credential = r.credential /\ q.session = r.session /\ q.unread = r.unread /\ q.query = r.query
        /\ q.stage = r.stage /\ q.items = items /\ q.cursor = n
    <3>1. r.cursor \in Nat /\ r.seen \in SUBSET Nat
      BY <2>0 DEF RequestRow
    <3>2. r.seen \cup {r.cursor} \in SUBSET Nat
      BY <3>1
    <3>3. QED
      BY <2>0, <3>2 DEF RequestRow
  <2>2. QED
    BY <1>1, <1>7, <1>9, <2>1 DEF q
<1>10. QED
  BY <1>2, <1>8, <1>9

LEMMA EnrichStep ==
  ASSUME ConsoleInv, NEW t \in Tab, Enrich(t)
  PROVE  ConsoleInv'
<1> DEFINE r == browsing[t]
<1>0. /\ r \in RequestRow /\ CredentialOK(r) /\ listed \subseteq Listable /\ walk \in WalkRow /\ live \subseteq 1 .. issued
      /\ issued \in Nat /\ cookie \in 0 .. issued /\ WalkOK
  BY DEF ConsoleInv, SessionInv, ConsoleTypeOK, SearchInv
<1>1. r.stage = "health" /\ UNCHANGED <<issued, live, cookie, listed, walk>>
  BY DEF Enrich, In
<1>2. CASE Unauthorized(t, "redirection")
  BY <1>1, <1>2, UnauthorizedStep
<1>3. CASE browsing' = [browsing EXCEPT ![t].stage = "answered", ![t].shows = "monitors",
                                        ![t].credential = 0, ![t].seen = {}]
  <2> DEFINE q == [r EXCEPT !.stage = "answered", !.shows = "monitors", !.credential = 0, !.seen = {}]
  <2>1. browsing' = [browsing EXCEPT ![t] = q]
    BY <1>3 DEF ConsoleInv, SessionInv, ConsoleTypeOK
  <2>2. /\ q \in RequestRow /\ q.credential = 0 /\ q.session = r.session /\ q.unread = r.unread /\ q.query = r.query
        /\ q.stage = "answered" /\ q.items = r.items /\ q.cursor = r.cursor
    BY <1>0, EnrichedRow, Zenon
  <2> HIDE DEF q
  <2>3. TabStep(t, q)
    BY <1>0, <1>1, <2>1, <2>2 DEF TabStep
  <2>4. q.query => t = Walker
    BY <2>2 DEF ConsoleInv, SearchInv
  <2>5. q.query => Continues(q, walk)
    BY <1>1, <2>2, <2>4 DEF ConsoleInv, SearchInv, Continues
  <2>6. WalkOK'
    BY <1>0, <1>1 DEF WalkOK, Complete
  <2>7. QED
    BY <1>1, <2>3, <2>4, <2>5, <2>6, SearchKept
<1>4. QED
  BY <1>2, <1>3 DEF Enrich

\* What was followed to the end of a window has been shown.
LEMMA ArriveStep ==
  ASSUME ConsoleInv, NEW t \in Tab, Arrive(t)
  PROVE  ConsoleInv'
<1> DEFINE r == browsing[t]
<1>0. /\ r \in RequestRow /\ CredentialOK(r) /\ listed \subseteq Listable /\ walk \in WalkRow /\ live \subseteq 1 .. issued
      /\ issued \in Nat /\ cookie \in 0 .. issued /\ WalkOK
  BY DEF ConsoleInv, SessionInv, ConsoleTypeOK, SearchInv
<1>1. /\ r.stage = "answered" /\ UNCHANGED <<issued, live, listed>>
      /\ cookie' = CASE r.session = "set" -> r.credential [] r.session = "clear" -> 0 [] OTHER -> cookie
      /\ browsing' = [browsing EXCEPT ![t] = NoRequest]
  BY DEF Arrive
<1>2. cookie' \in 0 .. issued
  BY <1>0, <1>1 DEF CredentialOK
<1>3. ASSUME walk' \in WalkRow, WalkOK', t = Walker \/ walk' = walk PROVE ConsoleInv'
  <2>1. TabStep(t, NoRequest)
    <3>1. NoRequest \in RequestRow /\ NoRequest.credential = 0 /\ NoRequest.session = "keep"
      BY RequestRows
    <3>2. 0 \in 0 .. issued
      BY <1>0
    <3>3. QED
      BY <1>0, <1>1, <1>2, <1>3, <3>1, <3>2 DEF TabStep
  <2>2. ~ NoRequest.query
    BY RequestRows
  <2>3. QED
    BY <1>3, <2>1, <2>2, SearchKept
<1>4. CASE ~ (r.query /\ r.shows = "monitors")
  <2>1. walk' = walk
    BY <1>4 DEF Arrive
  <2>2. WalkOK'
    BY <1>0, <1>1, <2>1 DEF WalkOK, Complete
  <2>3. QED
    BY <1>0, <1>3, <2>1, <2>2
<1>5. CASE r.query /\ r.shows = "monitors"
  <2> DEFINE shown == walk.shown \o r.items
  <2> DEFINE state == IF r.cursor = 0 THEN "ended" ELSE "open"
  <2>0. t = Walker /\ Continues(r, walk)
    BY <1>5 DEF ConsoleInv, SearchInv
  <2>1. walk' = [walk EXCEPT !.shown = shown, !.next = r.cursor, !.state = state]
    BY <1>0, <1>5 DEF Arrive, WalkRow
  <2>2. r.cursor \in Nat /\ r.items \in Seq(Nat) /\ walk.shown \in Seq(Nat) /\ walk.next \in Nat
    BY <1>0 DEF RequestRow, WalkRow
  <2>3. Ascending(walk.shown) /\ Ascending(r.items) /\ walk.state = "open"
    BY <1>0, <2>0 DEF WalkOK, Continues
  <2>4. ASSUME NEW x \in Elements(walk.shown), NEW y \in Elements(r.items) PROVE x < y
    <3>1. x <= walk.next /\ walk.next < y
      BY <1>0, <2>0, <2>3 DEF WalkOK, Continues
    <3>2. x \in Nat /\ y \in Nat
      <4>1. DOMAIN walk.shown = 1 .. Len(walk.shown) /\ DOMAIN r.items = 1 .. Len(r.items)
        BY <2>2, LenProperties
      <4>2. QED
        BY <2>2, <4>1, ElementOfSeq DEF Elements
    <3>3. QED
      BY <2>2, <3>1, <3>2
  <2> HIDE DEF r
  <2>5. shown \in Seq(Nat) /\ Ascending(shown) /\ Elements(shown) = Elements(walk.shown) \cup Elements(r.items)
    BY <2>2, <2>3, <2>4, AscendingConcat
  <2>6. state \in {"ended", "open"}
    OBVIOUS
  <2> HIDE DEF shown
  <2>7. walk' \in WalkRow /\ walk'.shown = shown /\ walk'.next = r.cursor /\ walk'.state = state /\ walk'.stable = walk.stable
    <3> HIDE DEF state
    <3>1. QED
      BY <1>0, <2>1, <2>2, <2>5, <2>6 DEF WalkRow
  <2>8. walk.stable \subseteq Nat /\ walk.stable \subseteq listed /\ \A m \in Matching : m \in Nat /\ 0 < m
    <3>1. walk.stable \subseteq listed
      BY <1>0 DEF WalkOK
    <3>2. listed \subseteq Nat /\ \A m \in Matching : m \in Nat /\ 0 < m
      BY <1>0, ConsoleAssumption
    <3>3. QED
      BY <3>1, <3>2
  <2>9. ASSUME NEW m \in walk.stable \cap Matching, r.cursor = 0 \/ m <= r.cursor PROVE m \in Elements(shown)
    <3>1. CASE m <= walk.next
      BY <1>0, <2>3, <2>5, <2>8, <3>1 DEF WalkOK, Complete
    <3>2. CASE walk.next < m
      BY <1>1, <2>0, <2>5, <2>9, <3>2 DEF Continues, Complete
    <3>3. QED
      BY <2>2, <2>8, <3>1, <3>2
  <2>10. ASSUME r.cursor # 0, NEW m \in Elements(shown) PROVE m <= r.cursor
    <3>1. walk.next <= r.cursor /\ \A x \in Elements(r.items) : x <= r.cursor
      BY <2>0, <2>10 DEF Continues
    <3>2. CASE m \in Elements(walk.shown)
      <4>1. m <= walk.next
        BY <1>0, <2>3, <3>2 DEF WalkOK
      <4>2. m \in Nat
        <5>1. DOMAIN walk.shown = 1 .. Len(walk.shown)
          BY <2>2, LenProperties
        <5>2. QED
          BY <2>2, <3>2, <5>1, ElementOfSeq DEF Elements
      <4>3. QED
        BY <2>2, <3>1, <4>1, <4>2
    <3>3. QED
      BY <2>5, <2>10, <3>1, <3>2
  <2>11. WalkOK'
    <3>1. Ascending(walk'.shown) /\ walk'.stable \subseteq listed'
      BY <1>1, <2>5, <2>7, <2>8
    <3>2. walk'.state = "open" =>
            /\ \A m \in Elements(walk'.shown) : m <= walk'.next
            /\ \A m \in walk'.stable \cap Matching : 0 < m /\ m <= walk'.next => m \in Elements(walk'.shown)
      BY <2>7, <2>9, <2>10
    <3>3. walk'.state = "ended" => walk'.stable \cap Matching \subseteq Elements(walk'.shown)
      BY <2>7, <2>9
    <3>4. QED
      BY <3>1, <3>2, <3>3 DEF WalkOK, Complete
  <2>12. QED
    BY <1>3, <2>0, <2>7, <2>11
<1>6. QED
  BY <1>4, <1>5

LEMMA ListingStep ==
  ASSUME ConsoleInv, NEW m \in Listable, ListedChanges(m)
  PROVE  ConsoleInv'
<1>0. /\ listed \subseteq Listable /\ walk \in WalkRow /\ UNCHANGED <<issued, live, cookie, browsing>>
      /\ WalkOK /\ listed' \subseteq Listable /\ listed \ {m} \subseteq listed'
  BY DEF ListedChanges, ConsoleInv, SessionInv, ConsoleTypeOK, SearchInv
<1>1. /\ walk' \in WalkRow /\ walk'.stable = walk.stable \ {m}
      /\ walk'.shown = walk.shown /\ walk'.next = walk.next /\ walk'.state = walk.state
  BY <1>0 DEF ListedChanges, WalkRow
<1>2. SessionInv'
  BY <1>0, <1>1 DEF ConsoleInv, SessionInv, ConsoleTypeOK, CredentialOK
<1>3. WalkOK'
  BY <1>0, <1>1 DEF WalkOK, Complete
<1>4. browsing[Walker].query => Continues(browsing[Walker], walk')
  BY <1>1 DEF ConsoleInv, SearchInv, Continues, Complete
<1>5. SearchInv'
  BY <1>0, <1>3, <1>4 DEF ConsoleInv, SearchInv
<1>6. QED
  BY <1>2, <1>5 DEF ConsoleInv

LEMMA ConsoleStep ==
  ASSUME ConsoleInv, [ConsoleNext]_consoleVars
  PROVE  ConsoleInv'
<1>0. /\ issued \in Nat /\ live \subseteq 1 .. issued /\ cookie \in 0 .. issued /\ cookie \in Nat
      /\ listed \subseteq Listable /\ walk \in WalkRow /\ WalkOK
      /\ \A t \in Tab : browsing[t].credential \in 0 .. issued
  BY DEF ConsoleInv, SessionInv, ConsoleTypeOK, CredentialOK, SearchInv
<1>1. ASSUME NEW t \in Tab, NEW r, r \in RequestRow, browsing' = [browsing EXCEPT ![t] = r], ~ r.query,
             r.credential = 0, r.session = "keep", UNCHANGED <<issued, live, cookie, listed, walk>>
      PROVE  ConsoleInv'
  <2>1. r.credential \in 0 .. issued /\ live' \subseteq live /\ (r.session = "clear" => r.credential \notin live' \/ r.unread)
    BY <1>0, <1>1
  <2>2. QED
    BY <1>1, <2>1, QuietStep
<1>a. ASSUME NEW t \in Tab, NEW shows \in {"redirection", "form", "problem"}, Visit(t, Outcome(shows, "keep", 0)),
             UNCHANGED <<issued, live, cookie, listed, walk>>
      PROVE  ConsoleInv'
  <2> DEFINE r == Outcome(shows, "keep", 0)
  <2>1. r \in RequestRow /\ r.credential = 0 /\ ~ r.query /\ r.session = "keep"
    BY <1>a, OutcomeRow
  <2>2. browsing' = [browsing EXCEPT ![t] = r]
    BY <1>a DEF Visit
  <2> HIDE DEF r
  <2>3. QED
    BY <1>1, <1>a, <2>1, <2>2
<1>2. ASSUME NEW t \in Tab, GetLogin(t) PROVE ConsoleInv'
  <2>1. PICK shows \in {"redirection", "form"} : Visit(t, Outcome(shows, "keep", 0))
    BY <1>2 DEF GetLogin
  <2>2. QED
    BY <1>2, <1>a, <2>1 DEF GetLogin
<1>3. ASSUME NEW t \in Tab, PostLogin(t) PROVE ConsoleInv'
  <2>0. UNCHANGED <<issued, live, cookie, listed, walk>>
    BY <1>3 DEF PostLogin
  <2>1. CASE Visit(t, Refused)
    BY <1>a, <2>0, <2>1 DEF Refused
  <2>2. CASE Visit(t, [NoRequest EXCEPT !.op = "login", !.stage = "exchange"])
    <3> DEFINE r == [NoRequest EXCEPT !.op = "login", !.stage = "exchange"]
    <3>1. r \in RequestRow /\ r.credential = 0 /\ ~ r.query /\ r.session = "keep"
      BY RequestRows
    <3>2. browsing' = [browsing EXCEPT ![t] = r]
      BY <2>2 DEF Visit
    <3> HIDE DEF r
    <3>3. QED
      BY <1>1, <2>0, <3>1, <3>2
  <2>3. QED
    BY <1>3, <2>1, <2>2 DEF PostLogin
<1>4. ASSUME NEW t \in Tab, Exchange(t) PROVE ConsoleInv'
  <2>0. UNCHANGED <<cookie, listed, walk>>
    BY <1>4 DEF Exchange
  <2>1. ASSUME NEW c \in {0, issued'}, NEW shows \in {"redirection", "problem"}, NEW session \in {"keep", "set"},
               issued' = issued + 1, live' = live \cup {issued'}, browsing' = [browsing EXCEPT ![t] = Outcome(shows, session, c)]
        PROVE  ConsoleInv'
    <3> DEFINE r == Outcome(shows, session, c)
    <3>0. c \in Nat /\ c \in 0 .. issued' /\ issued' \in Nat /\ cookie' \in 0 .. issued' /\ issued <= issued'
      BY <1>0, <2>0, <2>1
    <3>1. r \in RequestRow /\ r.credential = c /\ ~ r.query /\ r.session = session
      BY <3>0, OutcomeRow
    <3> HIDE DEF r
    <3>2. TabStep(t, r)
      BY <1>0, <2>0, <2>1, <3>0, <3>1 DEF TabStep, r
    <3>3. WalkOK'
      BY <1>0, <2>0 DEF WalkOK, Complete
    <3>4. QED
      BY <2>0, <3>1, <3>2, <3>3, SearchKept
  <2>2. CASE /\ issued' = issued + 1 /\ live' = live \cup {issued'}
             /\ browsing' = [browsing EXCEPT ![t] = Outcome("redirection", "set", issued')]
    BY <2>1, <2>2
  <2>3. CASE /\ issued' = issued + 1 /\ live' = live \cup {issued'} /\ Problem(t)
    <3>1. browsing' = [browsing EXCEPT ![t] = Outcome("problem", "keep", 0)]
      BY <2>3 DEF Problem, Respond
    <3>2. QED
      BY <2>1, <2>3, <3>1
  <2>4. CASE (Respond(t, "form", "keep") \/ Problem(t)) /\ UNCHANGED <<issued, live>>
    BY <2>0, <2>4, RespondStep DEF Problem
  <2>5. QED
    BY <1>4, <2>2, <2>3, <2>4 DEF Exchange
<1>5. ASSUME NEW t \in Tab, LoadMonitors(t) PROVE ConsoleInv'
  <2>0. UNCHANGED <<issued, live, cookie, listed, walk>> /\ Load(t, FALSE, 0)
    BY <1>5 DEF LoadMonitors
  <2>1. CASE cookie = 0
    BY <1>a, <2>0, <2>1 DEF Load
  <2>2. CASE cookie # 0
    <3>1. PICK r \in RequestRow :
            /\ browsing' = [browsing EXCEPT ![t] = r] /\ r.credential = cookie /\ r.query = FALSE /\ r.session = "keep"
      <4>1. FALSE \in BOOLEAN /\ 0 \in Nat
        OBVIOUS
      <4>2. \E r \in RequestRow :
              /\ browsing' = [browsing EXCEPT ![t] = r] /\ r.credential = cookie /\ r.query = FALSE
              /\ r.session = "keep" /\ r.stage = "list" /\ r.items = <<>> /\ r.cursor = 0
        BY <2>0, <2>2, <4>1, LoadStep, Zenon
      <4>3. QED
        BY <4>2
    <3>2. QED
      BY <1>0, <2>0, <3>1, QuietStep
  <2>3. QED
    BY <2>1, <2>2
<1>6. ASSUME NEW t \in Tab, ListFails(t) PROVE ConsoleInv'
  <2>1. UNCHANGED <<issued, live, cookie, listed, walk>>
    BY <1>6 DEF ListFails
  <2>2. Respond(t, "problem", "keep") \/ Unauthorized(t, "redirection")
    BY <1>6 DEF ListFails, Problem
  <2>3. QED
    BY <2>1, <2>2, RespondStep, UnauthorizedStep
<1>7. ASSUME NEW t \in Tab, PostLogout(t) PROVE ConsoleInv'
  <2>0. UNCHANGED <<issued, live, cookie, listed, walk>>
    BY <1>7 DEF PostLogout
  <2>1. CASE Visit(t, Refused)
    BY <1>a, <2>0, <2>1 DEF Refused
  <2>2. CASE Visit(t, [NoRequest EXCEPT !.op = "logout", !.stage = "revoke", !.credential = cookie])
    <3> DEFINE r == [NoRequest EXCEPT !.op = "logout", !.stage = "revoke", !.credential = cookie]
    <3>1. r \in RequestRow /\ r.credential = cookie /\ ~ r.query /\ r.session = "keep"
      BY <1>0, RequestRows
    <3>2. browsing' = [browsing EXCEPT ![t] = r]
      BY <2>2 DEF Visit
    <3> HIDE DEF r
    <3>3. QED
      BY <1>0, <2>0, <3>1, <3>2, QuietStep
  <2>3. QED
    BY <1>7, <2>1, <2>2 DEF PostLogout
<1>8. ASSUME NEW t \in Tab, RevokeSession(t) PROVE ConsoleInv'
  <2>0. UNCHANGED <<issued, cookie, listed, walk>> /\ live' \subseteq live
    BY <1>8 DEF RevokeSession
  <2>1. \/ Respond(t, "problem", "keep")
        \/ /\ browsing[t].credential \notin live'
           /\ Respond(t, "redirection", "clear")
        \/ live' = live /\ Unauthorized(t, "problem")
    BY <1>8 DEF RevokeSession, KeepSession, Problem
  <2>2. QED
    BY <2>0, <2>1, RespondStep, UnauthorizedStep
<1>9. ASSUME NEW c \in live, Expire(c) PROVE ConsoleInv'
  <2>1. UNCHANGED <<issued, cookie, listed, browsing, walk>> /\ live' \subseteq live
    BY <1>9 DEF Expire
  <2>2. SessionInv'
    BY <2>1 DEF ConsoleInv, SessionInv, ConsoleTypeOK, CredentialOK
  <2>3. SearchInv'
    BY <2>1 DEF ConsoleInv, SearchInv, WalkOK, Complete, Continues
  <2>4. QED
    BY <2>2, <2>3 DEF ConsoleInv
<1>10. CASE UNCHANGED consoleVars
  <2>1. UNCHANGED <<issued, live, cookie, listed, browsing, walk>>
    BY <1>10 DEF consoleVars
  <2>2. SessionInv'
    BY <2>1 DEF ConsoleInv, SessionInv, ConsoleTypeOK, CredentialOK
  <2>3. SearchInv'
    BY <2>1 DEF ConsoleInv, SearchInv, WalkOK, Complete, Continues
  <2>4. QED
    BY <2>2, <2>3 DEF ConsoleInv
<1>11. QED
  BY <1>2, <1>3, <1>4, <1>5, <1>6, <1>7, <1>8, <1>9, <1>10,
     SearchBegins, PageStep, EnrichStep, ArriveStep, ListingStep DEF ConsoleNext

LEMMA ConsoleBegins == ConsoleInit => ConsoleInv
<1> SUFFICES ASSUME ConsoleInit PROVE ConsoleInv
  OBVIOUS
<1>0. <<>> \in Seq(Nat)
  BY EmptySeq
<1>1. \A t \in Tab : browsing[t] = NoRequest
  BY DEF ConsoleInit
<1>2. walk = NoWalk /\ NoWalk \in WalkRow
  BY <1>0 DEF ConsoleInit, NoWalk, WalkRow
<1>r. /\ NoRequest \in RequestRow /\ NoRequest.credential = 0 /\ NoRequest.session = "keep" /\ ~ NoRequest.query
  BY RequestRows
<1>3. SessionInv
  BY <1>1, <1>2, <1>r DEF ConsoleInit, SessionInv, ConsoleTypeOK, CredentialOK
<1>4. WalkOK
  BY <1>2 DEF WalkOK, NoWalk, Ascending
<1>5. SearchInv
  BY <1>1, <1>4, <1>r, ConsoleAssumption DEF SearchInv
<1>6. QED
  BY <1>3, <1>5 DEF ConsoleInv

\* The sessions and the search of the UI server keep ConsoleInv: a credential in
\* use was issued, a session that a tab is told to forget is not accepted or
\* could not be looked up, and what a search has shown is complete up to its
\* cursor.
THEOREM ConsoleInvariance == ConsoleSpec => []ConsoleInv
<1>1. ConsoleInv /\ [ConsoleNext]_consoleVars => ConsoleInv'
  BY ConsoleStep
<1>2. QED
  BY <1>1, ConsoleBegins, PTL DEF ConsoleSpec

\* A search shows every match that was there all the time, once and in order.
THEOREM ConsoleEveryMatchShown == ConsoleSpec => []EveryMatchShown
<1>1. ConsoleInv => EveryMatchShown
  BY DEF ConsoleInv, SearchInv, WalkOK, EveryMatchShown, Ascending, Elements
<1>2. QED
  BY <1>1, ConsoleInvariance, PTL

\* The browser is told to forget a session only when it has ended or the control
\* plane could not look it up: no other failure of a sign-out or a list does so.
THEOREM ConsoleForgottenIsEnded == ConsoleSpec => []ForgottenIsEnded
<1>1. ConsoleInv => ForgottenIsEnded
  BY DEF ConsoleInv, SessionInv, CredentialOK, ForgottenIsEnded
<1>2. QED
  BY <1>1, ConsoleInvariance, PTL
=============================================================================
