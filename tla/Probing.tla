------------------------------- MODULE Probing -------------------------------
(***************************************************************************)
(* One execution of a probe by an agent (agent/probe: dispatcher, policy,  *)
(* http, tcp, dns): validation, resolution, dialling, TLS, the exchange    *)
(* and its assertions.  The network is free to answer anything.  The       *)
(* deadline of the probe may pass in any wait.                             *)
(***************************************************************************)
EXTENDS Integers, Sequences, Functions

CONSTANTS
  Probe,          \* the definitions that are executed
  Byte,           \* what a TCP target sends
  MaxRedirects,   \* 3
  MaxRead,        \* 4096: the bytes of a TCP answer that are looked at
  BufferSize,     \* 512: the bytes of one read
  MaxValues,      \* 20: the DNS values that are reported
  MaxBytes,       \* 4096: their length together
  Answers         \* DNS answers: the lengths of their values

ASSUME ProbingAssumption ==
  /\ {MaxRedirects, MaxRead, BufferSize, MaxValues, MaxBytes} \subseteq Nat \ {0}
  /\ Answers \subseteq Seq(Nat)

\* A TCP probe speaks TLS when it asks for the remaining time of the certificate.
ASSUME ProbeAssumption ==
  \A p \in Probe : /\ p.kind \in {"http", "tcp", "dns", "other"}
                   /\ p.expect \in Seq(Byte) /\ p.remaining \in BOOLEAN
                   /\ p.kind = "tcp" => p.tls = p.remaining

VARIABLES
  probe,       \* the definition
  stage,       \* how far the execution has come
  target,      \* the host it is at, and whether it speaks TLS
  addresses,   \* validated addresses left to dial
  dialled,     \* every address dialled
  hops,        \* redirects followed
  peer,        \* the peer certificate of the connection: "none", "expiring" or "lasting"
  observed,    \* what the target sent: its status, or the bytes so far
  holds,       \* whether the assertions on the content hold of it
  result       \* what is reported

probingVars == <<probe, stage, target, addresses, dialled, hops, peer, observed, holds, result>>

(* Addresses by what validateAddress tells apart; "allowed" is a private   *)
(* one inside of AllowedPrivate.                                           *)
Address == {"global", "allowed", "private", "prohibited"}
Codes == {"", "timeout", "dns_error", "connect_error", "tls_error", "protocol_error", "status_mismatch",
          "body_mismatch", "dns_mismatch", "tcp_expect_mismatch", "tls_expiring", "target_denied",
          "response_too_large"}

NoResult == [code |-> "none", status |-> 0, values |-> <<>>]

ProbingInit ==
  /\ probe \in Probe /\ stage = "start" /\ target = [host |-> "name", tls |-> FALSE]
  /\ addresses = <<>> /\ dialled = {} /\ hops = 0 /\ peer = "none"
  /\ observed = <<>> /\ holds = FALSE /\ result = NoResult
-----------------------------------------------------------------------------
Go(next) == stage' = next
Report(code) == Go("done") /\ result' = [result EXCEPT !.code = code]
ReportAny(codes) == \E code \in codes : Report(code)

ValidateAddress(a) == a \in {"global", "allowed"}

\* Mutant: as ValidateTarget, which looks at the first address only.
ValidatesFirst(found) == ValidateAddress(found[1])

\* resolveHost: one address that is denied denies the host.
ValidatesAll(found) == \A i \in DOMAIN found : ValidateAddress(found[i])

\* Dispatch, and what is refused before anything is sent.
Execute ==
  /\ stage = "start"
  /\ CASE probe.kind = "other"                      -> Report("protocol_error") /\ UNCHANGED target
       [] probe.kind = "http" /\ ~ probe.wellFormed -> Report("target_denied") /\ UNCHANGED target
       [] probe.kind # "http" /\ ~ probe.wellFormed -> Report("protocol_error") /\ UNCHANGED target
       [] OTHER -> /\ Go("resolve")
                   /\ target' = [host |-> probe.host, tls |-> probe.tls]
                   /\ UNCHANGED result
  /\ UNCHANGED <<probe, addresses, dialled, hops, peer, observed, holds>>

\* A literal is its own address.  The deadline in a lookup is a DNS error.
Resolve(found) ==
  /\ stage = "resolve"
  /\ target.host # "name" => found = <<target.host>>
  /\ CASE found = <<>>           -> Report("dns_error") /\ UNCHANGED addresses
       [] found # <<>> /\ ~ ValidatesAll(found) -> Report("target_denied") /\ UNCHANGED addresses
       [] OTHER -> Go("dial") /\ addresses' = found /\ UNCHANGED result
  /\ UNCHANGED <<probe, target, dialled, hops, peer, observed, holds>>

Talk == IF target.tls THEN "handshake" ELSE "exchange"

\* dialValidated and DialContext try the addresses in turn; a DNS probe only
\* asks the first.
Dial ==
  /\ stage = "dial"
  /\ dialled' = dialled \cup {Head(addresses)}
  /\ addresses' = IF probe.kind = "dns" THEN <<>> ELSE Tail(addresses)
  /\ \/ Go(Talk) /\ UNCHANGED result
     \/ /\ probe.kind # "dns"
        /\ IF addresses' = <<>> THEN ReportAny({"connect_error", "timeout"})
                                ELSE UNCHANGED <<stage, result>>
  /\ UNCHANGED <<probe, target, hops, peer, observed, holds>>

\* A TCP probe asks for the remaining time of the certificate at once, an
\* HTTP probe when it has the answer.
Handshake(certificate) ==
  /\ stage = "handshake"
  /\ peer' = certificate
  /\ CASE certificate = "none" -> ReportAny({"tls_error", "timeout", "connect_error", "protocol_error"})
       [] certificate = "expiring" /\ probe.kind = "tcp" -> Report("tls_expiring")
       [] OTHER -> Go("exchange") /\ UNCHANGED result
  /\ UNCHANGED <<probe, target, addresses, dialled, hops, observed, holds>>
-----------------------------------------------------------------------------
(* HTTP.                                                                   *)

HTTPFails ==
  /\ stage \in {"exchange", "body"} /\ probe.kind = "http"
  /\ IF stage = "body" THEN Report("protocol_error")
     ELSE ReportAny({"timeout", "connect_error", "protocol_error"})
  /\ UNCHANGED <<probe, target, addresses, dialled, hops, peer, observed, holds>>

\* CheckRedirect: `via` holds the requests made so far.
RedirectRefused(to) ==
  IF hops + 1 > MaxRedirects THEN "protocol_error"
  ELSE IF ~ to.wellFormed \/ (to.host # "name" /\ ~ ValidateAddress(to.host)) THEN "target_denied"
  ELSE ""

Redirect(to) ==
  /\ stage = "exchange" /\ probe.kind = "http" /\ probe.follow
  /\ IF RedirectRefused(to) # ""
     THEN Report(RedirectRefused(to)) /\ UNCHANGED <<target, hops, peer>>
     ELSE /\ Go("resolve") /\ hops' = hops + 1 /\ peer' = "none"
          /\ target' = [host |-> to.host, tls |-> to.tls]
          /\ UNCHANGED result
  /\ UNCHANGED <<probe, addresses, dialled, observed, holds>>

Expires == probe.remaining /\ peer = "expiring"

\* A redirect that is not followed is an answer as any other.
Response(status) ==
  /\ stage = "exchange" /\ probe.kind = "http"
  /\ ~ (probe.follow /\ status = 302)
  /\ observed' = <<status>>
  /\ IF Expires
     THEN Go("done") /\ result' = [result EXCEPT !.status = status, !.code = "tls_expiring"]
     ELSE Go("body") /\ result' = [result EXCEPT !.status = status]
  /\ UNCHANGED <<probe, target, addresses, dialled, hops, peer, holds>>

StatusMatches == observed[1] \in probe.statuses

BodyTooLarge ==
  /\ stage = "body"
  /\ Report("response_too_large")
  /\ UNCHANGED <<probe, target, addresses, dialled, hops, peer, observed, holds>>

Body(matches) ==
  /\ stage = "body"
  /\ holds' = matches
  /\ CASE ~ StatusMatches -> Report("status_mismatch")
       [] StatusMatches /\ ~ matches -> Report("body_mismatch")
       [] OTHER -> Report("")
  /\ UNCHANGED <<probe, target, addresses, dialled, hops, peer, observed>>
-----------------------------------------------------------------------------
(* TCP.                                                                    *)

Contains(bytes, expected) ==
  \E i \in 0 .. Len(bytes) - Len(expected) : SubSeq(bytes, i + 1, i + Len(expected)) = expected

\* With nothing to expect, a connection that takes what is sent is enough.
Send ==
  /\ stage = "exchange" /\ probe.kind = "tcp"
  /\ \/ probe.expect = <<>> /\ Report("")
     \/ probe.expect # <<>> /\ Go("read") /\ UNCHANGED result
     \/ probe.send /\ ReportAny({"timeout", "protocol_error"})
  /\ UNCHANGED <<probe, target, addresses, dialled, hops, peer, observed, holds>>

\* Mutant: what is expected is looked for in the last read only.
FoundInChunk(chunk) == Contains(chunk, probe.expect)

FoundIn(chunk) == Contains(observed \o chunk, probe.expect)

\* readUntilExpected: at most a buffer, at most what is left of the limit.
ReadChunk(chunk) ==
  /\ stage = "read" /\ Len(chunk) \in 1 .. BufferSize /\ Len(observed \o chunk) <= MaxRead
  /\ observed' = observed \o chunk
  /\ CASE FoundIn(chunk) -> Report("")
       [] ~ FoundIn(chunk) /\ Len(observed') = MaxRead -> Report("tcp_expect_mismatch")
       [] OTHER -> UNCHANGED <<stage, result>>
  /\ UNCHANGED <<probe, target, addresses, dialled, hops, peer, holds>>

ReadEnds ==
  /\ stage = "read"
  /\ ReportAny({"tcp_expect_mismatch", "timeout", "protocol_error"})   \* end of file, deadline, reset
  /\ UNCHANGED <<probe, target, addresses, dialled, hops, peer, observed, holds>>
-----------------------------------------------------------------------------
(* DNS.                                                                    *)

Total(lengths) == FoldFunction(+, 0, lengths)

\* Mutant: the limit is checked before the value is added.
BoundLate(lengths, n) == n <= MaxValues /\ Total(SubSeq(lengths, 1, n - 1)) <= MaxBytes

Fits(lengths, n) == n <= MaxValues /\ Total(SubSeq(lengths, 1, n)) <= MaxBytes

\* boundDNSValues: the longest prefix that fits.
BoundDNSValues(lengths) ==
  SubSeq(lengths, 1, CHOOSE n \in 0 .. Len(lengths) : /\ \A k \in 1 .. n : Fits(lengths, k)
                                                      /\ n < Len(lengths) => ~ Fits(lengths, n + 1))

\* A truncated answer over UDP is asked for again over TCP.
Truncated ==
  /\ stage = "exchange" /\ probe.kind = "dns"
  /\ Go("again")
  /\ UNCHANGED <<probe, target, addresses, dialled, hops, peer, observed, holds, result>>

\* No answer, or one that is not a success.
DNSFails ==
  /\ stage \in {"exchange", "again"} /\ probe.kind = "dns"
  /\ ReportAny({"timeout", "dns_error"})
  /\ UNCHANGED <<probe, target, addresses, dialled, hops, peer, observed, holds>>

\* All values are compared; those reported are bounded.
DNSAnswer(lengths, matches) ==
  /\ stage \in {"exchange", "again"} /\ probe.kind = "dns"
  /\ holds' = matches /\ observed' = lengths
  /\ Go("done")
  /\ result' = [result EXCEPT !.values = BoundDNSValues(lengths), !.code = IF matches THEN "" ELSE "dns_mismatch"]
  /\ UNCHANGED <<probe, target, addresses, dialled, hops, peer>>
-----------------------------------------------------------------------------
Resolutions == {<<a>> : a \in Address} \cup {<<a, b>> : a, b \in Address} \cup {<<>>}
Destinations == [wellFormed : BOOLEAN, host : {"name"} \cup Address, tls : BOOLEAN]
Chunks == UNION {[1 .. n -> Byte] : n \in 1 .. BufferSize}

ProbingNext ==
  \/ Execute
  \/ \E found \in Resolutions : Resolve(found)
  \/ Dial
  \/ \E certificate \in {"none", "expiring", "lasting"} : Handshake(certificate)
  \/ HTTPFails \/ BodyTooLarge
  \/ \E to \in Destinations : Redirect(to)
  \/ \E status \in {200, 302, 404, 700} : Response(status)
  \/ \E matches \in BOOLEAN : Body(matches)
  \/ Send
  \/ \E chunk \in Chunks : ReadChunk(chunk)
  \/ ReadEnds \/ Truncated \/ DNSFails
  \/ \E lengths \in Answers, matches \in BOOLEAN : DNSAnswer(lengths, matches)

ProbingSpec == ProbingInit /\ [][ProbingNext]_probingVars
-----------------------------------------------------------------------------
(***************************************************************************)
(* Properties.                                                             *)
(***************************************************************************)
\* No connection is ever opened to an address the policy denies, whatever the
\* names resolve to at each hop and whichever of several addresses answers.
OnlyAllowedDialled == \A a \in dialled : ValidateAddress(a)

Mismatches == {"status_mismatch", "body_mismatch", "dns_mismatch", "tcp_expect_mismatch", "tls_expiring"}

Asserted ==
  CASE probe.kind = "http" -> observed # <<>> /\ StatusMatches /\ holds /\ ~ (probe.remaining /\ peer = "expiring")
    [] probe.kind = "tcp"  -> Contains(observed, probe.expect) /\ (probe.remaining => peer = "lasting")
    [] OTHER               -> holds

\* A probe passes only when every assertion holds of what the last target sent,
\* however it came in pieces and after however many redirects, and a mismatch
\* is reported only when one does not hold.  A minimum for the certificate says
\* nothing of an HTTP answer in plain text: the code does not look at it there.
PassedMeansAsserted ==
  stage = "done" => /\ result.code = "" => dialled # {} /\ Asserted
                    /\ result.code \in Mismatches => ~ Asserted

\* Whatever the network does, the server accepts the report: the contract of
\* ProbeResultInput and validateResult.  Except for a status above 599, which
\* Go's client lets through.
AcceptableResult ==
  stage = "done" =>
    /\ result.code \in Codes
    /\ result.status \in 0 .. 599 \/ observed[1] > 599
    /\ Len(result.values) <= MaxValues /\ Total(result.values) <= MaxBytes
=============================================================================
