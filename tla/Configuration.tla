---------------------------- MODULE Configuration ----------------------------
(***************************************************************************)
(* Creating and reading locations and monitors: the contract of            *)
(* api/openapi.yaml, the handlers of httpapi/configuration.go, the         *)
(* services of application/configuration.go and the constructors of        *)
(* domain/monitor.go.  The constructor normalises and checks a monitor     *)
(* when it is created and again on every read, since the stores build it   *)
(* from its row (monitorFromProbe).  The scheduler reads all due monitors  *)
(* in one list.                                                            *)
(*                                                                         *)
(* A Text is a sequence of "x", "." and " ": what normalisation tells      *)
(* apart.                                                                  *)
(***************************************************************************)
EXTENDS Integers, Sequences

CONSTANTS
  Request,       \* bodies of POST /v1/monitors
  LocationName,  \* names in bodies of POST /v1/locations
  MaxMonitors    \* bound on the monitors created

Text == Seq({"x", ".", " "})

ASSUME RequestAssumption ==
  Request \subseteq [kind : {"http", "tcp", "dns"}, name : Text, target : Text, interval : Nat, timeout : Nat,
                    failures : Nat, recoveries : Nat, secret : BOOLEAN]

VARIABLES
  locations,     \* the names in locations
  monitors,      \* rows of monitors, in the order of their creation, and what was asked for
  answer         \* the last answer: a code and the monitor it shows

configurationVars == <<locations, monitors, answer>>

Nobody == [code |-> 0, shows |-> <<>>]
Told(code) == answer' = [code |-> code, shows |-> <<>>]
Shown(code, monitor) == answer' = [code |-> code, shows |-> monitor]

ConfigurationInit == locations = {} /\ monitors = <<>> /\ answer = Nobody
-----------------------------------------------------------------------------
(* strings.TrimSpace and strings.TrimSuffix(_, ".").                       *)

Trim(text) ==
  LET solid == {i \in DOMAIN text : text[i] # " "} IN
  IF solid = {} THEN <<>>
  ELSE SubSeq(text, CHOOSE i \in solid : \A j \in solid : i <= j,
                    CHOOSE i \in solid : \A j \in solid : i >= j)

TrimDot(text) ==
  IF text # <<>> /\ text[Len(text)] = "." THEN SubSeq(text, 1, Len(text) - 1) ELSE text

\* Mutant: the dot is looked for before the blanks are gone.
NormalizeDotFirst(text) == Trim(TrimDot(text))

\* normalizeDNSName
NormalizeDNSName(text) == TrimDot(Trim(text))

\* What New{HTTP,TCP,DNS}Monitor makes of its parameters: the name is trimmed,
\* a host or a DNS name is normalised, a URL is kept as it is.
Normalized(m) ==
  [m EXCEPT !.name = Trim(@), !.target = IF m.kind = "http" THEN @ ELSE NormalizeDNSName(@)]

\* validMonitorFields and the checks of the three constructors.
ValidMonitor(m) ==
  /\ Trim(m.name) # <<>>
  /\ m.kind # "http" => NormalizeDNSName(m.target) # <<>>
  /\ 0 < m.timeout /\ m.timeout < m.interval * 1000
  /\ m.failures > 0 /\ m.recoveries > 0

\* The limits of CreateMonitorRequest in openapi.yaml.
InContract(m) ==
  /\ Len(m.name) \in 1 .. 200 /\ Len(m.target) \in 1 .. 253
  /\ m.interval \in 5 .. 86400 /\ m.timeout \in 100 .. 120000
  /\ m.failures \in 1 .. 100 /\ m.recoveries \in 1 .. 100

\* probeFromAPI refuses headers that carry credentials.
ProbeFromAPI(m) == ~ m.secret
-----------------------------------------------------------------------------
(* Creation.                                                               *)

CreateLocation(name) ==
  /\ CASE Trim(name) = <<>>         -> Told(400) /\ UNCHANGED locations
       [] Trim(name) \in locations  -> Told(409) /\ UNCHANGED locations
       [] OTHER -> Shown(201, Trim(name)) /\ locations' = locations \cup {Trim(name)}
  /\ UNCHANGED monitors

\* A location is never deleted, so the look-up before the transaction holds in it.
CreateMonitor(request) ==
  LET monitor == Normalized(request) IN
  /\ Len(monitors) < MaxMonitors
  /\ CASE ~ InContract(request) \/ ~ ProbeFromAPI(request) -> Told(400) /\ UNCHANGED monitors
       [] locations = {}               -> Told(404) /\ UNCHANGED monitors
       [] ~ ValidMonitor(request)      -> Told(400) /\ UNCHANGED monitors
       [] \E i \in DOMAIN monitors : monitors[i].row.name = monitor.name -> Told(409) /\ UNCHANGED monitors
       [] OTHER -> /\ Shown(201, monitor)
                   /\ monitors' = Append(monitors, [row |-> monitor, due |-> TRUE, asked |-> request.target])
  /\ UNCHANGED locations
-----------------------------------------------------------------------------
(* Reading.                                                                *)

\* mapMonitor: the row passes through the constructor again.
Readable(row) == ValidMonitor(row)
Read(row) == Normalized(row)

GetMonitor(i) ==
  /\ IF Readable(monitors[i].row) THEN Shown(200, Read(monitors[i].row)) ELSE Told(500)
  /\ UNCHANGED <<locations, monitors>>

Due == {i \in DOMAIN monitors : monitors[i].due}

\* EnqueueDue: one row that cannot be read fails the list, and with it the tick.
EnqueueDue ==
  /\ Due # {} /\ \A i \in Due : Readable(monitors[i].row)
  /\ monitors' = [i \in DOMAIN monitors |-> [monitors[i] EXCEPT !.due = FALSE]]
  /\ UNCHANGED <<locations, answer>>

\* The interval of a monitor passes.
IntervalPasses(i) ==
  /\ ~ monitors[i].due
  /\ monitors' = [monitors EXCEPT ![i].due = TRUE]
  /\ UNCHANGED <<locations, answer>>

ConfigurationNext ==
  \/ \E name \in LocationName : CreateLocation(name)
  \/ \E request \in Request : CreateMonitor(request)
  \/ \E i \in DOMAIN monitors : GetMonitor(i) \/ IntervalPasses(i)
  \/ EnqueueDue

\* The loop of the scheduler ticks every second.
ConfigurationSpec ==
  ConfigurationInit /\ [][ConfigurationNext]_configurationVars /\ WF_configurationVars(EnqueueDue)
-----------------------------------------------------------------------------
(***************************************************************************)
(* Properties.                                                             *)
(***************************************************************************)
\* Does one normalisation leave another something to remove?  Of a host that
\* ends in two dots, or in a dot after a blank, it does.
Settles(asked) ==
  LET text == Trim(asked) IN
  ~ (Len(text) > 1 /\ text[Len(text)] = "." /\ text[Len(text) - 1] \in {".", " "})

\* What POST answered is what every later read gives, for every host with at
\* most one trailing dot (monitorFromProbe runs the constructor again), and no
\* such row can fail a list.
CreatedIsRead ==
  \A i \in DOMAIN monitors :
    LET row == monitors[i].row IN
    row.kind = "http" \/ Settles(monitors[i].asked) => Readable(row) /\ Read(row) = row

\* "The scheduler creates one CheckRun for each enabled Monitor, assigned
\* Location, and scheduled time": a monitor that was created is scheduled.
EveryMonitorScheduled ==
  \A i \in 1 .. MaxMonitors : (i \in Due) ~> (i \notin Due)
=============================================================================
