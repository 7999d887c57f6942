------------------------------ MODULE Console ------------------------------
(***************************************************************************)
(* The UI server (ui/internal/web/server.go, controlplane.go, cookies.go)  *)
(* between the tabs of one browser, which share a cookie, and the control  *)
(* plane: sign-in, the monitor list with its bounded search, sign-out.     *)
(* The calls of a request are steps of their own, and its response reaches *)
(* the browser later.  The control plane is external: it issues and ends   *)
(* sessions, and lists monitors in one order behind a cursor, while        *)
(* monitors come and go.                                                   *)
(***************************************************************************)
EXTENDS Integers, Sequences, FiniteSetsExt

CONSTANTS
  Tab,            \* tabs of the browser
  Walker,         \* the tab that searches
  Listable,       \* the places of monitors in the order of the list
  Matching,       \* those that the search matches
  PageSize,       \* monitorPageSize: 25
  MaxPages,       \* maxSearchPageWalk: 4
  MaxIssued       \* bound on the sessions

ASSUME ConsoleAssumption ==
  /\ Walker \in Tab /\ Matching \subseteq Listable /\ Listable \subseteq Nat \ {0} /\ IsFiniteSet(Listable)
  /\ {PageSize, MaxPages} \subseteq Nat \ {0} /\ MaxIssued \in Nat

VARIABLES
  issued,     \* the number of sessions the control plane has issued
  live,       \* those it accepts
  cookie,     \* the credential in the browser's cookie, 0 for none
  listed,     \* the monitors there are
  browsing,   \* the request of each tab
  walk        \* what the walker has been shown of its search

consoleVars == <<issued, live, cookie, listed, browsing, walk>>

NoRequest == [op |-> "none", stage |-> "idle", credential |-> 0, query |-> FALSE, cursor |-> 0,
              seen |-> {}, items |-> <<>>, shows |-> "nothing", session |-> "keep",
              unread |-> FALSE]   \* the session was given up because its lookup failed
NoWalk == [shown |-> <<>>, next |-> 0, stable |-> {}, state |-> "none"]

ConsoleInit ==
  /\ issued = 0 /\ live = {} /\ cookie = 0 /\ listed = Listable
  /\ browsing = [t \in Tab |-> NoRequest] /\ walk = NoWalk
-----------------------------------------------------------------------------
In(t, op, stage) == browsing[t].op = op /\ browsing[t].stage = stage

Visit(t, request) ==
  /\ browsing[t].stage = "idle"
  /\ browsing' = [browsing EXCEPT ![t] = request]

\* A response: what it shows ("monitors", or a redirection, a form or a
\* problem) and what it does to the session cookie.
Outcome(shows, session, credential) ==
  [NoRequest EXCEPT !.stage = "answered", !.shows = shows, !.session = session, !.credential = credential]

Respond(t, shows, session) ==
  browsing' = [browsing EXCEPT ![t] = Outcome(shows, session, IF session = "keep" THEN 0 ELSE @.credential)]

\* BearerAuth answers 401 for a session that has ended and, alike, for one that
\* it could not look up; the UI gives the session up on either.
Unauthorized(t, shows) ==
  \E unread \in BOOLEAN :
    /\ unread \/ browsing[t].credential \notin live
    /\ browsing' = [browsing EXCEPT ![t] =
         [Outcome(shows, "clear", @.credential) EXCEPT !.unread = unread]]

\* Problem documents other than 401 leave the cookie.
Problem(t) == Respond(t, "problem", "keep")
Refused == Outcome("problem", "keep", 0)
-----------------------------------------------------------------------------
(* Sign-in.                                                                *)

GetLogin(t) ==
  /\ Visit(t, Outcome(IF cookie # 0 THEN "redirection" ELSE "form", "keep", 0))
  /\ UNCHANGED <<issued, live, cookie, listed, walk>>

\* A form that cannot be read or was not issued by this server goes no further.
PostLogin(t) ==
  /\ \/ Visit(t, [NoRequest EXCEPT !.op = "login", !.stage = "exchange"])
     \/ Visit(t, Refused)
  /\ UNCHANGED <<issued, live, cookie, listed, walk>>

\* The answer of an accepted exchange may come after the deadline.
Exchange(t) ==
  /\ In(t, "login", "exchange")
  /\ \/ /\ issued < MaxIssued /\ issued' = issued + 1 /\ live' = live \cup {issued'}
        /\ \/ browsing' = [browsing EXCEPT ![t] = Outcome("redirection", "set", issued')]
           \/ Problem(t)
     \/ (Respond(t, "form", "keep") \/ Problem(t)) /\ UNCHANGED <<issued, live>>
  /\ UNCHANGED <<cookie, listed, walk>>
-----------------------------------------------------------------------------
(* The monitor list.                                                       *)

Load(t, query, cursor) ==
  IF cookie = 0
  THEN Visit(t, Outcome("redirection", "keep", 0))
  ELSE Visit(t, [NoRequest EXCEPT !.op = "monitors", !.stage = "list", !.credential = cookie,
                                  !.query = query, !.cursor = cursor])

LoadMonitors(t) == Load(t, FALSE, 0) /\ UNCHANGED <<issued, live, cookie, listed, walk>>

\* The walker starts a search, follows "Next page" or retries.
Search(t) ==
  /\ t = Walker /\ cookie # 0
  /\ \/ Load(t, TRUE, 0) /\ walk' = [NoWalk EXCEPT !.state = "open", !.stable = listed]
     \/ walk.state = "open" /\ Load(t, TRUE, walk.next) /\ UNCHANGED walk
  /\ UNCHANGED <<issued, live, cookie, listed>>

\* What the control plane lists behind a cursor, and the next cursor.
Behind(cursor) == {m \in listed : m > cursor}
Page(cursor) == {m \in Behind(cursor) : Cardinality({n \in Behind(cursor) : n < m}) < PageSize}
NextCursor(cursor) == IF Page(cursor) = Behind(cursor) THEN 0 ELSE Max(Page(cursor))

\* The elements of a set, each once, in their order.
Ascending(s) == \A i, j \in DOMAIN s : i < j => s[i] < s[j]
Elements(s) == {s[i] : i \in DOMAIN s}
InOrder(set) == CHOOSE s \in [1 .. Cardinality(set) -> set] : Ascending(s) /\ Elements(s) = set

Pages(t) == Cardinality(browsing[t].seen) + 1

\* Mutant: the cursor of the page before is handed on.
WindowEndsBefore(t) ==
  IF NextCursor(browsing[t].cursor) = 0 THEN 0 ELSE browsing[t].cursor

WindowEnds(t) == NextCursor(browsing[t].cursor)

\* One page of listMonitorMatches.  The window ends with the list or after
\* MaxPages; without a query it is one page.
ListPage(t) ==
  LET r     == browsing[t]
      items == r.items \o InOrder(IF r.query THEN Page(r.cursor) \cap Matching ELSE Page(r.cursor))
  IN
  /\ In(t, "monitors", "list") /\ r.credential \in live
  /\ browsing' = [browsing EXCEPT ![t] =
       IF ~ r.query \/ NextCursor(r.cursor) = 0 \/ Pages(t) = MaxPages
       THEN [r EXCEPT !.stage = "health", !.items = items, !.cursor = WindowEnds(t)]
       ELSE [r EXCEPT !.items = items, !.cursor = NextCursor(r.cursor), !.seen = @ \cup {r.cursor}]]
  /\ UNCHANGED <<issued, live, cookie, listed, walk>>

\* An error discards the pages before it; so does a cursor seen in this walk.
ListFails(t) ==
  /\ In(t, "monitors", "list")
  /\ Problem(t) \/ Unauthorized(t, "redirection")
  /\ UNCHANGED <<issued, live, cookie, listed, walk>>

\* enrichMonitorHealth: one refused call ends the session, any other failure
\* shows unknown.
Enrich(t) ==
  /\ In(t, "monitors", "health")
  /\ \/ browsing' = [browsing EXCEPT ![t].stage = "answered", ![t].shows = "monitors",
                                     ![t].credential = 0, ![t].seen = {}]
     \/ browsing[t].items # <<>> /\ Unauthorized(t, "redirection")
  /\ UNCHANGED <<issued, live, cookie, listed, walk>>
-----------------------------------------------------------------------------
(* Sign-out.                                                               *)

PostLogout(t) ==
  /\ IF cookie = 0
     THEN Visit(t, Refused)
     ELSE \/ Visit(t, [NoRequest EXCEPT !.op = "logout", !.stage = "revoke", !.credential = cookie])
          \/ Visit(t, Refused)
  /\ UNCHANGED <<issued, live, cookie, listed, walk>>

\* Mutant: sign-out forgets the session whatever the control plane said.
ForgetSession(t) == Respond(t, "problem", "clear")

KeepSession(t) == Problem(t)

\* A revocation that did not answer in time may have happened or not.
RevokeSession(t) ==
  /\ In(t, "logout", "revoke")
  /\ \/ browsing[t].credential \in live /\ live' = live \ {browsing[t].credential}
        /\ (Respond(t, "redirection", "clear") \/ KeepSession(t))
     \/ UNCHANGED live /\ (Unauthorized(t, "problem") \/ KeepSession(t))
  /\ UNCHANGED <<issued, cookie, listed, walk>>
-----------------------------------------------------------------------------
(* The browser and the control plane.                                      *)

Arrive(t) ==
  LET r == browsing[t] IN
  /\ r.stage = "answered"
  /\ cookie' = CASE r.session = "set" -> r.credential [] r.session = "clear" -> 0 [] OTHER -> cookie
  /\ walk' = IF r.query /\ r.shows = "monitors"
             THEN [walk EXCEPT !.shown = @ \o r.items, !.next = r.cursor,
                               !.state = IF r.cursor = 0 THEN "ended" ELSE "open"]
             ELSE walk
  /\ browsing' = [browsing EXCEPT ![t] = NoRequest]
  /\ UNCHANGED <<issued, live, listed>>

Expire(c) ==
  /\ c \in live /\ live' = live \ {c}
  /\ UNCHANGED <<issued, cookie, listed, browsing, walk>>

ListedChanges(m) ==
  /\ listed' = IF m \in listed THEN listed \ {m} ELSE listed \cup {m}
  /\ walk' = [walk EXCEPT !.stable = @ \ {m}]
  /\ UNCHANGED <<issued, live, cookie, browsing>>

ConsoleNext ==
  \/ \E t \in Tab : \/ GetLogin(t) \/ PostLogin(t) \/ Exchange(t)
                    \/ LoadMonitors(t) \/ Search(t) \/ ListPage(t) \/ ListFails(t) \/ Enrich(t)
                    \/ PostLogout(t) \/ RevokeSession(t) \/ Arrive(t)
  \/ \E c \in live : Expire(c)
  \/ \E m \in Listable : ListedChanges(m)

ConsoleSpec == ConsoleInit /\ [][ConsoleNext]_consoleVars
-----------------------------------------------------------------------------
(***************************************************************************)
(* Properties.                                                             *)
(***************************************************************************)
\* A search that is followed to its end shows every match that was there all
\* the time, once and in order, however it is cut into windows, retried and
\* interleaved with monitors that come and go ("continue the search from
\* exactly where this window stopped", listMonitorMatches).
EveryMatchShown ==
  /\ \A i, j \in DOMAIN walk.shown : i < j => walk.shown[i] < walk.shown[j]
  /\ walk.state = "ended" => walk.stable \cap Matching \subseteq {walk.shown[i] : i \in DOMAIN walk.shown}

\* The browser is told to forget a session only when the control plane has
\* ended it or could not look it up: a sign-out that failed otherwise, or whose
\* outcome is unknown, keeps the cookie, and so does a list that could not be
\* loaded for another reason.
ForgottenIsEnded ==
  \A t \in Tab : browsing[t].session = "clear" =>
    browsing[t].credential \notin live \/ browsing[t].unread

=============================================================================
