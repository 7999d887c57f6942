------------------------------ MODULE Refresh ------------------------------
(***************************************************************************)
(* The script of the UI (applicationJS in ui/internal/web/server.go): the  *)
(* monitor view that the browser took from its history is fetched again,   *)
(* while the user navigates on with htmx.  Awaits are steps; an abort      *)
(* reaches a fetch that is waiting, not one whose answer is already there. *)
(* htmx, the browser and the server are external: an htmx request swaps    *)
(* its answer into the main element and pushes its URL; going back         *)
(* replaces the element by a stored one.                                   *)
(***************************************************************************)
EXTENDS Integers, Sequences

CONSTANTS
  URL,             \* monitor views
  MaxRefreshes,    \* bound on the refreshes
  MaxNavigations   \* bound on the navigations

VARIABLES
  generation,    \* refreshGeneration
  controller,    \* refreshController: the refresh it belongs to, 0 for null
  fetches,       \* the refreshes, in the order of their start
  navigation,    \* the URL of the htmx request in flight, or none
  location,      \* the page in the address bar
  main,          \* the main element in the document: elements are numbered
  content,       \* the page it shows, and whether the server was asked
  pageview       \* how many navigations were begun

refreshVars == <<generation, controller, fetches, navigation, location, main, content, pageview>>

NoURL == "none"

RefreshInit ==
  /\ generation = 0 /\ controller = 0 /\ fetches = <<>> /\ navigation = NoURL
  /\ location \in URL /\ main = 1 /\ content = [url |-> location, fresh |-> TRUE] /\ pageview = 0

\* refreshController?.abort()
Aborted(all) ==
  IF controller = 0 THEN all
  ELSE [all EXCEPT ![controller].aborted = TRUE,
                   ![controller].stage = IF @ \in {"fetch", "text"} THEN "failed" ELSE @]

\* invalidateAuthoritativeRefresh
Invalidate ==
  /\ generation' = generation + 1
  /\ fetches' = Aborted(fetches)
  /\ controller' = 0

\* refreshAuthoritative, up to its first await.
RefreshAuthoritative ==
  LET f == [generation |-> generation + 1, href |-> location, main |-> main, pageview |-> pageview,
            stage |-> "fetch", aborted |-> FALSE]
  IN
  /\ Len(fetches) < MaxRefreshes
  /\ generation' = generation + 1
  /\ fetches' = Append(Aborted(fetches), f)
  /\ controller' = Len(fetches')
  /\ UNCHANGED <<navigation, location, main, content, pageview>>

\* Mutant: the page is looked at, and not what was begun since.
OwnsPage(k) == location = fetches[k].href /\ main = fetches[k].main

OwnsRefresh(k) ==
  /\ generation = fetches[k].generation /\ controller = k /\ ~ fetches[k].aborted
  /\ location = fetches[k].href /\ main = fetches[k].main

\* The finally clause.
Finish(k) ==
  /\ fetches' = [fetches EXCEPT ![k].stage = "done"]
  /\ controller' = IF generation = fetches[k].generation /\ controller = k THEN 0 ELSE controller

\* The response, or its body, has come but the script has not gone on.
Comes(k) ==
  /\ fetches[k].stage \in {"fetch", "text"}
  /\ fetches' = [fetches EXCEPT ![k].stage = IF @ = "fetch" THEN "response" ELSE "body"]
  /\ UNCHANGED <<generation, controller, navigation, location, main, content, pageview>>

Breaks(k) ==
  /\ fetches[k].stage \in {"fetch", "text"}
  /\ fetches' = [fetches EXCEPT ![k].stage = "failed"]
  /\ UNCHANGED <<generation, controller, navigation, location, main, content, pageview>>

\* After the first await: a redirection, an error or a body to wait for.
OnResponse(k) ==
  /\ fetches[k].stage = "response"
  /\ IF OwnsRefresh(k)
     THEN \/ /\ fetches' = [fetches EXCEPT ![k].stage = "text"]
             /\ UNCHANGED <<controller, content>>
          \/ Finish(k) /\ content' = [url |-> location, fresh |-> FALSE]   \* showAuthoritativeRecovery
          \/ Finish(k) /\ UNCHANGED content                              \* HX-Redirect: the document is left
     ELSE Finish(k) /\ UNCHANGED content
  /\ UNCHANGED <<generation, navigation, location, main, pageview>>

\* After the second await.
OnBody(k) ==
  /\ fetches[k].stage = "body"
  /\ content' = IF OwnsRefresh(k) THEN [url |-> fetches[k].href, fresh |-> TRUE] ELSE content
  /\ Finish(k)
  /\ UNCHANGED <<generation, navigation, location, main, pageview>>

\* The catch clause.
OnError(k) ==
  /\ fetches[k].stage = "failed"
  /\ content' = IF OwnsRefresh(k) THEN [url |-> location, fresh |-> FALSE] ELSE content
  /\ Finish(k)
  /\ UNCHANGED <<generation, navigation, location, main, pageview>>
-----------------------------------------------------------------------------
(* htmx and the browser.                                                   *)

\* htmx:beforeRequest
BeforeRequest(url) ==
  /\ pageview < MaxNavigations /\ pageview' = pageview + 1
  /\ Invalidate
  /\ navigation' = url
  /\ UNCHANGED <<location, main, content>>

\* The answer is swapped into the element and its URL pushed, or it fails.
Swap ==
  /\ navigation # NoURL
  /\ navigation' = NoURL
  /\ \/ location' = navigation /\ content' = [url |-> navigation, fresh |-> TRUE]
     \/ UNCHANGED <<location, content>>
  /\ UNCHANGED <<generation, controller, fetches, main, pageview>>

\* popstate: htmx restores the page from its history; the refresh of
\* htmx:historyRestore comes with a later task.
Popstate(url) ==
  /\ pageview < MaxNavigations /\ pageview' = pageview + 1
  /\ Invalidate
  /\ location' = url /\ main' = main + 1 /\ content' = [url |-> url, fresh |-> FALSE]
  /\ UNCHANGED navigation

RefreshNext ==
  \/ RefreshAuthoritative
  \/ \E k \in DOMAIN fetches : Comes(k) \/ Breaks(k) \/ OnResponse(k) \/ OnBody(k) \/ OnError(k)
  \/ \E url \in URL : BeforeRequest(url) \/ Popstate(url)
  \/ Swap

RefreshSpec == RefreshInit /\ [][RefreshNext]_refreshVars
-----------------------------------------------------------------------------
(***************************************************************************)
(* Properties.                                                             *)
(***************************************************************************)
\* The view always shows the page in the address bar, and a refresh writes it
\* only while nothing was begun after it: no answer that was waited for
\* overwrites a later navigation or a later refresh (ownsRefresh after both
\* awaits of refreshAuthoritative).
ShowsWhereItIs ==
  [][/\ content'.url = location'
     /\ \A k \in DOMAIN fetches :
          fetches[k].stage = "body" /\ fetches'[k].stage = "done" /\ content' # content
            => k = Len(fetches) /\ fetches[k].pageview = pageview]_refreshVars
=============================================================================
