----------------------------- MODULE ProductApi -----------------------------
(***************************************************************************)
(* Who answers a request to a product (src/product-api.ts), to a remote of *)
(* the app (src/remote-proxy.ts), or for an issue property                 *)
(* (src/property-store.ts): the app's own handler, its mocked routes, a    *)
(* connected site, the user somebody acts as (src/dev-server.ts), or       *)
(* nobody.  A request that is on its way takes its turns between all the   *)
(* calls that change the answer.                                           *)
(*                                                                         *)
(* The method of a request is part of its path; GraphQL mocks and bodies   *)
(* are left out.  Bounds: Asks are all the requests, MaxSwitches the calls *)
(* that mock, connect, disconnect, reset or act as somebody.               *)
(***************************************************************************)
EXTENDS SequencesExt, Naturals

CONSTANTS Products,      \* the products with a real site
          Remotes,       \* remotes: their key is a product's to the mocks
          Paths,         \* "property" among them
          SelfPaths,     \* those that ask who the current user is
          WithoutQuery,  \* path -> the path ahead of its query string
          Patterns,      \* the keys a route is mocked under
          Covers,        \* pattern -> the paths it is a prefix of
          Replies,       \* what a mocked route answers: "not found" is a 404
          Accounts,      \* each with a site
          Seeded, People, \* users: those of the simulator, those a site finds
          Asks, MaxSwitches

\* A mocked route answers something of its own, and a remote has a key of its own.  What is a
\* prefix of a path without its query is one of the path.
ASSUME ProductAssumption ==
  /\ Covers \in [Patterns -> SUBSET Paths]
  /\ SelfPaths \subseteq Paths \ {"property", "nobody"}
  /\ WithoutQuery \in [Paths -> Paths]
  /\ \A path \in Paths, t \in Patterns :
       WithoutQuery[path] \in Covers[t] => path \in Covers[t]
  /\ Products \cap Remotes = {}
  /\ Replies \cap {"own", "no route", "to site", "nobody"} = {}

ApiKeys == Products \cup Remotes
Nobody == "nobody"

\* Answers of the simulator that say it has none: status 501.
Unanswered == {"unmocked", "unknown product", "disconnected"}

VARIABLES handler,    \* product -> who answers: "own", "routes", "real", "unmocked", "none"
          table,      \* product -> mocked routes in the order they are matched: [pattern, reply]
          account,    \* the account of the connected site, or Nobody
          acting,     \* the user that is acted as, or Nobody
          seeding,    \* the dev server has started
          property,   \* the issue property: a reply, or Nobody
          asks,       \* request -> [at, product, path, answer, mock]
          calls,      \* history: product -> the routes as they were mocked
          switches    \* how many calls of the bound were made

paVars == <<handler, table, account, acting, seeding, property, asks, calls, switches>>

NoAsk == [at |-> "new", product |-> Nobody, path |-> Nobody, answer |-> Nobody,
          mock |-> Nobody]

-----------------------------------------------------------------------------
Switch == switches < MaxSwitches /\ switches' = switches + 1

(* Mocked routes *)

Matching(routes, path) == {i \in DOMAIN routes : path \in Covers[routes[i].pattern]}

\* The first route that matches answers; none is a 404.
RouteAnswer(p, path) ==
  LET hits == Matching(table[p], path) IN
  IF hits = {} THEN "no route" ELSE table[p][CHOOSE i \in hits : \A k \in hits : i <= k].reply

\* Mutant: a route that is mocked again is matched last.
MergeLast(routes, route) ==
  Append(SelectSeq(routes, LAMBDA r : r.pattern # route.pattern), route)

\* A route that is mocked again keeps its place.
Merge(routes, route) ==
  IF \E i \in DOMAIN routes : routes[i].pattern = route.pattern
  THEN [i \in DOMAIN routes |-> IF routes[i].pattern = route.pattern THEN route ELSE routes[i]]
  ELSE Append(routes, route)

\* A product that is connected keeps its handler: that asks the routes first.
MockRoute(p, pattern, reply) ==
  LET route == [pattern |-> pattern, reply |-> reply] IN
  /\ Switch
  /\ table' = [table EXCEPT ![p] = Merge(@, route)]
  /\ calls' = [calls EXCEPT ![p] = Append(@, route)]
  /\ handler' = IF account = Nobody THEN [handler EXCEPT ![p] = "routes"] ELSE handler
  /\ UNCHANGED <<account, acting, seeding, property, asks>>

-----------------------------------------------------------------------------
(* Handlers and accounts *)

MockHandler(p) ==
  /\ Switch
  /\ handler' = [handler EXCEPT ![p] = "own"]
  /\ UNCHANGED <<table, account, acting, seeding, property, asks, calls>>

ConnectRealApis(a) ==
  /\ Switch
  /\ account' = a
  /\ handler' = [p \in ApiKeys |-> IF p \in Products THEN "real" ELSE handler[p]]
  /\ UNCHANGED <<table, acting, seeding, property, asks, calls>>

\* A product with mocked routes keeps the handler it has.
AfterDisconnect(p) == IF table[p] = <<>> THEN "unmocked" ELSE handler[p]

DisconnectRealApis ==
  /\ Switch
  /\ account' = Nobody
  /\ handler' = [p \in ApiKeys |-> IF p \in Products THEN AfterDisconnect(p) ELSE handler[p]]
  /\ UNCHANGED <<table, acting, seeding, property, asks, calls>>

Unmocked == [p \in ApiKeys |-> IF p \in Products THEN "unmocked" ELSE "none"]

\* The reset of the simulator; requests that are on their way stay so.
ClearApis ==
  /\ Switch
  /\ handler' = Unmocked
  /\ table' = [p \in ApiKeys |-> <<>>] /\ calls' = [p \in ApiKeys |-> <<>>]
  /\ account' = Nobody /\ acting' = Nobody /\ property' = Nobody
  /\ UNCHANGED <<seeding, asks>>

-----------------------------------------------------------------------------
(* Acting as somebody *)

DefaultUser == CHOOSE u \in Seeded : TRUE

\* The start of the dev server: a session that is not connected acts as the seeded lead.
SeedActingUser ==
  /\ ~seeding
  /\ seeding' = TRUE
  /\ acting' = IF account = Nobody /\ acting = Nobody THEN DefaultUser ELSE acting
  /\ UNCHANGED <<handler, table, account, property, asks, calls, switches>>

\* A seeded user without a site, anybody the site found with one; clearing goes back to
\* the default of the mode.
SetActingUser(u) ==
  /\ seeding /\ Switch
  /\ u # Nobody => (account = Nobody <=> u \in Seeded)
  /\ acting' = IF u = Nobody /\ account = Nobody THEN DefaultUser ELSE u
  /\ UNCHANGED <<handler, table, account, seeding, property, asks, calls>>

-----------------------------------------------------------------------------
(* A request *)

\* What the app was told to expect: the routes of all the calls as if they were one, the
\* first pattern first and its newest reply.  This is how mockRoutes() is documented.
Documented(p, path) ==
  LET hits == Matching(calls[p], path)
      first == calls[p][CHOOSE i \in hits : \A k \in hits : i <= k].pattern
      newest == CHOOSE i \in DOMAIN calls[p] :
                  /\ calls[p][i].pattern = first
                  /\ \A k \in DOMAIN calls[p] : calls[p][k].pattern = first => k <= i
  IN IF hits = {} THEN Nobody ELSE calls[p][newest].reply

Goes(r, p, path, at, answer) ==
  asks' = [asks EXCEPT ![r] = [at |-> at, product |-> p, path |-> path, answer |-> answer,
                               mock |-> IF handler[p] = "own" THEN "own" ELSE Documented(p, path)]]

\* The property store comes first, connected or not.
AskProperty(r, p) ==
  /\ Goes(r, p, "property", "done", IF property = Nobody THEN "not found" ELSE property)
  /\ UNCHANGED property

PutProperty(r, p, value) ==
  /\ Goes(r, p, "property", "done", "stored")
  /\ property' = value

\* A connected product asks the mocked routes before its site; a 404 of theirs is none.
RoutesFirst(p, path) ==
  IF table[p] # <<>> /\ RouteAnswer(p, path) \notin {"no route", "not found"}
  THEN RouteAnswer(p, path) ELSE "to site"

AskHandler(r, p, path) ==
  /\ CASE handler[p] = "none" -> Goes(r, p, path, "answered", "unknown product")
       [] handler[p] = "unmocked" -> Goes(r, p, path, "answered", "unmocked")
       [] handler[p] = "own" -> Goes(r, p, path, "answered", "own")
       [] handler[p] = "routes" -> Goes(r, p, path, "answered", RouteAnswer(p, path))
       [] OTHER -> LET a == RoutesFirst(p, path) IN
                   Goes(r, p, path, IF a = "to site" THEN "to site" ELSE "answered", a)
  /\ UNCHANGED property

AskApi(r, p, path) ==
  /\ asks[r].at = "new"
  /\ IF path = "property" /\ p \in Products
     THEN AskProperty(r, p) \/ \E v \in Replies : PutProperty(r, p, v)
     ELSE AskHandler(r, p, path)
  /\ UNCHANGED <<handler, table, account, acting, seeding, calls, switches>>

Step(r, at, answer) ==
  /\ asks' = [asks EXCEPT ![r].at = at, ![r].answer = answer]
  /\ UNCHANGED <<handler, table, account, acting, seeding, property, calls, switches>>

\* The account is looked at after the routes were awaited.
CallSite(r) ==
  /\ asks[r].at = "to site"
  /\ IF account = Nobody THEN Step(r, "answered", "disconnected") ELSE Step(r, "at site", account)

\* An account answers for its site; 502 is one that cannot be reached.
SiteAnswers(r) ==
  /\ asks[r].at = "at site"
  /\ \E a \in {asks[r].answer, "unreachable"} : Step(r, "answered", a)

\* Whether the app mocked a route: the path is compared without its query here.
HasMockRoute(p, path) == Matching(table[p], WithoutQuery[path]) # {}

\* Mutant: a connected site is believed.
SiteIsBelieved(p, path) ==
  /\ acting # Nobody /\ path \in SelfPaths /\ p \in Products /\ ~HasMockRoute(p, path)
  /\ account = Nobody

Overridden(p, path) ==
  acting # Nobody /\ path \in SelfPaths /\ p \in Products /\ ~HasMockRoute(p, path)

\* Whoever is acted as answers for the current user, unless the app is seen to have mocked
\* that route; a remote that nothing answered for is called.
ReturnAnswer(r) ==
  LET a == asks[r] IN
  /\ a.at = "answered"
  /\ CASE Overridden(a.product, a.path) -> Step(r, "done", acting)
       [] a.product \in Remotes /\ a.answer \in Unanswered -> Step(r, "at remote", a.answer)
       [] OTHER -> Step(r, "done", a.answer)

RemoteAnswers(r) ==
  /\ asks[r].at = "at remote"
  /\ \E a \in {"remote", "unreachable"} : Step(r, "done", a)

ProductInit ==
  /\ handler = Unmocked
  /\ table = [p \in ApiKeys |-> <<>>] /\ calls = [p \in ApiKeys |-> <<>>]
  /\ account = Nobody /\ acting = Nobody /\ seeding = FALSE /\ property = Nobody
  /\ asks = [r \in Asks |-> NoAsk]
  /\ switches = 0

ProductNext ==
  \/ \E p \in ApiKeys, t \in Patterns, v \in Replies : MockRoute(p, t, v)
  \/ \E p \in ApiKeys : MockHandler(p)
  \/ \E a \in Accounts : ConnectRealApis(a)
  \/ DisconnectRealApis \/ ClearApis \/ SeedActingUser
  \/ \E u \in Seeded \cup People \cup {Nobody} : SetActingUser(u)
  \/ \E r \in Asks : \/ \E p \in ApiKeys, path \in Paths : AskApi(r, p, path)
                     \/ CallSite(r) \/ SiteAnswers(r) \/ ReturnAnswer(r) \/ RemoteAnswers(r)

ProductSpec == ProductInit /\ [][ProductNext]_paVars

-----------------------------------------------------------------------------
(* Properties *)

\* A request is about to be answered.
Settles(r) == asks[r].at # "done" /\ asks[r].path # "property" /\ asks'[r].at = "done"

\* A route was mocked for it when it left, and no reset came in between.
IsMocked(r) ==
  LET a == asks[r] IN
  a.mock \in Replies \ {"not found"} /\ Matching(calls[a.product], a.path) # {}

\* Its mocked routes are seen only with its query, by those who look without: somebody is
\* acted as, and the current user is asked for.
IsMistaken(r) ==
  LET a == asks[r] IN
  /\ acting # Nobody /\ a.path \in SelfPaths
  /\ Matching(calls[a.product], WithoutQuery[a.path]) = {}

\* A request the app mocked a route for is answered by that route, and by the one that all
\* the calls taken as one would match first: whatever was connected, disconnected, replaced
\* or mocked before, in whatever order, and whoever is acted as - unless that route was
\* mocked with the query of a request for the current user, which hasMockRoute() cuts off.
MockedRoutesAnswer ==
  [][\A r \in Asks : Settles(r) /\ IsMocked(r) /\ asks[r].product \in Products /\ ~IsMistaken(r)
       => asks'[r].answer = asks[r].mock]_paVars

\* The same of the mocked routes of a remote: "Try mock routes first".
RemoteMocksAnswer ==
  [][\A r \in Asks : Settles(r) /\ IsMocked(r) /\ asks[r].product \in Remotes
       => asks'[r].answer = asks[r].mock]_paVars

\* While somebody is acted as, no request for the current user, whatever its query, is told
\* of the owner of the token its site was asked with, unless a route for it was mocked.
ActingUserIsMyself ==
  [][\A r \in Asks :
       LET a == asks[r] IN
       /\ Settles(r) /\ a.path \in SelfPaths /\ a.product \in Products
       /\ acting # Nobody /\ Matching(calls[a.product], a.path) = {}
       => asks'[r].answer = acting]_paVars

\* Both: who answers a product request is decided by what the app said, never by the order
\* in which it connected, mocked and signed in.
TheRightOneAnswers == MockedRoutesAnswer /\ ActingUserIsMyself
=============================================================================
