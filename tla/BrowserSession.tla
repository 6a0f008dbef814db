--------------------------- MODULE BrowserSession ---------------------------
(***************************************************************************)
(* A browser that agents share: the session that its tabs keep in          *)
(* localStorage, the copy each tab signed in with (apps/web/src/App.tsx,   *)
(* api.ts), the API's verdict on the token of a request (apps/api/src/auth)*)
(* and the browser's push subscription with its row in the API             *)
(* (usePushSubscription.ts, apps/api/src/push).                            *)
(***************************************************************************)
EXTENDS Naturals, FiniteSets

CONSTANTS
  Users,
  NoUser,
  Tabs,
  MaxTokens,     \* bound on the sign-ins
  MaxEndpoints,  \* bound on the push subscriptions the browser makes
  MaxCallsOut    \* bound on the requests in flight

ASSUME BrowserAssumption ==
  /\ NoUser \notin Users
  /\ {MaxTokens, MaxEndpoints, MaxCallsOut} \subseteq Nat

VARIABLES
  bearer,      \* bearer[n]: who the nth token was issued to
  outdated,    \* tokens that expired
  storage,     \* the token in localStorage, 0 for none
  tab,         \* the session each tab shows, 0 for the sign-in screen
  callsOut,    \* requests in flight
  endpoint,    \* the browser's push subscription, 0 for none
  endpoints,   \* push subscriptions made so far
  owner,       \* push_subscriptions: the user of each endpoint
  subscriber   \* whom the API subscribed last at each endpoint

browserVars == <<bearer, outdated, storage, tab, callsOut, endpoint, endpoints, owner, subscriber>>

Issued == Cardinality(DOMAIN bearer)
Endpoints == 1 .. MaxEndpoints

Call == [tab : Tabs, op : {"login", "data", "subscribe", "unsubscribe", "unsubscribed"},
         user : Users \cup {NoUser}, token : 0 .. MaxTokens, endpoint : 0 .. MaxEndpoints]

\* Tokens carry their own end; an outdated session is removed as it is read.
readStoredSession == IF storage \in outdated THEN 0 ELSE storage

-----------------------------------------------------------------------------
(* Signing in and out. *)

\* What the page had in flight is aborted.
PageLoads(t) ==
  /\ storage' = readStoredSession
  /\ tab' = [tab EXCEPT ![t] = readStoredSession]
  /\ callsOut' = {r \in callsOut : r.tab # t}
  /\ UNCHANGED <<bearer, outdated, endpoint, endpoints, owner, subscriber>>

\* A request of the sign-in screen carries no token.
Login(t, u) ==
  /\ tab[t] = 0
  /\ Cardinality(callsOut) < MaxCallsOut
  /\ callsOut' = callsOut \cup
       {[tab |-> t, op |-> "login", user |-> u, token |-> 0, endpoint |-> 0]}
  /\ UNCHANGED <<bearer, outdated, storage, tab, endpoint, endpoints, owner, subscriber>>

LoginAnswer(r) ==
  /\ r.op = "login"
  /\ Issued < MaxTokens
  /\ LET n == Issued + 1 IN
     /\ bearer' = [k \in 1 .. n |-> IF k = n THEN r.user ELSE bearer[k]]
     /\ storage' = n
     /\ tab' = [tab EXCEPT ![r.tab] = n]
  /\ callsOut' = callsOut \ {r}
  /\ UNCHANGED <<outdated, endpoint, endpoints, owner, subscriber>>

SignOut(t) ==
  /\ tab[t] # 0
  /\ storage' = 0
  /\ tab' = [tab EXCEPT ![t] = 0]
  /\ UNCHANGED <<bearer, outdated, callsOut, endpoint, endpoints, owner, subscriber>>

Expire(n) ==
  /\ n \notin outdated
  /\ outdated' = outdated \cup {n}
  /\ UNCHANGED <<bearer, storage, tab, callsOut, endpoint, endpoints, owner, subscriber>>

-----------------------------------------------------------------------------
(* Requests: under the token in storage, whatever session the tab shows. *)

\* Without a stored session the call throws "Not signed in" and nothing else.
Send(t, op, e) ==
  /\ tab[t] # 0
  /\ Cardinality(callsOut) < MaxCallsOut
  /\ storage' = readStoredSession
  /\ callsOut' = IF readStoredSession = 0 THEN callsOut
                 ELSE callsOut \cup {[tab |-> t, op |-> op, user |-> NoUser,
                                      token |-> storage, endpoint |-> e]}

Ask(t) ==
  /\ Send(t, "data", 0)
  /\ UNCHANGED <<bearer, outdated, tab, endpoint, endpoints, owner, subscriber>>

\* The subscription the browser has already is used again.
EnablePush(t) ==
  /\ IF endpoint # 0 THEN UNCHANGED <<endpoint, endpoints>>
     ELSE endpoints < MaxEndpoints /\ endpoints' = endpoints + 1 /\ endpoint' = endpoints'
  /\ Send(t, "subscribe", endpoint')
  /\ UNCHANGED <<bearer, outdated, tab, owner, subscriber>>

DisablePush(t) ==
  /\ endpoint # 0
  /\ Send(t, "unsubscribe", endpoint)
  /\ UNCHANGED <<bearer, outdated, tab, endpoint, endpoints, owner, subscriber>>

\* JwtAuthGuard; the page signs the tab out and clears whatever is stored.
Refused(r) ==
  /\ r.op \in {"data", "subscribe", "unsubscribe"}
  /\ r.token \in outdated
  /\ callsOut' = callsOut \ {r}
  /\ storage' = 0
  /\ tab' = [tab EXCEPT ![r.tab] = 0]
  /\ UNCHANGED <<bearer, outdated, endpoint, endpoints, owner, subscriber>>

Valid(r, op) == r.op = op /\ r.token \notin outdated

Answered(r) ==
  /\ Valid(r, "data")
  /\ callsOut' = callsOut \ {r}
  /\ UNCHANGED <<bearer, outdated, storage, tab, endpoint, endpoints, owner, subscriber>>

MutKeepsOwner(r) == IF owner[r.endpoint] = NoUser THEN bearer[r.token] ELSE owner[r.endpoint]
\* onConflictDoUpdate: the endpoint changes hands.
NewOwner(r) == bearer[r.token]

Subscribe(r) ==
  /\ Valid(r, "subscribe")
  /\ owner' = [owner EXCEPT ![r.endpoint] = NewOwner(r)]
  /\ subscriber' = [subscriber EXCEPT ![r.endpoint] = bearer[r.token]]
  /\ callsOut' = callsOut \ {r}
  /\ UNCHANGED <<bearer, outdated, storage, tab, endpoint, endpoints>>

\* A user removes his own row only.
OwnRow(r) == owner[r.endpoint] = bearer[r.token]

Unsubscribe(r) ==
  /\ Valid(r, "unsubscribe")
  /\ owner' = IF OwnRow(r) THEN [owner EXCEPT ![r.endpoint] = NoUser] ELSE owner
  /\ callsOut' = (callsOut \ {r}) \cup {[r EXCEPT !.op = "unsubscribed"]}
  /\ UNCHANGED <<bearer, outdated, storage, tab, endpoint, endpoints, subscriber>>

\* Then the browser ends its subscription.
Unsubscribed(r) ==
  /\ r.op = "unsubscribed"
  /\ endpoint' = IF endpoint = r.endpoint THEN 0 ELSE endpoint
  /\ callsOut' = callsOut \ {r}
  /\ UNCHANGED <<bearer, outdated, storage, tab, endpoints, owner, subscriber>>

Lost(r) ==
  /\ callsOut' = callsOut \ {r}
  /\ UNCHANGED <<bearer, outdated, storage, tab, endpoint, endpoints, owner, subscriber>>

\* The push service answers 404 or 410 for a subscription that ended: its row goes.
PushToDead(e) ==
  /\ owner[e] # NoUser /\ e # endpoint
  /\ owner' = [owner EXCEPT ![e] = NoUser]
  /\ UNCHANGED <<bearer, outdated, storage, tab, callsOut, endpoint, endpoints, subscriber>>

-----------------------------------------------------------------------------
BrowserInit ==
  /\ bearer = [n \in {} |-> NoUser]
  /\ outdated = {}
  /\ storage = 0 /\ tab = [t \in Tabs |-> 0]
  /\ callsOut = {}
  /\ endpoint = 0 /\ endpoints = 0
  /\ owner = [e \in Endpoints |-> NoUser] /\ subscriber = owner

BrowserNext ==
  \/ \E t \in Tabs : \/ PageLoads(t) \/ SignOut(t) \/ Ask(t) \/ EnablePush(t) \/ DisablePush(t)
                     \/ \E u \in Users : Login(t, u)
  \/ \E r \in callsOut : \/ LoginAnswer(r) \/ Refused(r) \/ Answered(r) \/ Subscribe(r)
                         \/ Unsubscribe(r) \/ Unsubscribed(r) \/ Lost(r)
  \/ \E n \in DOMAIN bearer : Expire(n)
  \/ \E e \in Endpoints : PushToDead(e)

BrowserSpec == BrowserInit /\ [][BrowserNext]_browserVars

-----------------------------------------------------------------------------
BrowserTypeOK ==
  /\ \E n \in 0 .. MaxTokens : bearer \in [1 .. n -> Users]
  /\ outdated \subseteq DOMAIN bearer
  /\ storage \in {0} \cup DOMAIN bearer
  /\ tab \in [Tabs -> {0} \cup DOMAIN bearer]
  /\ callsOut \subseteq Call
  /\ endpoints \in 0 .. MaxEndpoints /\ endpoint \in {0, endpoints}
  /\ {owner, subscriber} \subseteq [Endpoints -> Users \cup {NoUser}]

\* Whatever agents share a browser and however their calls interleave, its pushes are of
\* nobody but the agent who was subscribed in it last (push.service.ts:29-50).
PushesFollowTheBrowser == \A e \in Endpoints : owner[e] \in {NoUser, subscriber[e]}

\* push.service.ts:54 says that a subscription is removed on logout, and
\* realtime-and-web-push.md:97 that it is revoked: nobody calls it there.
PushesStopAtLogout ==
  [][\A t \in Tabs : SignOut(t) /\ endpoint # 0 => owner'[endpoint] # bearer[tab[t]]]_browserVars

\* A token that the API refused signs out the tabs that use it, and not another session:
\* the page clears whatever is stored (api.ts:653-656).
OnlyItsOwnSession ==
  [][\A r \in callsOut : Refused(r) => storage \in {0, r.token}]_browserVars

\* A tab acts for the user whose session it shows; storage is shared by the tabs, which
\* read it at each request (App.tsx:101-110).
ActsAsShown == \A r \in callsOut : r.op = "data" /\ tab[r.tab] # 0 => r.token = tab[r.tab]
=============================================================================
