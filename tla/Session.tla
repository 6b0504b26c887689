------------------------------ MODULE Session ------------------------------
(* The browser's sign-in: the token refresh of the HTTP client                *)
(* (frontend/src/api/client.ts), the pages that sign in and out, and the      *)
(* routes that issue and check tokens (backend/app/routers/auth.py), for one  *)
(* tab. Other tabs share only the token store with it: Elsewhere is what they *)
(* do to it.                                                                  *)
(*                                                                            *)
(* A pair is an access token with the refresh token issued with it, numbered  *)
(* in the order of issue. The server keeps no tokens, so deciding a request   *)
(* and the arrival of its answer are one step.                                *)
EXTENDS Naturals, Sequences

CONSTANTS
  Calls,       \* requests the pages of the tab can have in flight
  SignIns,     \* forms submitted, of those open now or left meanwhile
  Users,       \* account holders
  Registered,  \* those with an account to begin with
  MaxPairs,    \* from this many pairs on, nothing expires and nobody signs in
  MaxErrors,   \* bound on failed answers
  MaxElsewhere \* bound on what other tabs and the address bar do

ASSUME SessionAssumption ==
  /\ "page" \notin Calls \cup SignIns /\ Calls \intersect SignIns = {}
  /\ "nobody" \notin Users
  /\ Registered \subseteq Users
  /\ {MaxPairs, MaxErrors, MaxElsewhere} \subseteq Nat

NoPair == 0
Nobody == "nobody"

\* "page" is App.validateToken.
Requests == Calls \cup SignIns \cup {"page"}

VARIABLES
  store,        \* localStorage: the pair it holds
  page,         \* "up", or "leaving" once location.href was assigned
  isRefreshing, \* the client module's flag
  req,          \* req[r]: the request in flight
  shown,        \* authStore.user
  accounts,     \* the users table
  owner,        \* owner[p]: whose pair p is
  expired,      \* access tokens of pairs up to this one are expired
  lapsed,       \* refresh tokens of pairs up to this one are expired
  errors,       \* failed answers
  elsewhere,    \* what other tabs and the address bar did
  blame         \* history: the last reason why shown may not be the store's owner

browser == <<store, page, isRefreshing, req, shown>>
server  == <<accounts, owner, expired, lapsed>>
bounds  == <<errors, elsewhere>>
vars == <<browser, server, bounds, blame>>

Pairs == 0..Len(owner)

Idle == [st |-> "idle", kind |-> "call", pair |-> NoPair, retry |-> FALSE, who |-> Nobody]

\* The request interceptor attaches the stored access token, which the routes that
\* sign in do not read.
Send(kind, who) ==
  [st |-> "sent", kind |-> kind, pair |-> IF who = Nobody THEN store ELSE NoPair,
   retry |-> FALSE, who |-> who]

\* Mutant: nobody is told of the new token.
Queued_Forgotten == {}

\* The subscribers onTokenRefreshed calls.
Queued == {r \in Requests : req[r].st = "queued"}

Init ==
  /\ store = NoPair /\ page = "up" /\ isRefreshing = FALSE
  /\ req = [r \in Requests |-> Idle] /\ shown = Nobody
  /\ accounts = Registered /\ owner = <<>> /\ expired = 0 /\ lapsed = 0
  /\ errors = 0 /\ elsewhere = 0 /\ blame = {}

-----------------------------------------------------------------------------
(* What the user does.                                                        *)

\* A page asks the backend for something.
Call(r) ==
  /\ page = "up" /\ shown # Nobody /\ req[r].st = "idle"
  /\ req' = [req EXCEPT ![r] = Send("call", Nobody)]
  /\ UNCHANGED <<store, page, isRefreshing, shown, server, bounds, blame>>

\* The login and the register form, which are not shown before the token is
\* validated. A wrong user name or password is a user without an account. A form
\* knows only of its own submission, which goes on when the form is left for the
\* other: sign-ins overlap.
Submit(f, kind, u) ==
  /\ page = "up" /\ req["page"].st = "idle" /\ req[f].st = "idle" /\ Len(owner) < MaxPairs
  /\ kind = "register" => shown = Nobody
  /\ req' = [req EXCEPT ![f] = Send(kind, u)]
  /\ UNCHANGED <<store, page, isRefreshing, shown, server, bounds, blame>>

\* Sidebar.handleLogout: what is in flight stays in flight.
Logout ==
  /\ page = "up" /\ shown # Nobody
  /\ store' = NoPair /\ shown' = Nobody
  /\ UNCHANGED <<page, isRefreshing, req, server, bounds, blame>>

\* A page is loaded, because it was left or from the address bar: the module
\* state and every request of the old page are gone, and App.validateToken asks
\* who the stored token belongs to.
Load ==
  /\ \/ page = "leaving" /\ UNCHANGED elsewhere
     \/ page = "up" /\ elsewhere < MaxElsewhere /\ elsewhere' = elsewhere + 1
  /\ page' = "up" /\ isRefreshing' = FALSE /\ shown' = Nobody /\ blame' = {}
  /\ req' = [r \in Requests |->
               IF r = "page" /\ store # NoPair THEN Send("load", Nobody) ELSE Idle]
  /\ UNCHANGED <<store, server, errors>>

\* Another tab signs in, refreshes, or empties the store.
Elsewhere ==
  /\ elsewhere < MaxElsewhere /\ elsewhere' = elsewhere + 1
  /\ \/ /\ Len(owner) < MaxPairs
        /\ \E u \in Users : owner' = Append(owner, u) /\ accounts' = accounts \cup {u}
        /\ store' = Len(owner')
     \/ store # NoPair /\ store' = NoPair /\ UNCHANGED <<accounts, owner>>
  /\ blame' = {"replaced"}
  /\ UNCHANGED <<page, isRefreshing, req, shown, expired, lapsed, errors>>

-----------------------------------------------------------------------------
(* Answers of the backend, and the response interceptor.                      *)

\* get_current_user accepts the token.
Accepted(r) == req[r].pair > expired

\* Mutant: every error signs out.
Reject_AlwaysClears(r) ==
  /\ req' = [req EXCEPT ![r] = Idle]
  /\ store' = NoPair
  /\ UNCHANGED <<page, shown, blame>>

\* The caller gets an error; a failed validateToken signs out.
Reject(r) ==
  /\ req' = [req EXCEPT ![r] = Idle]
  /\ store' = IF req[r].kind = "load" THEN NoPair ELSE store
  /\ UNCHANGED <<page, shown, blame>>

CallAnswered(r) ==
  /\ req[r].st = "sent" /\ req[r].kind = "call" /\ Accepted(r)
  /\ req' = [req EXCEPT ![r] = Idle]
  /\ UNCHANGED <<store, page, isRefreshing, shown, server, bounds, blame>>

\* GET /auth/me, after signing in or on loading the page. A sign-in is overtaken when
\* the tokens it asks with are no longer those stored.
MeAnswered(r) ==
  /\ req[r].st = "sent" /\ req[r].kind \in {"me", "load"} /\ Accepted(r)
  /\ req' = [req EXCEPT ![r] = Idle]
  /\ shown' = owner[req[r].pair]
  /\ blame' = CASE req[r].pair = store -> {}
               [] req[r].pair # store /\ req[r].kind = "me" -> {"overtaken"}
               [] OTHER -> blame
  /\ UNCHANGED <<store, page, isRefreshing, server, bounds>>

\* The tokens arrive, the page stores them and asks who it is.
SignIn(r, u) ==
  /\ owner' = Append(owner, u)
  /\ store' = Len(owner')
  /\ req' = [req EXCEPT ![r] = [Idle EXCEPT !.st = "sent", !.kind = "me", !.pair = Len(owner')]]
  /\ blame' = {"halfway"}
  /\ UNCHANGED <<page, isRefreshing, shown, expired, lapsed, bounds>>

LoginAnswered(r) ==
  /\ req[r].st = "sent" /\ req[r].kind = "login" /\ req[r].who \in accounts
  /\ SignIn(r, req[r].who)
  /\ UNCHANGED accounts

\* Registration looks for the email, then inserts; the unique constraint makes
\* the insert of one that came too late fail.
RegisterLooks(r) ==
  /\ req[r].st = "sent" /\ req[r].kind = "register"
  /\ req' = [req EXCEPT ![r] = IF @.who \in accounts THEN Idle ELSE [@ EXCEPT !.st = "inserting"]]
  /\ UNCHANGED <<store, page, isRefreshing, shown, server, bounds, blame>>

RegisterInserts(r) ==
  /\ req[r].st = "inserting"
  /\ IF req[r].who \in accounts
       THEN /\ req' = [req EXCEPT ![r] = Idle]
            /\ UNCHANGED <<store, page, isRefreshing, shown, server, bounds, blame>>
       ELSE SignIn(r, req[r].who) /\ accounts' = accounts \cup {req[r].who}

\* clearTokens, and off to the login page: what the interceptor does when there
\* is no new token.
ToLogin(r) ==
  /\ store' = NoPair /\ page' = "leaving"
  /\ req' = [req EXCEPT ![r] = Idle]
  /\ UNCHANGED <<shown, blame>>

\* 401. A request refused for the first time waits for the refresh of its page, or
\* starts it; without a refresh token there is none to start.
Refused(r) ==
  /\ req[r].st = "sent"
  /\ \/ req[r].kind \in {"call", "me", "load"} /\ ~Accepted(r)
     \/ req[r].kind = "login" /\ req[r].who \notin accounts
  /\ CASE req[r].retry -> Reject(r) /\ UNCHANGED isRefreshing
       [] ~req[r].retry /\ isRefreshing ->
            /\ req' = [req EXCEPT ![r].st = "queued"]
            /\ UNCHANGED <<store, page, isRefreshing, shown, blame>>
       [] ~req[r].retry /\ ~isRefreshing /\ store # NoPair ->
            /\ req' = [req EXCEPT ![r] = [@ EXCEPT !.st = "refreshing", !.pair = store, !.retry = TRUE]]
            /\ isRefreshing' = TRUE
            /\ UNCHANGED <<store, page, shown, blame>>
       [] OTHER -> ToLogin(r) /\ UNCHANGED isRefreshing
  /\ UNCHANGED <<server, bounds>>

\* A new pair: it is stored, and the request and all that wait are sent again.
RefreshAnswered(r) ==
  /\ req[r].st = "refreshing" /\ req[r].pair > lapsed
  /\ owner' = Append(owner, owner[req[r].pair])
  /\ store' = Len(owner')
  /\ isRefreshing' = FALSE
  /\ req' = [q \in Requests |->
               IF q \in {r} \cup Queued THEN [req[q] EXCEPT !.st = "sent", !.pair = Len(owner')] ELSE req[q]]
  /\ blame' = IF req[r].pair = store THEN blame ELSE {"replaced"}
  /\ UNCHANGED <<page, shown, accounts, expired, lapsed, bounds>>

\* A time-out, a lost connection or an answer nothing in the client handles.
Fails ==
  /\ errors < MaxErrors /\ errors' = errors + 1

\* Mutant: a failed refresh does not leave the page.
RefreshFails_Stays(r) ==
  /\ req[r].st = "refreshing"
  /\ req[r].pair <= lapsed \/ errors < MaxErrors
  /\ errors' = IF req[r].pair <= lapsed THEN errors ELSE errors + 1
  /\ store' = NoPair /\ isRefreshing' = FALSE
  /\ req' = [req EXCEPT ![r] = Idle]
  /\ UNCHANGED <<page, shown, blame, server, elsewhere>>

\* Mutant: the refresh is refused once the access token issued with it has expired.
RefreshFails_WithAccess(r) ==
  /\ req[r].st = "refreshing" /\ req[r].pair <= expired
  /\ ToLogin(r)
  /\ isRefreshing' = FALSE
  /\ UNCHANGED <<server, bounds>>

\* The refresh is refused or fails: the waiting requests are left waiting.
RefreshFails(r) ==
  /\ req[r].st = "refreshing"
  /\ \/ req[r].pair <= lapsed /\ UNCHANGED errors
     \/ Fails
  /\ ToLogin(r)
  /\ isRefreshing' = FALSE
  /\ UNCHANGED <<server, elsewhere>>

Errs(r) ==
  /\ req[r].st \in {"sent", "inserting"}
  /\ Fails /\ Reject(r)
  /\ UNCHANGED <<isRefreshing, server, elsewhere>>

-----------------------------------------------------------------------------
(* Time.                                                                      *)

AccessExpires ==
  /\ expired < Len(owner) /\ Len(owner) < MaxPairs /\ expired' = expired + 1
  /\ UNCHANGED <<browser, accounts, owner, lapsed, bounds, blame>>

RefreshExpires ==
  /\ lapsed < expired /\ lapsed' = lapsed + 1
  /\ UNCHANGED <<browser, accounts, owner, expired, bounds, blame>>

Settles(r) ==
  \/ CallAnswered(r) \/ MeAnswered(r) \/ LoginAnswered(r)
  \/ RegisterLooks(r) \/ RegisterInserts(r) \/ Refused(r)
  \/ RefreshAnswered(r) \/ RefreshFails(r) \/ Errs(r)

Next ==
  \/ \E r \in Calls : Call(r)
  \/ \E r \in Requests : Settles(r)
  \/ \E f \in SignIns, u \in Users, kind \in {"login", "register"} : Submit(f, kind, u)
  \/ Logout \/ Load \/ Elsewhere
  \/ AccessExpires \/ RefreshExpires

\* The client sets a time-out for every request but the refresh, which may stay in
\* flight for ever, and a browser carries out the navigation a page has begun.
Fairness ==
  /\ \A r \in Requests : WF_vars(req[r].st # "refreshing" /\ Settles(r))
  /\ WF_vars(page = "leaving" /\ Load)

Spec == Init /\ [][Next]_vars /\ Fairness

-----------------------------------------------------------------------------

\* RefreshQueue, read off the requests.
Queue == INSTANCE RefreshQueue WITH
  phase <- [r \in Requests |-> IF req[r].st \in {"queued", "refreshing"} THEN req[r].st ELSE "free"],
  pair <- [r \in Requests |-> req[r].pair],
  leaving <- page = "leaving",
  outside <- elsewhere

\* However many requests the backend refuses, one refreshes for all; those who queue
\* behind it go on together, with the pair it brings, and if it fails stay queued until
\* the page, which is being left, is gone (client.ts:84).
ImplementsRefreshQueue == Queue!Spec

\* A page shows the owner of the stored tokens (authStore.ts:13) or is being left,
\* unless another tab changed the store, a refresh ended after the store it began with
\* was replaced, a sign-in has not got through its second request, or got its answer
\* when another, or a logout, had replaced its tokens.
ShownOwnsTokens ==
  page = "up" /\ shown # Nobody /\ blame = {} => store # NoPair /\ owner[store] = shown

\* A session that could still be refreshed ends with a logout, an error, or a page
\* load refused twice, and otherwise only through a refresh that began with another
\* pair than the one it empties the store of (client.ts:57).
SignedOutForCause ==
  [][(store > lapsed /\ store' = NoPair) =>
       \/ shown' # shown \/ errors' # errors \/ elsewhere' # elsewhere
       \/ \E r \in Requests : req'[r].st = "idle" /\
            (req[r].kind = "load" \/ (req[r].st = "refreshing" /\ req[r].pair # store))]_vars

\* Every request is answered or its page is left, also those that wait for a refresh
\* that fails (client.ts:85), unless they wait for one that never ends: a refresh has no
\* time-out (client.ts:50).
EveryRequestSettles ==
  \A r \in Requests :
    \/ []<>(req[r].st = "idle")
    \/ <>[](isRefreshing /\ req[r].st \in {"queued", "refreshing"})

=============================================================================
