----------------------------- MODULE ClientSession -----------------------------
(***************************************************************************)
(* The session a client keeps: tokens and user in the browser's or the       *)
(* phone's storage, requests that meet an expired token, one refresh they     *)
(* all wait for, and the badge of the mini program.  The web console and the  *)
(* mini program do this with the same design and different details; app says  *)
(* which of the two a behaviour is about.                                     *)
(*                                                                         *)
(* Nothing a client has under way is cancelled when the session ends, and     *)
(* whatever arrives writes to the storage of the session there is by then.    *)
(***************************************************************************)
EXTENDS Integers, FiniteSets

CONSTANTS
  Users,        \* accounts used on this client
  Requests,     \* requests that can be under way at once
  None,         \* nothing stored
  MaxAsks,      \* bound: requests, logins and restarts of the user
  MaxExpiries,  \* bound: how often the access tokens expire
  MaxFaults     \* bound: requests lost on the network

ASSUME NoneAssumption == None \notin Users \cup [of: Users, live: BOOLEAN]
ASSUME BoundsAssumption == {MaxAsks, MaxExpiries, MaxFaults} \subseteq Nat

VARIABLES
  app,      \* "console" or "mini"
  page,     \* where the console is: at the login page or inside
  store,    \* localStorage, or the storage of the mini program
  login,    \* the account of a login under way
  req,      \* the requests under way
  refresh,  \* the account whose refresh token is being exchanged (isRefreshing)
  active,   \* accounts the server has not disabled
  badge, last, running,   \* the badge shown, the poller's lastCount and timer
  asks, expiries, faults,
  held,     \* history: who has logged in and has had no reason to be logged out since
  raced     \* history: the session was replaced or ended during a refresh

vars == <<app, page, store, login, req, refresh, active, badge, last, running,
          asks, expiries, faults, held, raced>>

Token == [of: Users, live: BOOLEAN]
Live(t) == IF t = None THEN FALSE ELSE t.live
Store == [token: Token \cup {None}, refresh: Users \cup {None}, user: Users \cup {None}]
Blank == [token |-> None, refresh |-> None, user |-> None]

\* again: the request repeats one that met an expired token (_retry, _isRetry).
Request == [phase: {"idle", "sent", "waiting", "queued"}, token: Token \cup {None},
            again: BOOLEAN, kind: {"plain", "profile", "badge"}]
Idle == [phase |-> "idle", token |-> None, again |-> FALSE, kind |-> "plain"]

InQueue == {r \in Requests : req[r].phase \in {"waiting", "queued"}}
Reloads == app = "console" /\ page = "inside"

Init ==
  /\ app \in {"console", "mini"}
  /\ page = "login" /\ store = Blank /\ login = None
  /\ req = [r \in Requests |-> Idle]
  /\ refresh = None /\ active = Users
  /\ badge = 0 /\ last = -1 /\ running = TRUE
  /\ asks = 0 /\ expiries = 0 /\ faults = 0
  /\ held = None /\ raced = FALSE

badgeVars == <<badge, last, running>>

-----------------------------------------------------------------------------
(* Requests that end *)

\* applyBadge
Apply(n) == last' = n /\ badge' = IF last = n THEN badge ELSE n

\* What the callers of failed requests do in the mini program: a tick of the poller
\* counts no messages, and the check at launch stops the poller.
Shrugged(R) ==
  /\ last' = IF \E r \in R : req[r].kind # "plain" THEN 0 ELSE last
  /\ running' = (running /\ \A r \in R : req[r].kind # "profile")

Settled(R) == [r \in Requests |-> IF r \in R THEN Idle ELSE req[r]]

\* forceLogout while the requests R fail.  Away from its login page the console loads
\* that page anew, and whatever was under way is forgotten.
ForceLogout(R) ==
  /\ store' = Blank
  /\ page' = "login"
  /\ req' = Settled(IF Reloads THEN Requests ELSE R)
  /\ badge' = 0 /\ Shrugged(R)
  /\ raced' = (raced \/ refresh' # None)

KeepsLogin == login' = IF Reloads THEN None ELSE login

-----------------------------------------------------------------------------
(* Faulty variants of operators below; not part of the specification.        *)

\* a logout that leaves the refresh token in the storage
LogoutHalf ==
  /\ store.token # None
  /\ store' = [Blank EXCEPT !.refresh = store.refresh]
  /\ page' = "login"
  /\ badge' = 0 /\ held' = None
  /\ raced' = (raced \/ refresh # None)
  /\ UNCHANGED <<app, login, req, refresh, active, last, running, asks, expiries, faults>>

\* a repeated request keeps the token it was first sent with
RefreshedOldToken ==
  /\ refresh \in active
  /\ store' = [store EXCEPT !.token = [of |-> refresh, live |-> TRUE], !.refresh = refresh]
  /\ req' = [r \in Requests |-> IF r \in InQueue
               THEN [req[r] EXCEPT !.phase = "sent", !.again = TRUE] ELSE req[r]]
  /\ refresh' = None
  /\ UNCHANGED <<app, page, login, active, badgeVars, asks, expiries, faults, held, raced>>

\* an interceptor that does not look whether a refresh is under way
QueuesNever(r) == FALSE

\* a poller that does nothing while nobody is logged in
TickOutIdle ==
  /\ app = "mini" /\ running /\ store.token = None
  /\ UNCHANGED vars

\* a failed refresh that forgets the queue
RefreshFailsAlone ==
  /\ refresh # None /\ refresh' = None
  /\ \/ refresh \notin active /\ UNCHANGED <<faults, held>>
     \/ faults < MaxFaults /\ faults' = faults + 1 /\ held' = None
  /\ ForceLogout({r \in Requests : req[r].phase = "waiting"})
  /\ KeepsLogin
  /\ UNCHANGED <<app, active, asks, expiries>>

-----------------------------------------------------------------------------
(* Login and logout *)

Counts == asks < MaxAsks /\ asks' = asks + 1

\* The login page opens only to who has no token.
LoginSend(u) ==
  /\ login = None /\ store.token = None /\ page = "login"
  /\ Counts /\ login' = u
  /\ UNCHANGED <<app, page, store, req, refresh, active, badgeVars, expiries, faults, held, raced>>

\* The console's server looks at the account's status, the mini program's does not.
LoginOk ==
  /\ login # None
  /\ app = "console" => login \in active
  /\ store' = [token |-> [of |-> login, live |-> TRUE], refresh |-> login, user |-> login]
  /\ page' = IF app = "console" THEN "inside" ELSE page
  /\ login' = None
  /\ held' = IF login \in active THEN login ELSE None
  /\ raced' = (raced \/ refresh # None)
  /\ UNCHANGED <<app, req, refresh, active, badgeVars, asks, expiries, faults>>

\* A refused login answers 401, which the console's interceptor takes for the end of the
\* session; a lost one says nothing.
LoginFail ==
  /\ login # None
  /\ \/ /\ app = "console" /\ refresh' = (IF Reloads THEN None ELSE refresh)
        /\ ForceLogout({}) /\ held' = None /\ UNCHANGED faults
     \/ /\ faults < MaxFaults /\ faults' = faults + 1
        /\ UNCHANGED <<page, store, req, refresh, badgeVars, held, raced>>
  /\ login' = None
  /\ UNCHANGED <<app, active, asks, expiries>>

\* logout of the user store, clearUserData: what is under way goes on.
Logout ==
  /\ store.token # None
  /\ store' = Blank
  /\ page' = "login"
  /\ badge' = 0 /\ held' = None
  /\ raced' = (raced \/ refresh # None)
  /\ UNCHANGED <<app, login, req, refresh, active, last, running, asks, expiries, faults>>

\* beforeEach: without a token to the login page, with one away from it.
Navigate ==
  /\ app = "console"
  /\ page' = IF store.token = None THEN "login" ELSE "inside"
  /\ UNCHANGED <<app, store, login, req, refresh, active, badgeVars, asks, expiries, faults,
                 held, raced>>

\* Disabling an account leaves its access tokens good until they expire.
Disable(u) ==
  /\ u \in active /\ active' = active \ {u}
  /\ held' = IF held = u THEN None ELSE held
  /\ UNCHANGED <<app, page, store, login, req, refresh, badgeVars, asks, expiries, faults, raced>>

\* The page is loaded anew, or the mini program launched: with a token it fetches the
\* profile.
Restart ==
  /\ Counts
  /\ LET checks == app = "mini" /\ store.token # None
     IN \E first \in Requests :
          req' = [r \in Requests |-> IF r = first /\ checks
                    THEN [Idle EXCEPT !.phase = "sent", !.token = store.token, !.kind = "profile"]
                    ELSE Idle]
  /\ page' = IF app = "console" /\ store.token # None THEN "inside" ELSE "login"
  /\ login' = None /\ refresh' = None
  /\ badge' = 0 /\ last' = -1 /\ running' = TRUE
  /\ UNCHANGED <<app, store, active, expiries, faults, held, raced>>

-----------------------------------------------------------------------------
(* Requests *)

\* Some page asks for something.  A screen of the mini program may ask without a token.
Ask(r) ==
  /\ req[r].phase = "idle" /\ Counts
  /\ app = "console" => page = "inside"
  /\ req' = [req EXCEPT ![r] = [Idle EXCEPT !.phase = "sent", !.token = store.token]]
  /\ UNCHANGED <<app, page, store, login, refresh, active, badgeVars, expiries, faults, held,
                 raced>>

\* tick of the poller; its two requests are one.
Tick(r) ==
  /\ app = "mini" /\ running /\ store.token # None /\ req[r].phase = "idle"
  /\ req' = [req EXCEPT ![r] = [Idle EXCEPT !.phase = "sent", !.token = store.token,
                                            !.kind = "badge"]]
  /\ UNCHANGED <<app, page, store, login, refresh, active, badgeVars, asks, expiries, faults,
                 held, raced>>

\* tick while nobody is logged in.
TickOut ==
  /\ app = "mini" /\ running /\ store.token = None
  /\ Apply(0)
  /\ UNCHANGED <<app, page, store, login, req, refresh, active, running, asks, expiries, faults,
                 held, raced>>

\* useDidShow and useDidHide
ShowOrHide ==
  /\ app = "mini" /\ running' = ~running
  /\ UNCHANGED <<app, page, store, login, req, refresh, active, badge, last, asks, expiries,
                 faults, held, raced>>

\* The server looks at the token alone; a tick learns of zero or one unread message.
Served(r) ==
  /\ req[r].phase = "sent" /\ Live(req[r].token)
  /\ req' = Settled({r})
  /\ IF req[r].kind = "badge" THEN \E n \in 0..1 : Apply(n) ELSE UNCHANGED <<badge, last>>
  /\ UNCHANGED <<app, page, store, login, refresh, active, running, asks, expiries, faults,
                 held, raced>>

\* All access tokens issued so far expire.  None does while a request that has just got
\* a new one is on its way: they live for two hours.
Expire ==
  /\ expiries < MaxExpiries /\ expiries' = expiries + 1
  /\ ~\E r \in Requests : req[r].phase = "sent" /\ req[r].again
  /\ LET old(t) == IF t = None THEN None ELSE [t EXCEPT !.live = FALSE]
     IN /\ store' = [store EXCEPT !.token = old(@)]
        /\ req' = [r \in Requests |-> [req[r] EXCEPT !.token = old(@)]]
  /\ UNCHANGED <<app, page, login, refresh, active, badgeVars, asks, faults, held, raced>>

\* A 401.  The first to meet it starts a refresh, the others queue behind it.  The second
\* time it is an error like others for the console, and the end for the mini program.
Queues(r) == refresh # None

Unauthorized(r) ==
  /\ req[r].phase = "sent" /\ ~Live(req[r].token)
  /\ LET starts == ~req[r].again /\ ~Queues(r)
         ends == IF req[r].again THEN app = "mini" ELSE starts /\ store.refresh = None
     IN /\ refresh' = IF ends /\ Reloads THEN None
                      ELSE IF starts THEN store.refresh ELSE refresh
        /\ IF ends THEN ForceLogout({r}) /\ KeepsLogin
           ELSE /\ req' = IF req[r].again THEN Settled({r})
                          ELSE [req EXCEPT ![r].phase = IF starts THEN "waiting" ELSE "queued"]
                /\ UNCHANGED <<page, store, login, badgeVars, raced>>
  /\ UNCHANGED <<app, active, asks, expiries, faults, held>>

\* The refresh writes its tokens over what the storage holds by then, and every request
\* behind it is sent again; only the mini program marks those of the queue.
Refreshed ==
  /\ refresh \in active
  /\ LET new == [of |-> refresh, live |-> TRUE]
     IN /\ store' = [store EXCEPT !.token = new, !.refresh = refresh]
        /\ req' = [r \in Requests |->
             IF r \in InQueue
             THEN [req[r] EXCEPT !.phase = "sent", !.token = new,
                                 !.again = (app = "mini" \/ req[r].phase = "waiting")]
             ELSE req[r]]
  /\ refresh' = None
  /\ UNCHANGED <<app, page, login, active, badgeVars, asks, expiries, faults, held, raced>>

\* The server refuses, or the network fails: both end the session.
RefreshFails ==
  /\ refresh # None /\ refresh' = None
  /\ \/ refresh \notin active /\ UNCHANGED <<faults, held>>
     \/ faults < MaxFaults /\ faults' = faults + 1 /\ held' = None
  /\ ForceLogout(InQueue)
  /\ KeepsLogin
  /\ UNCHANGED <<app, active, asks, expiries>>

\* A request is lost.  The check at launch takes that, too, for the end of the session.
Lost(r) ==
  /\ req[r].phase = "sent"
  /\ faults < MaxFaults /\ faults' = faults + 1
  /\ req' = Settled({r})
  /\ LET ends == req[r].kind = "profile"
     IN /\ store' = IF ends THEN Blank ELSE store
        /\ held' = IF ends THEN None ELSE held
        /\ raced' = (raced \/ (ends /\ refresh # None))
        /\ badge' = IF ends \/ (req[r].kind = "badge" /\ last # 0) THEN 0 ELSE badge
        /\ Shrugged({r})
  /\ UNCHANGED <<app, page, login, refresh, active, asks, expiries>>

-----------------------------------------------------------------------------
Next ==
  \/ \E u \in Users : LoginSend(u) \/ Disable(u)
  \/ LoginOk \/ LoginFail \/ Logout \/ Navigate \/ Restart
  \/ \E r \in Requests : Ask(r) \/ Tick(r) \/ Served(r) \/ Unauthorized(r) \/ Lost(r)
  \/ TickOut \/ ShowOrHide \/ Expire \/ Refreshed \/ RefreshFails

Spec == Init /\ [][Next]_vars

\* Requests are answered or time out, and the poller's timer goes on.
FairSpec ==
  /\ Spec
  /\ \A r \in Requests : WF_vars(Served(r) \/ Unauthorized(r))
  /\ WF_vars(Refreshed \/ RefreshFails)
  /\ WF_vars(TickOut \/ \E r \in Requests : Tick(r))

-----------------------------------------------------------------------------
(* Properties *)

TypeOK ==
  /\ app \in {"console", "mini"} /\ page \in {"login", "inside"}
  /\ store \in Store /\ login \in Users \cup {None}
  /\ req \in [Requests -> Request]
  /\ refresh \in Users \cup {None} /\ active \subseteq Users
  /\ badge \in 0..1 /\ last \in -1..1 /\ running \in BOOLEAN
  /\ asks \in 0..MaxAsks /\ expiries \in 0..MaxExpiries /\ faults \in 0..MaxFaults
  /\ held \in Users \cup {None} /\ raced \in BOOLEAN
  \* requests queue only behind a refresh, and one of them has started it
  /\ InQueue # {} => refresh # None
  /\ refresh # None => Cardinality({r \in Requests : req[r].phase = "waiting"}) = 1

\* The access token, the refresh token and the user in the storage are of one account,
\* or all missing, unless the session was ended or replaced during a refresh: then the
\* late refresh puts tokens next to another user, or next to none.
OneAccountUnlessRaced ==
  ~raced => \E u \in Users \cup {None} :
              /\ store.refresh = u /\ store.user = u
              /\ IF u = None THEN store.token = None ELSE store.token # None /\ store.token.of = u

\* Expiry alone never costs the user the session: who has logged in, has not logged out,
\* is not disabled and has lost no request on the network that ends sessions is still
\* logged in, however many requests meet the expired token in whatever order (the retry
\* and the queue of both request.ts).
ExpiryKeepsSession == held # None /\ ~raced => store.user = held

\* Every request ends: none waits for ever behind a refresh that has failed, or that
\* was over before it queued (processPendingQueue, processRefreshQueue).
RequestsSettle ==
  \A r \in Requests : req[r].phase # "idle" ~> req[r].phase = "idle"

\* In front and logged out for good, the mini program ends up without a badge, though
\* logout leaves lastCount alone and a tick under way may set the badge after it.
BadgeGoesOut ==
  (<>[](app = "mini" /\ running /\ store.token = None)) => <>[](badge = 0)

\* wx-login.ts says of a failed check at launch: on a network error the token is kept
\* for the next attempt.
NetworkErrorKeepsSession ==
  [][\A r \in Requests : Lost(r) => store'.token = store.token]_vars
=============================================================================
