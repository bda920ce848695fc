------------------------- MODULE ClientSession_proofs -------------------------
(***************************************************************************)
(* Proofs about ClientSession, for any accounts, any number of requests and *)
(* any bounds.                                                              *)
(***************************************************************************)
EXTENDS ClientSession, FiniteSetTheorems, TLAPS

-----------------------------------------------------------------------------
(* Type correctness.  The queue behind a refresh is part of it; the other    *)
(* conjuncts of TypeOK have a name of their own here.                        *)

Waiting == {r \in Requests : req[r].phase = "waiting"}

Typed ==
  /\ app \in {"console", "mini"} /\ page \in {"login", "inside"}
  /\ store \in Store /\ login \in Users \cup {None}
  /\ req \in [Requests -> Request]
  /\ refresh \in Users \cup {None} /\ active \subseteq Users
  /\ badge \in 0..1 /\ last \in -1..1 /\ running \in BOOLEAN
  /\ asks \in 0..MaxAsks /\ expiries \in 0..MaxExpiries /\ faults \in 0..MaxFaults
  /\ held \in Users \cup {None} /\ raced \in BOOLEAN

Queue ==
  /\ InQueue # {} => refresh # None
  /\ refresh # None => Cardinality(Waiting) = 1

LEMMA TypeIsTypedAndQueue == TypeOK <=> Typed /\ Queue
  BY DEF TypeOK, Typed, Queue, Waiting

LEMMA BlankIsStore == Blank \in Store /\ Idle \in Request
  BY DEF Blank, Store, Idle, Request

LEMMA NewTokens ==
  ASSUME NEW u \in Users, NEW b \in BOOLEAN
  PROVE  [of |-> u, live |-> b] \in Token /\ [of |-> u, live |-> b] # None
  BY NoneAssumption DEF Token

LEMMA TypedInitially == Init => Typed
  <1> SUFFICES ASSUME Init PROVE Typed
    OBVIOUS
  <1>1. asks \in 0..MaxAsks /\ expiries \in 0..MaxExpiries /\ faults \in 0..MaxFaults
    BY BoundsAssumption DEF Init
  <1>2. last \in -1..1 /\ badge \in 0..1
    BY DEF Init
  <1>3. store \in Store /\ req \in [Requests -> Request]
    BY BlankIsStore DEF Init
  <1>4. QED
    BY <1>1, <1>2, <1>3 DEF Init, Typed

\* A store, a token and a request taken apart.
LEMMA StoreFields ==
  ASSUME NEW s \in Store
  PROVE  /\ s.token \in Token \cup {None} /\ s.refresh \in Users \cup {None}
         /\ s.user \in Users \cup {None}
         /\ \A t \in Token \cup {None}, u \in Users \cup {None} :
              /\ [s EXCEPT !.token = t] \in Store
              /\ [s EXCEPT !.token = t, !.refresh = u] \in Store
  BY DEF Store

LEMMA RequestFields ==
  ASSUME NEW q \in Request
  PROVE  /\ q.phase \in {"idle", "sent", "waiting", "queued"}
         /\ q.token \in Token \cup {None} /\ q.again \in BOOLEAN
         /\ q.kind \in {"plain", "profile", "badge"}
         /\ \A t \in Token \cup {None}, p \in {"idle", "sent", "waiting", "queued"}, b \in BOOLEAN :
              /\ [q EXCEPT !.token = t] \in Request
              /\ [q EXCEPT !.phase = p] \in Request
              /\ [q EXCEPT !.phase = p, !.token = t] \in Request
              /\ [q EXCEPT !.phase = p, !.token = t, !.again = b] \in Request
              /\ \A k \in {"plain", "profile", "badge"} :
                   [q EXCEPT !.phase = p, !.token = t, !.kind = k] \in Request
  BY DEF Request

LEMMA SettledIsTyped ==
  ASSUME Typed, NEW R
  PROVE  Settled(R) \in [Requests -> Request]
  BY BlankIsStore DEF Typed, Settled

\* What forceLogout leaves behind.
LEMMA LogoutIsTyped ==
  ASSUME Typed, NEW R, ForceLogout(R), refresh' \in Users \cup {None}
  PROVE  /\ store' \in Store /\ page' \in {"login", "inside"}
         /\ req' \in [Requests -> Request]
         /\ badge' \in 0..1 /\ last' \in -1..1 /\ running' \in BOOLEAN /\ raced' \in BOOLEAN
  <1>1. Settled(IF Reloads THEN Requests ELSE R) \in [Requests -> Request]
    BY SettledIsTyped
  <1>2. last' \in -1..1 /\ running' \in BOOLEAN
    BY DEF Typed, ForceLogout, Shrugged
  <1>3. QED
    BY <1>1, <1>2, BlankIsStore DEF Typed, ForceLogout

LEMMA TypedPreserved == Typed /\ [Next]_vars => Typed'
  <1> SUFFICES ASSUME Typed, [Next]_vars PROVE Typed'
    OBVIOUS
  <1> USE DEF Typed, badgeVars
  <1>a. /\ \A a \in 0..MaxAsks : a < MaxAsks => a + 1 \in 0..MaxAsks
        /\ \A a \in 0..MaxExpiries : a < MaxExpiries => a + 1 \in 0..MaxExpiries
        /\ \A a \in 0..MaxFaults : a < MaxFaults => a + 1 \in 0..MaxFaults
    BY BoundsAssumption
  <1>b. \A r \in Requests : req[r] \in Request
    OBVIOUS
  <1>1. ASSUME NEW u \in Users, LoginSend(u) PROVE Typed'
    BY <1>1, <1>a DEF LoginSend, Counts
  <1>2. ASSUME NEW u \in Users, Disable(u) PROVE Typed'
    BY <1>2 DEF Disable
  <1>3. ASSUME LoginOk PROVE Typed'
    <2>1. login \in Users
      BY <1>3 DEF LoginOk
    <2>2. store' \in Store
      BY <1>3, <2>1 DEF LoginOk, Store, Token
    <2>3. QED
      BY <1>3, <2>1, <2>2 DEF LoginOk
  <1>4. ASSUME LoginFail PROVE Typed'
    <2>1. CASE /\ app = "console" /\ refresh' = (IF Reloads THEN None ELSE refresh)
               /\ ForceLogout({}) /\ held' = None /\ UNCHANGED faults
      BY <1>4, <2>1, LogoutIsTyped DEF LoginFail
    <2>2. CASE /\ faults < MaxFaults /\ faults' = faults + 1
               /\ UNCHANGED <<page, store, req, refresh, badgeVars, held, raced>>
      BY <1>4, <2>2, <1>a DEF LoginFail
    <2>3. QED
      BY <1>4, <2>1, <2>2 DEF LoginFail
  <1>5. ASSUME Logout PROVE Typed'
    BY <1>5, BlankIsStore DEF Logout
  <1>6. ASSUME Navigate PROVE Typed'
    BY <1>6 DEF Navigate
  <1>7. ASSUME Restart PROVE Typed'
    <2>1. \A t \in Token \cup {None} :
            [Idle EXCEPT !.phase = "sent", !.token = t, !.kind = "profile"] \in Request
      BY BlankIsStore, RequestFields
    <2>2. store.token \in Token \cup {None}
      BY StoreFields
    <2>3. req' \in [Requests -> Request]
      BY <1>7, <2>1, <2>2, BlankIsStore DEF Restart
    <2>4. asks' \in 0..MaxAsks
      BY <1>7, <1>a DEF Restart, Counts
    <2>5. QED
      BY <1>7, <2>3, <2>4 DEF Restart
  <1>8. ASSUME NEW r \in Requests, Ask(r) PROVE Typed'
    <2>1. [Idle EXCEPT !.phase = "sent", !.token = store.token] \in Request
      BY BlankIsStore, RequestFields, StoreFields
    <2>2. QED
      BY <1>8, <2>1, <1>a DEF Ask, Counts
  <1>9. ASSUME NEW r \in Requests, Tick(r) PROVE Typed'
    <2>1. [Idle EXCEPT !.phase = "sent", !.token = store.token, !.kind = "badge"] \in Request
      BY BlankIsStore, RequestFields, StoreFields
    <2>2. QED
      BY <1>9, <2>1 DEF Tick
  <1>10. ASSUME TickOut PROVE Typed'
    BY <1>10 DEF TickOut, Apply
  <1>11. ASSUME ShowOrHide PROVE Typed'
    BY <1>11 DEF ShowOrHide
  <1>12. ASSUME NEW r \in Requests, Served(r) PROVE Typed'
    <2>1. req' \in [Requests -> Request]
      BY <1>12, SettledIsTyped DEF Served
    <2>2. badge' \in 0..1 /\ last' \in -1..1
      BY <1>12 DEF Served, Apply
    <2>3. QED
      BY <1>12, <2>1, <2>2 DEF Served
  <1>13. ASSUME NEW r \in Requests, Unauthorized(r) PROVE Typed'
    <2>1. refresh' \in Users \cup {None}
      BY <1>13, StoreFields DEF Unauthorized
    <2>2. CASE ForceLogout({r}) /\ KeepsLogin
      BY <1>13, <2>1, <2>2, LogoutIsTyped DEF Unauthorized, KeepsLogin
    <2>3. CASE /\ \/ req' = Settled({r})
                  \/ \E p \in {"waiting", "queued"} : req' = [req EXCEPT ![r].phase = p]
               /\ UNCHANGED <<page, store, login, badgeVars, raced>>
      <3>1. ASSUME NEW p \in {"waiting", "queued"}
            PROVE  [req EXCEPT ![r].phase = p] \in [Requests -> Request]
        BY <1>b, RequestFields
      <3>2. req' \in [Requests -> Request]
        BY <2>3, <3>1, SettledIsTyped
      <3>3. QED
        BY <1>13, <2>1, <2>3, <3>2 DEF Unauthorized
    <2>4. QED
      BY <1>13, <2>2, <2>3 DEF Unauthorized
  <1>14. ASSUME NEW r \in Requests, Lost(r) PROVE Typed'
    <2>1. req' \in [Requests -> Request]
      BY <1>14, SettledIsTyped DEF Lost
    <2>2. last' \in -1..1 /\ running' \in BOOLEAN /\ badge' \in 0..1
      BY <1>14 DEF Lost, Shrugged
    <2>3. faults' \in 0..MaxFaults
      BY <1>14, <1>a DEF Lost
    <2>4. store' \in Store /\ held' \in Users \cup {None} /\ raced' \in BOOLEAN
      BY <1>14, BlankIsStore DEF Lost
    <2>5. QED
      BY <1>14, <2>1, <2>2, <2>3, <2>4 DEF Lost
  <1>15. ASSUME Expire PROVE Typed'
    <2>1. \A t \in Token \cup {None} :
            (IF t = None THEN None ELSE [t EXCEPT !.live = FALSE]) \in Token \cup {None}
      BY DEF Token
    <2>2. store' \in Store
      BY <1>15, <2>1, StoreFields DEF Expire
    <2>3. req' \in [Requests -> Request]
      BY <1>15, <2>1, <1>b, RequestFields DEF Expire
    <2>4. QED
      BY <1>15, <2>2, <2>3, <1>a DEF Expire
  <1>16. ASSUME Refreshed PROVE Typed'
    <2>1. refresh \in Users /\ [of |-> refresh, live |-> TRUE] \in Token
      BY <1>16 DEF Refreshed, Token
    <2>2. store' \in Store
      BY <1>16, <2>1, StoreFields DEF Refreshed
    <2>3. req' \in [Requests -> Request]
      BY <1>16, <2>1, <1>b, RequestFields DEF Refreshed
    <2>4. QED
      BY <1>16, <2>2, <2>3 DEF Refreshed
  <1>17. ASSUME RefreshFails PROVE Typed'
    BY <1>17, <1>a, LogoutIsTyped DEF RefreshFails, KeepsLogin
  <1>18. CASE UNCHANGED vars
    BY <1>18 DEF vars
  <1>19. QED
    BY <1>1, <1>2, <1>3, <1>4, <1>5, <1>6, <1>7, <1>8, <1>9, <1>10, <1>11, <1>12, <1>13,
       <1>14, <1>15, <1>16, <1>17, <1>18 DEF Next

-----------------------------------------------------------------------------
(* The queue behind a refresh *)

\* Requests that are not in the queue may come and go.
LEMMA QueueUnchanged ==
  ASSUME Queue, InQueue' = InQueue, Waiting' = Waiting, refresh' = refresh
  PROVE  Queue'
  BY DEF Queue

LEMMA NobodyInQueue ==
  ASSUME InQueue' = {}, refresh' = None
  PROVE  Queue'
  BY DEF Queue

\* One request outside the queue changes and stays outside of it.
LEMMA OneOutside ==
  ASSUME Typed, Queue, NEW r \in Requests, req[r].phase \in {"idle", "sent"},
         \A x \in Requests \ {r} : req'[x] = req[x],
         req'[r].phase \in {"idle", "sent"}, refresh' = refresh
  PROVE  Queue'
  <1>1. InQueue' = InQueue /\ Waiting' = Waiting
    BY DEF Typed, InQueue, Waiting
  <1>2. QED
    BY <1>1, QueueUnchanged

LEMMA QueuePreserved == Typed /\ Queue /\ [Next]_vars => Queue'
  <1> SUFFICES ASSUME Typed, Queue, [Next]_vars PROVE Queue'
    OBVIOUS
  <1>a. /\ Idle.phase = "idle"
        /\ \A t, k : [Idle EXCEPT !.phase = "sent", !.token = t, !.kind = k].phase = "sent"
        /\ \A t : [Idle EXCEPT !.phase = "sent", !.token = t].phase = "sent"
    BY DEF Idle
  <1>b. ASSUME NEW R, R \cap InQueue = {}, req' = Settled(R) PROVE InQueue' = InQueue /\ Waiting' = Waiting
    BY <1>a, <1>b DEF Settled, InQueue, Waiting
  <1>c. ASSUME NEW R, InQueue \subseteq R, req' = Settled(R) PROVE InQueue' = {}
    BY <1>a, <1>c DEF Settled, InQueue
  <1>1. ASSUME UNCHANGED <<req, refresh>> PROVE Queue'
    BY <1>1, QueueUnchanged DEF InQueue, Waiting
  <1>2. ASSUME NEW u \in Users, LoginSend(u) \/ Disable(u) PROVE Queue'
    BY <1>1, <1>2 DEF LoginSend, Disable
  <1>3. CASE LoginOk \/ Logout \/ Navigate \/ TickOut \/ ShowOrHide
    BY <1>1, <1>3 DEF LoginOk, Logout, Navigate, TickOut, ShowOrHide
  <1>4. ASSUME LoginFail PROVE Queue'
    <2>1. CASE UNCHANGED <<req, refresh>>
      BY <1>1, <2>1
    <2>2. CASE ForceLogout({}) /\ refresh' = (IF Reloads THEN None ELSE refresh)
      <3>1. CASE Reloads
        <4>1. req' = Settled(Requests) /\ InQueue \subseteq Requests
          BY <2>2, <3>1 DEF ForceLogout, InQueue
        <4>2. QED
          BY <2>2, <3>1, <4>1, <1>c, NobodyInQueue
      <3>2. CASE ~Reloads
        BY <2>2, <3>2, <1>b, QueueUnchanged DEF ForceLogout
      <3>3. QED
        BY <3>1, <3>2
    <2>3. QED
      BY <1>4, <2>1, <2>2 DEF LoginFail
  <1>5. ASSUME Restart PROVE Queue'
    <2>1. \A r \in Requests : req'[r].phase \in {"idle", "sent"}
      BY <1>5, <1>a DEF Restart
    <2>2. QED
      BY <1>5, <2>1, NobodyInQueue DEF Restart, InQueue
  <1>6. ASSUME NEW r \in Requests, Ask(r) PROVE Queue'
    <2>1. /\ req[r].phase \in {"idle", "sent"} /\ req'[r].phase \in {"idle", "sent"}
          /\ \A x \in Requests \ {r} : req'[x] = req[x]
      BY <1>6, <1>a DEF Ask, Typed
    <2>2. QED
      BY <1>6, <2>1, OneOutside DEF Ask
  <1>7. ASSUME NEW r \in Requests, Tick(r) PROVE Queue'
    <2>1. /\ req[r].phase \in {"idle", "sent"} /\ req'[r].phase \in {"idle", "sent"}
          /\ \A x \in Requests \ {r} : req'[x] = req[x]
      BY <1>7, <1>a DEF Tick, Typed
    <2>2. QED
      BY <1>7, <2>1, OneOutside DEF Tick
  <1>8. ASSUME NEW r \in Requests, Served(r) \/ Lost(r) PROVE Queue'
    <2>1. {r} \cap InQueue = {} /\ req' = Settled({r}) /\ refresh' = refresh
      BY <1>8 DEF Served, Lost, InQueue
    <2>2. QED
      BY <2>1, <1>b, QueueUnchanged
  <1>9. ASSUME NEW r \in Requests, Unauthorized(r) PROVE Queue'
    <2> DEFINE starts == ~req[r].again /\ ~Queues(r)
               ends == IF req[r].again THEN app = "mini" ELSE starts /\ store.refresh = None
    <2>1. {r} \cap InQueue = {} /\ req[r].phase = "sent" /\ r \notin Waiting
      BY <1>9 DEF Unauthorized, InQueue, Waiting
    <2>2. CASE ends /\ Reloads
      <3>1. refresh' = None /\ req' = Settled(Requests) /\ InQueue \subseteq Requests
        BY <1>9, <2>2 DEF Unauthorized, ForceLogout, InQueue
      <3>2. QED
        BY <3>1, <1>c, NobodyInQueue
    <2>3. CASE ends /\ ~Reloads
      <3>1. refresh' = refresh /\ req' = Settled({r})
        BY <1>9, <2>3 DEF Unauthorized, ForceLogout, Queues
      <3>2. QED
        BY <3>1, <2>1, <1>b, QueueUnchanged
    <2>4. CASE ~ends /\ req[r].again
      BY <1>9, <2>1, <2>4, <1>b, QueueUnchanged DEF Unauthorized
    <2>5. CASE ~ends /\ ~req[r].again /\ starts
      <3>1. refresh = None /\ InQueue = {} /\ refresh' = store.refresh /\ refresh' # None
        BY <1>9, <2>5 DEF Unauthorized, Queues, Queue
      <3>2. req' = [req EXCEPT ![r].phase = "waiting"]
        BY <1>9, <2>5 DEF Unauthorized
      <3>3. Waiting' = {r}
        BY <3>1, <3>2 DEF Waiting, InQueue, Typed, Request
      <3>4. QED
        BY <3>1, <3>3, FS_Singleton DEF Queue
    <2>6. CASE ~ends /\ ~req[r].again /\ ~starts
      <3>1. refresh' = refresh /\ refresh # None /\ req' = [req EXCEPT ![r].phase = "queued"]
        BY <1>9, <2>6 DEF Unauthorized, Queues
      <3>2. Waiting' = Waiting
        BY <3>1, <2>1 DEF Waiting, Typed, Request
      <3>3. QED
        BY <3>1, <3>2 DEF Queue
    <2>7. QED
      BY <2>2, <2>3, <2>4, <2>5, <2>6
  <1>10. ASSUME Expire PROVE Queue'
    <2>1. \A r \in Requests : req'[r].phase = req[r].phase
      BY <1>10 DEF Expire, Typed, Request
    <2>2. QED
      BY <1>10, <2>1, QueueUnchanged DEF Expire, InQueue, Waiting
  <1>11. ASSUME Refreshed PROVE Queue'
    <2>1. \A r \in Requests : req'[r].phase \notin {"waiting", "queued"}
      BY <1>11 DEF Refreshed, InQueue, Typed, Request
    <2>2. QED
      BY <1>11, <2>1, NobodyInQueue DEF Refreshed, InQueue
  <1>12. ASSUME RefreshFails PROVE Queue'
    <2>1. /\ req' = Settled(IF Reloads THEN Requests ELSE InQueue)
          /\ InQueue \subseteq Requests /\ refresh' = None
      BY <1>12 DEF RefreshFails, ForceLogout, InQueue
    <2>2. QED
      BY <2>1, <1>c, NobodyInQueue
  <1>13. CASE UNCHANGED vars
    BY <1>1, <1>13 DEF vars
  <1>14. QED
    BY <1>2, <1>3, <1>4, <1>5, <1>6, <1>7, <1>8, <1>9, <1>10, <1>11, <1>12, <1>13 DEF Next

\* The variables of every reachable state have their types; requests queue only behind
\* a refresh under way, and exactly one of them has started it.
THEOREM TypeCorrect == Spec => []TypeOK
  <1>1. Init => Typed /\ Queue
    <2> SUFFICES ASSUME Init PROVE Typed /\ Queue
      OBVIOUS
    <2>1. Typed
      BY TypedInitially
    <2>2. InQueue = {}
      BY DEF Init, InQueue, Idle
    <2>3. QED
      BY <2>1, <2>2 DEF Init, Queue
  <1>2. Typed /\ Queue /\ [Next]_vars => Typed' /\ Queue'
    BY TypedPreserved, QueuePreserved
  <1>3. QED
    BY <1>1, <1>2, TypeIsTypedAndQueue, PTL DEF Spec

-----------------------------------------------------------------------------
(* One account *)

\* What makes OneAccountUnlessRaced and ExpiryKeepsSession inductive: a refresh that
\* was not raced exchanges the refresh token that is in the storage, who holds a session
\* is not disabled, and a request that is repeated has a token that has not expired.
SessionInv ==
  /\ OneAccountUnlessRaced
  /\ ~raced /\ refresh # None => refresh = store.refresh
  /\ held # None => held \in active
  /\ ExpiryKeepsSession
  /\ \A r \in Requests : req[r].phase = "sent" /\ req[r].again => Live(req[r].token)

LEMMA OneAccountFields ==
  ASSUME Typed, OneAccountUnlessRaced, ~raced
  PROVE  /\ store.refresh = store.user
         /\ store.token = None <=> store.user = None
         /\ store.token # None => store.token.of = store.user
  BY NoneAssumption DEF OneAccountUnlessRaced, Typed

LEMMA OneAccountIfEqual ==
  ASSUME Typed', store'.refresh = store'.user,
         store'.token = None <=> store'.user = None,
         store'.token # None => store'.token.of = store'.user
  PROVE  OneAccountUnlessRaced'
  <1>1. store'.user \in Users \cup {None}
    BY StoreFields DEF Typed, Store
  <1>2. QED
    BY <1>1 DEF OneAccountUnlessRaced

LEMMA BlankIsOneAccount ==
  ASSUME store' = Blank
  PROVE  OneAccountUnlessRaced'
  BY DEF OneAccountUnlessRaced, Blank

\* A repeated request keeps its new token until it is answered.
LEMMA RetriesLive ==
  ASSUME Typed, SessionInv, [Next]_vars
  PROVE  \A r \in Requests : req'[r].phase = "sent" /\ req'[r].again => Live(req'[r].token)
  <1> SUFFICES ASSUME NEW r \in Requests, req'[r].phase = "sent", req'[r].again
               PROVE  Live(req'[r].token)
    OBVIOUS
  <1> DEFINE Kept == req'[r] = req[r]
  <1>a. Kept => Live(req'[r].token)
    BY DEF SessionInv
  <1>b. /\ Idle.phase = "idle" /\ ~Idle.again
        /\ \A t, k : ~[Idle EXCEPT !.phase = "sent", !.token = t, !.kind = k].again
        /\ \A t : ~[Idle EXCEPT !.phase = "sent", !.token = t].again
    BY DEF Idle
  <1>c. ASSUME NEW R, req' = Settled(R) PROVE Kept
    BY <1>b, <1>c DEF Settled
  <1>1. ASSUME NEW u \in Users, LoginSend(u) \/ Disable(u) PROVE Kept
    BY <1>1 DEF LoginSend, Disable
  <1>2. CASE LoginOk \/ Logout \/ Navigate \/ TickOut \/ ShowOrHide
    BY <1>2, <1>a DEF LoginOk, Logout, Navigate, TickOut, ShowOrHide
  <1>3. CASE LoginFail
    BY <1>3, <1>a, <1>c DEF LoginFail, ForceLogout
  <1>4. CASE Restart
    BY <1>4, <1>b DEF Restart
  <1>5. ASSUME NEW x \in Requests, Ask(x) PROVE Kept
    BY <1>5, <1>b DEF Ask, Typed
  <1>6. ASSUME NEW x \in Requests, Tick(x) PROVE Kept
    BY <1>6, <1>b DEF Tick, Typed
  <1>7. ASSUME NEW x \in Requests, Served(x) \/ Lost(x) PROVE Kept
    BY <1>7, <1>c DEF Served, Lost
  <1>8. ASSUME NEW x \in Requests, Unauthorized(x) PROVE Kept
    BY <1>8, <1>c DEF Unauthorized, ForceLogout, Typed, Request
  <1>9. CASE Expire
    BY <1>9 DEF Expire, Typed, Request
  <1>10. CASE Refreshed
    <2>1. CASE r \in InQueue
      <3>1. req'[r].token = [of |-> refresh, live |-> TRUE] /\ refresh \in Users
        BY <1>10, <2>1 DEF Refreshed, Typed, Request
      <3>2. req'[r].token # None
        BY <3>1, NewTokens
      <3>3. QED
        BY <3>1, <3>2 DEF Live
    <2>2. QED
      BY <1>10, <2>1, <1>a DEF Refreshed
  <1>11. CASE RefreshFails
    BY <1>11, <1>a, <1>c DEF RefreshFails, ForceLogout
  <1>12. CASE UNCHANGED vars
    BY <1>12, <1>a DEF vars
  <1>13. QED
    BY <1>a, <1>1, <1>2, <1>3, <1>4, <1>5, <1>6, <1>7, <1>8, <1>9, <1>10, <1>11, <1>12 DEF Next

\* Who has nothing but what was there keeps the session.
LEMMA SessionUnchanged ==
  ASSUME SessionInv, UNCHANGED <<store, refresh, active, held, raced>>
  PROVE  /\ OneAccountUnlessRaced'
         /\ ~raced' /\ refresh' # None => refresh' = store'.refresh
         /\ held' # None => held' \in active'
         /\ ExpiryKeepsSession'
  BY DEF SessionInv, OneAccountUnlessRaced, ExpiryKeepsSession

LEMMA SessionPreserved == Typed /\ SessionInv /\ [Next]_vars => SessionInv'
  <1> SUFFICES ASSUME Typed, SessionInv, [Next]_vars PROVE SessionInv'
    OBVIOUS
  <1> DEFINE Session == /\ OneAccountUnlessRaced
                        /\ ~raced /\ refresh # None => refresh = store.refresh
                        /\ held # None => held \in active
                        /\ ExpiryKeepsSession
  <1>a. SUFFICES Session'
    BY RetriesLive DEF SessionInv
  <1>b. Typed'
    BY TypedPreserved
  <1>c. ASSUME UNCHANGED <<store, refresh, active, held, raced>> PROVE Session'
    BY <1>c, SessionUnchanged
  <1>d. /\ Blank.token = None /\ Blank.refresh = None /\ Blank.user = None
    BY DEF Blank
  <1>e. ~raced /\ held # None =>
          store.user = held /\ store.refresh = held /\ (refresh # None => refresh = held)
    BY OneAccountFields DEF SessionInv, ExpiryKeepsSession
  <1> HIDE DEF Session
  <1>1. ASSUME NEW u \in Users, LoginSend(u) PROVE Session'
    BY <1>1, <1>c DEF LoginSend
  <1>2. ASSUME NEW u \in Users, Disable(u) PROVE Session'
    BY <1>2 DEF Disable, Session, SessionInv, OneAccountUnlessRaced, ExpiryKeepsSession
  <1>3. CASE LoginOk
    <2>1. login \in Users /\ [of |-> login, live |-> TRUE] # None
      BY <1>3, NewTokens DEF LoginOk, Typed
    <2>2. /\ store'.refresh = login /\ store'.user = login
          /\ store'.token # None /\ store'.token.of = login
      BY <1>3, <2>1 DEF LoginOk
    <2>3. OneAccountUnlessRaced'
      BY <2>2, <1>b, <2>1, NoneAssumption, OneAccountIfEqual
    <2>4. QED
      BY <1>3, <2>2, <2>3 DEF LoginOk, Session, ExpiryKeepsSession
  <1>4. CASE LoginFail
    <2>1. CASE UNCHANGED <<store, refresh, held, raced>>
      BY <1>4, <2>1, <1>c DEF LoginFail
    <2>2. CASE ForceLogout({}) /\ held' = None
      BY <2>2, <1>d, BlankIsOneAccount DEF ForceLogout, Session, ExpiryKeepsSession
    <2>3. QED
      BY <1>4, <2>1, <2>2 DEF LoginFail
  <1>5. CASE Logout
    BY <1>5, BlankIsOneAccount DEF Logout, Session, ExpiryKeepsSession
  <1>6. CASE Navigate \/ TickOut \/ ShowOrHide
    BY <1>6, <1>c DEF Navigate, TickOut, ShowOrHide
  <1>7. CASE Restart
    BY <1>7 DEF Restart, Session, SessionInv, OneAccountUnlessRaced, ExpiryKeepsSession
  <1>8. ASSUME NEW r \in Requests, Ask(r) \/ Tick(r) \/ Served(r) PROVE Session'
    BY <1>8, <1>c DEF Ask, Tick, Served
  <1>9. ASSUME NEW r \in Requests, Unauthorized(r) PROVE Session'
    <2> DEFINE starts == ~req[r].again /\ ~Queues(r)
               ends == IF req[r].again THEN app = "mini" ELSE starts /\ store.refresh = None
    <2>1. ~req[r].again
      BY <1>9 DEF Unauthorized, SessionInv
    <2>2. CASE ends
      <3>1. starts /\ store.refresh = None /\ ForceLogout({r}) /\ UNCHANGED <<active, held>>
        BY <1>9, <2>1, <2>2 DEF Unauthorized
      <3>2. refresh' = None
        BY <1>9, <2>1, <3>1 DEF Unauthorized
      <3>3. raced' = raced /\ store' = Blank
        BY <3>1, <3>2 DEF ForceLogout, Typed
      <3>4. ~raced => held = None
        BY <3>1, <1>e, NoneAssumption
      <3>5. QED
        BY <3>1, <3>2, <3>3, <3>4, BlankIsOneAccount DEF Session, SessionInv, ExpiryKeepsSession
    <2>3. CASE ~ends /\ starts
      <3>1. refresh' = store.refresh /\ UNCHANGED <<store, active, held, raced>>
        BY <1>9, <2>1, <2>3 DEF Unauthorized
      <3>2. QED
        BY <3>1 DEF Session, SessionInv, OneAccountUnlessRaced, ExpiryKeepsSession
    <2>4. CASE ~ends /\ ~starts
      BY <1>9, <2>1, <2>4, <1>c DEF Unauthorized
    <2>5. QED
      BY <2>2, <2>3, <2>4
  <1>10. ASSUME NEW r \in Requests, Lost(r) PROVE Session'
    <2>1. CASE req[r].kind = "profile"
      <3>1. store' = Blank /\ held' = None /\ refresh' = refresh /\ (refresh # None => raced')
        BY <1>10, <2>1 DEF Lost
      <3>2. QED
        BY <3>1, BlankIsOneAccount DEF Session, ExpiryKeepsSession
    <2>2. CASE req[r].kind # "profile"
      <3>1. raced' = raced
        BY <1>10, <2>2 DEF Lost, Typed
      <3>2. QED
        BY <1>10, <2>2, <3>1, <1>c DEF Lost
    <2>3. QED
      BY <2>1, <2>2
  <1>11. CASE Expire
    <2>1. /\ store'.refresh = store.refresh /\ store'.user = store.user
          /\ store'.token = None <=> store.token = None
          /\ store.token # None => store'.token.of = store.token.of
      BY <1>11, NoneAssumption DEF Expire, Typed, Store, Token
    <2>2. UNCHANGED <<refresh, active, held, raced>>
      BY <1>11 DEF Expire
    <2>3. ~raced => OneAccountUnlessRaced'
      BY <2>1, <1>b, OneAccountFields, OneAccountIfEqual DEF SessionInv
    <2>4. OneAccountUnlessRaced'
      BY <2>2, <2>3 DEF OneAccountUnlessRaced
    <2>5. QED
      BY <2>1, <2>2, <2>4 DEF Session, SessionInv, ExpiryKeepsSession
  <1>12. CASE Refreshed
    <2>1. refresh \in Users /\ refresh # None /\ [of |-> refresh, live |-> TRUE] # None
      BY <1>12, NewTokens, NoneAssumption DEF Refreshed, Typed
    <2>2. /\ store'.refresh = refresh /\ store'.user = store.user
          /\ store'.token # None /\ store'.token.of = refresh
      BY <1>12, <2>1 DEF Refreshed, Typed, Store
    <2>3. ~raced => store.user = refresh
      BY <2>1, OneAccountFields DEF SessionInv
    <2>4. ~raced => OneAccountUnlessRaced'
      BY <2>1, <2>2, <2>3, <1>b, NoneAssumption, OneAccountIfEqual
    <2>5. OneAccountUnlessRaced'
      BY <1>12, <2>4 DEF OneAccountUnlessRaced, Refreshed
    <2>6. QED
      BY <1>12, <2>2, <2>5 DEF Refreshed, Session, SessionInv, ExpiryKeepsSession
  <1>13. CASE RefreshFails
    <2>1. /\ store' = Blank /\ refresh' = None /\ raced' = raced /\ active' = active
          /\ refresh # None /\ (held' = None \/ (refresh \notin active /\ held' = held))
      BY <1>13 DEF RefreshFails, ForceLogout, Typed
    <2>2. ~raced => held' = None
      BY <2>1, <1>e DEF SessionInv
    <2>3. QED
      BY <2>1, <2>2, BlankIsOneAccount DEF Session, SessionInv, ExpiryKeepsSession
  <1>14. CASE UNCHANGED vars
    BY <1>14, <1>c DEF vars
  <1>15. QED
    BY <1>1, <1>2, <1>3, <1>4, <1>5, <1>6, <1>7, <1>8, <1>9, <1>10, <1>11, <1>12, <1>13,
       <1>14 DEF Next

LEMMA SessionInvariant == Spec => []SessionInv
  <1>1. Init => Typed /\ SessionInv
    <2> SUFFICES ASSUME Init PROVE Typed /\ SessionInv
      OBVIOUS
    <2>1. Typed
      BY TypedInitially
    <2>2. OneAccountUnlessRaced
      BY DEF Init, OneAccountUnlessRaced, Blank
    <2>3. QED
      BY <2>1, <2>2 DEF Init, SessionInv, ExpiryKeepsSession, Idle
  <1>2. Typed /\ SessionInv /\ [Next]_vars => Typed' /\ SessionInv'
    BY TypedPreserved, SessionPreserved
  <1>3. QED
    BY <1>1, <1>2, PTL DEF Spec

\* The tokens and the user in the storage are of one account, unless the session was
\* ended or replaced during a refresh.
THEOREM OneAccount == Spec => []OneAccountUnlessRaced
  BY SessionInvariant, PTL DEF SessionInv

\* Who has had no reason to be logged out is logged in, however many requests meet the
\* expired token.
THEOREM ExpiryIsHarmless == Spec => []ExpiryKeepsSession
  BY SessionInvariant, PTL DEF SessionInv
=============================================================================
