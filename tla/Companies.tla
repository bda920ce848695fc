------------------------------- MODULE Companies -------------------------------
(***************************************************************************)
(* Companies on the platform.  A company registers (registerEnterprise of      *)
(* auth.service.ts); the staff approve, reject, freeze and unfreeze it        *)
(* (platform.service.ts) with the links of a list (CompanyListPage.vue); and   *)
(* a clerk of it logs in and has the tokens renewed (loginEnterprise,         *)
(* refreshToken), whom the super admin disables and enables.                  *)
(***************************************************************************)
EXTENDS Integers, FiniteSets

CONSTANTS
  Firms,              \* credit codes, which are unique
  MaxLoads,           \* bound: lists that are on their way
  MaxCalls, MaxFaults \* bounds: calls of the handlers, calls that stop half way

VARIABLES
  firm,      \* status of each company, as in the schema
  approved,  \* whether approvedAt is set
  logged,      \* what the audit log says of it last
  seen,      \* the status its row in the list shows
  loads,     \* lists that are on their way to the page
  clerk,     \* status of the account
  session,   \* of the clerk: the access token is good, only the refresh token is, neither
  run,       \* calls under way
  raced,     \* history: companies on which rulings overlapped, or one stopped half way
  calls, faults

platform == <<firm, approved, logged>>
page == <<seen, loads>>
tokens == <<clerk, session>>
vars == <<platform, page, tokens, run, raced, calls, faults>>

Status == {"none", "pending", "active", "suspended"}
Rulings == {"approve", "reject", "freeze", "unfreeze"}
Call == [n: Nat, op: {"register", "login"} \cup Rulings, on: Firms, step: {"write", "log"}]

Init ==
  /\ firm = [f \in Firms |-> "none"] /\ approved = [f \in Firms |-> FALSE]
  /\ logged = [f \in Firms |-> "none"]
  /\ seen = firm /\ loads = {}
  /\ clerk = [f \in Firms |-> "active"] /\ session = [f \in Firms |-> "none"]
  /\ run = {} /\ raced = {} /\ calls = 0 /\ faults = 0

Begin(op, f, step) ==
  /\ calls < MaxCalls /\ calls' = calls + 1
  /\ run' = run \cup {[n |-> calls, op |-> op, on |-> f, step |-> step]}
  /\ raced' = raced \cup {h.on : h \in {g \in run : g.on = f /\ {op, g.op} \subseteq Rulings}}
  /\ UNCHANGED <<platform, page, tokens, faults>>

Ends(h) == h \in run /\ run' = run \ {h}
Keeps == UNCHANGED <<raced, calls, faults>>

-----------------------------------------------------------------------------
(* Registration *)

RegisterRead(f) == firm[f] = "none" /\ Begin("register", f, "write")

\* The company and its super admin, in one transaction; the code is unique.
RegisterWrite(h) ==
  /\ h.op = "register" /\ Ends(h)
  /\ firm' = [firm EXCEPT ![h.on] = IF @ = "none" THEN "pending" ELSE @]
  /\ UNCHANGED <<approved, logged, page, tokens>> /\ Keeps

-----------------------------------------------------------------------------
(* The list *)

\* load, with every ruling and when the page is opened: the answers come in any order.
Load ==
  /\ Cardinality(loads) < MaxLoads /\ loads' = loads \cup {firm}
  /\ UNCHANGED <<platform, seen, tokens, run>> /\ Keeps

ShowList(rows) ==
  /\ seen' = rows /\ loads' = loads \ {rows}
  /\ UNCHANGED <<platform, tokens, run>> /\ Keeps

\* The links of a row.  reject has none.
Link(f) ==
  CASE seen[f] = "pending" -> {"approve"} [] seen[f] = "active" -> {"freeze"}
    [] seen[f] = "suspended" -> {"unfreeze"} [] OTHER -> {}

-----------------------------------------------------------------------------
(* Rulings *)

\* What the handlers require.
Possible(op, status) ==
  CASE op \in {"approve", "reject"} -> status = "pending"
    [] op = "freeze" -> status \in {"pending", "active"}
    [] op = "unfreeze" -> status = "suspended"

RulingRead(f, op) ==
  /\ op \in Link(f) \cup {"reject"} /\ Possible(op, firm[f])
  /\ Begin(op, f, IF op = "reject" THEN "log" ELSE "write")

\* By id; approving sets approvedAt.
RulingWrite(h) ==
  /\ h \in run /\ h.op \in Rulings /\ h.step = "write"
  /\ firm' = [firm EXCEPT ![h.on] = IF h.op = "freeze" THEN "suspended" ELSE "active"]
  /\ approved' = [approved EXCEPT ![h.on] = @ \/ h.op = "approve"]
  /\ run' = (run \ {h}) \cup {[h EXCEPT !.step = "log"]}
  /\ UNCHANGED <<logged, page, tokens>> /\ Keeps

\* _auditLog
Log(h) ==
  /\ h.step = "log" /\ Ends(h)
  /\ logged' = [logged EXCEPT ![h.on] = h.op]
  /\ UNCHANGED <<firm, approved, page, tokens>> /\ Keeps

\* A restart, or the database does not answer.
Stop(h) ==
  /\ Ends(h) /\ faults < MaxFaults /\ faults' = faults + 1
  /\ raced' = IF h.step = "log" THEN raced \cup {h.on} ELSE raced
  /\ UNCHANGED <<platform, page, tokens, calls>>

-----------------------------------------------------------------------------
(* The clerk *)

SetStatus(f) ==
  /\ firm[f] # "none"
  /\ clerk' = [clerk EXCEPT ![f] = IF @ = "active" THEN "disabled" ELSE "active"]
  /\ UNCHANGED <<platform, page, session, run>> /\ Keeps

\* A company that is pending is let in.
LoginRead(f) ==
  /\ firm[f] \in {"pending", "active"} /\ clerk[f] = "active"
  /\ Begin("login", f, "write")

LoginWrite(h) ==
  /\ h.op = "login" /\ Ends(h)
  /\ session' = [session EXCEPT ![h.on] = "fresh"]
  /\ UNCHANGED <<platform, page, clerk>> /\ Keeps

\* refreshToken looks at the account, and not at the company.
RenewRead(f) ==
  /\ session[f] = "stale" /\ clerk[f] = "active"
  /\ session' = [session EXCEPT ![f] = "renewing"]
  /\ UNCHANGED <<platform, page, clerk, run>> /\ Keeps

\* The new tokens come, or they are lost.
RenewAnswer(f) ==
  /\ session[f] = "renewing"
  /\ \E s \in {"fresh", "stale"} : session' = [session EXCEPT ![f] = s]
  /\ UNCHANGED <<platform, page, clerk, run>> /\ Keeps

\* JWT_ACCESS_EXPIRES, then JWT_REFRESH_EXPIRES.
Expire(f) ==
  /\ session[f] \in {"fresh", "stale"}
  /\ session' = [session EXCEPT ![f] = IF @ = "fresh" THEN "stale" ELSE "none"]
  /\ UNCHANGED <<platform, page, clerk, run>> /\ Keeps

Next ==
  \/ \E f \in Firms : \/ RegisterRead(f) \/ SetStatus(f) \/ LoginRead(f)
                      \/ RenewRead(f) \/ RenewAnswer(f) \/ Expire(f)
                      \/ \E op \in Rulings : RulingRead(f, op)
  \/ Load \/ \E rows \in loads : ShowList(rows)
  \/ \E h \in run : RegisterWrite(h) \/ RulingWrite(h) \/ Log(h) \/ LoginWrite(h) \/ Stop(h)

Spec == Init /\ [][Next]_vars

\* Tokens grow old, and a request for new ones has an answer or none.
Ages(f) == Expire(f) \/ RenewAnswer(f)

-----------------------------------------------------------------------------
(* Properties *)

TypeOK ==
  /\ firm \in [Firms -> Status] /\ approved \in [Firms -> BOOLEAN]
  /\ logged \in [Firms -> Rulings \cup {"none"}]
  /\ seen \in [Firms -> Status] /\ loads \subseteq [Firms -> Status]
  /\ clerk \in [Firms -> {"active", "disabled"}]
  /\ session \in [Firms -> {"none", "fresh", "stale", "renewing"}]
  /\ run \subseteq Call /\ raced \subseteq Firms
  /\ calls \in 0..MaxCalls /\ faults \in 0..MaxFaults

\* A company at work has been approved.  freezeCompany would freeze one that is pending and
\* unfreeze it without any approval: that does not happen because the list offers to freeze
\* what it shows as active alone, however old what it shows is.
ActiveWasApproved == \A f \in Firms : firm[f] = "active" => approved[f]

\* What the audit log says of a company last is what became of it, once no ruling is under
\* way, unless two overlapped or one stopped before its line was written.
LogTellsStatusUnlessRaced ==
  \A f \in Firms \ raced : (\A h \in run : h.on = f => h.op \notin Rulings) =>
    /\ firm[f] = "active" <=> logged[f] \in {"approve", "unfreeze"}
    /\ firm[f] = "suspended" <=> logged[f] = "freeze"

\* A clerk who is disabled is logged out in the end, or enabled again: no renewal keeps the
\* session alive.
DisabledIsLoggedOut ==
  \A f \in Firms : clerk[f] = "disabled" ~> session[f] = "none" \/ clerk[f] = "active"
=============================================================================
