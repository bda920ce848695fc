-------------------------------- MODULE Accounts --------------------------------
(***************************************************************************)
(* The accounts of one company (subaccount.service.ts), which a super admin    *)
(* creates, changes, disables and deletes, and the limit on wrong passwords    *)
(* from one address (loginEnterprise of auth.service.ts), which is kept in     *)
(* Redis.                                                                   *)
(***************************************************************************)
EXTENDS Integers, FiniteSets

CONSTANTS
  Users,         \* account rows that can be created
  Owner,         \* the account made with the company
  Phones,        \* phone numbers
  MaxAccounts,   \* MAX_ACCOUNTS, 20 in the code
  MaxFailures,   \* LOGIN_FAIL_MAX, 10 in the code
  MaxCalls, MaxFaults   \* bounds: calls of the handlers, calls that stop half way

VARIABLES
  account, admin, phone,  \* of each row: its status, whether it is a super admin, its number
  failures, expires,      \* the Redis key of the address: its count, whether it has a TTL
  run,      \* calls under way, after their reads
  resigned, \* history: a super admin has taken the role from their own account
  leaked,   \* history: a call stopped between INCR and EXPIRE
  raced,    \* history: accounts on which calls overlapped, and "new" for creations
  calls, faults

accountVars == <<account, admin, phone>>
limitVars == <<failures, expires>>
vars == <<accountVars, limitVars, run, resigned, leaked, raced, calls, faults>>

There == {u \in Users : account[u] \notin {"none", "deleted"}}

\* ids that were never used; which of them comes next makes no difference
Unused == {u \in Users : account[u] = "none"}
NextId == CHOOSE u \in Unused : TRUE
Call == [n: Nat, op: {"create", "role", "active", "disabled", "deleted", "password", "expire"},
         on: Users \cup {"new", "ip"}, phone: Phones, admin: BOOLEAN]

Init ==
  /\ account = [u \in Users |-> IF u = Owner THEN "active" ELSE "none"]
  /\ admin = [u \in Users |-> u = Owner]
  /\ phone = [u \in Users |-> CHOOSE p \in Phones : TRUE]
  /\ failures = 0 /\ expires = FALSE
  /\ run = {} /\ calls = 0 /\ faults = 0
  /\ resigned = FALSE /\ leaked = FALSE /\ raced = {}

Begin(op, on, p, adm) ==
  /\ calls < MaxCalls /\ calls' = calls + 1
  /\ run' = run \cup {[n |-> calls, op |-> op, on |-> on, phone |-> p, admin |-> adm]}
  /\ raced' = IF \E h \in run : h.on = on THEN raced \cup {on} ELSE raced
  /\ UNCHANGED <<accountVars, limitVars, leaked, faults>>

Ends(h) == h \in run /\ run' = run \ {h}
Keeps == UNCHANGED <<resigned, leaked, raced, calls, faults>>

\* _assertSuperAdmin: the role of the row, whatever its status.
MayManage(op) == account[op] # "none" /\ admin[op]

-----------------------------------------------------------------------------
(* Faulty variants of operators below; not part of the specification.        *)

\* disabling and deleting without the look at the target's role
StatusReadAny(op, u, to) ==
  /\ MayManage(op) /\ u \in There /\ u # op
  /\ Begin(to, u, phone[u], FALSE)
  /\ UNCHANGED resigned

-----------------------------------------------------------------------------
(* Accounts *)

\* The number of accounts, and the phone against those not deleted.
Taken(p) == \E u \in There : phone[u] = p

CreateRead(op, p, adm) ==
  /\ MayManage(op)
  /\ Cardinality(There) < MaxAccounts /\ ~Taken(p)
  /\ Begin("create", "new", p, adm)
  /\ UNCHANGED resigned

CreateWrite(h, u) ==
  /\ Ends(h) /\ h.op = "create" /\ u \in Unused /\ u = NextId
  /\ account' = [account EXCEPT ![u] = "active"]
  /\ phone' = [phone EXCEPT ![u] = h.phone]
  /\ admin' = [admin EXCEPT ![u] = h.admin]
  /\ UNCHANGED limitVars /\ Keeps

\* update: another super admin is out of reach, one's own role is not.
RoleRead(op, u, adm) ==
  /\ MayManage(op) /\ u \in There
  /\ admin[u] => u = op
  /\ Begin("role", u, phone[u], adm)
  /\ resigned' = (resigned \/ (u = op /\ ~adm))

\* setStatus and remove: neither a super admin nor oneself.
StatusRead(op, u, to) ==
  /\ MayManage(op) /\ u \in There /\ ~admin[u] /\ u # op
  /\ Begin(to, u, phone[u], FALSE)
  /\ UNCHANGED resigned

\* All of them write by id, a deleted row too.
Write(h) ==
  /\ Ends(h) /\ h.on \in Users
  /\ account' = IF h.op = "role" THEN account ELSE [account EXCEPT ![h.on] = h.op]
  /\ admin' = IF h.op = "role" THEN [admin EXCEPT ![h.on] = h.admin] ELSE admin
  /\ UNCHANGED <<phone, limitVars>> /\ Keeps

-----------------------------------------------------------------------------
(* Logging in *)

\* checkLoginRateLimit, and the password is compared.
LoginRead(p) ==
  /\ failures < MaxFailures
  /\ Begin("password", "ip", p, FALSE) /\ UNCHANGED resigned

\* The first row with the number, a deleted one too, decides; a good password clears the
\* key.  A refusal because of the status leaves it alone.
LoginGood(h) ==
  /\ Ends(h) /\ h.op = "password"
  /\ \E u \in Users :
       /\ account[u] # "none" /\ phone[u] = h.phone
       /\ IF account[u] = "active" THEN failures' = 0 /\ expires' = FALSE
          ELSE UNCHANGED limitVars
  /\ UNCHANGED accountVars /\ Keeps

\* recordLoginFailure: INCR, and behind the first one EXPIRE.
Count(h) ==
  /\ h \in run /\ h.op = "password"
  /\ failures' = failures + 1
  /\ run' = (run \ {h}) \cup (IF failures = 0 THEN {[h EXCEPT !.op = "expire"]} ELSE {})
  /\ UNCHANGED <<accountVars, expires>> /\ Keeps

SetExpiry(h) ==
  /\ Ends(h) /\ h.op = "expire"
  /\ expires' = (failures > 0)
  /\ UNCHANGED <<accountVars, failures>> /\ Keeps

\* The TTL of the key runs out.
KeyExpires ==
  /\ expires
  /\ failures' = 0 /\ expires' = FALSE
  /\ UNCHANGED <<accountVars, run>> /\ Keeps

\* A restart, or Redis does not answer.
Stop(h) ==
  /\ Ends(h)
  /\ faults < MaxFaults /\ faults' = faults + 1
  /\ leaked' = (leaked \/ h.op = "expire")
  /\ UNCHANGED <<accountVars, limitVars, resigned, raced, calls>>

Next ==
  \/ \E op \in Users :
       \/ \E p \in Phones, adm \in BOOLEAN : CreateRead(op, p, adm)
       \/ \E u \in Users : \/ \E adm \in BOOLEAN : RoleRead(op, u, adm)
                           \/ \E to \in {"active", "disabled", "deleted"} : StatusRead(op, u, to)
  \/ \E p \in Phones : LoginRead(p)
  \/ \E h \in run : \/ \E u \in Users : CreateWrite(h, u)
                    \/ Write(h) \/ LoginGood(h) \/ Count(h) \/ SetExpiry(h) \/ Stop(h)
  \/ KeyExpires

Spec == Init /\ [][Next]_vars

\* Redis goes on, and so do calls that have counted a failure.
Limiter == KeyExpires \/ \E h \in run : SetExpiry(h)

-----------------------------------------------------------------------------
(* Properties *)

TypeOK ==
  /\ account \in [Users -> {"none", "active", "disabled", "deleted"}]
  /\ admin \in [Users -> BOOLEAN] /\ phone \in [Users -> Phones]
  /\ failures \in Nat /\ expires \in BOOLEAN
  /\ run \subseteq Call
  /\ resigned \in BOOLEAN /\ leaked \in BOOLEAN
  /\ raced \subseteq Users \cup {"new", "ip"}
  /\ calls \in 0..MaxCalls /\ faults \in 0..MaxFaults

\* However accounts are made, promoted, disabled and deleted, the company keeps an active
\* super admin, unless one has given the role up or calls overlapped on an account.
AdminRemainsUnlessRaced ==
  ~resigned /\ raced \cap Users = {} => \E u \in Users : account[u] = "active" /\ admin[u]

\* No two accounts have one number and there are no more than the limit, unless two
\* creations overlapped or a call overlapped with the deletion of the account.
OneNumberEachUnlessRaced ==
  raced \subseteq {"ip"} =>
    /\ Cardinality(There) <= MaxAccounts
    /\ \A u, v \in There : phone[u] = phone[v] => u = v

\* An address is let in again in the end: no count of failures stays for ever, unless a
\* call stopped between counting the first one and setting the key's expiry.
BlockEnds == []<>(failures < MaxFailures) \/ <>leaked
=============================================================================
