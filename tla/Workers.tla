-------------------------------- MODULE Workers --------------------------------
(***************************************************************************)
(* The records of workers (auth.service.ts): a worker is registered by the    *)
(* first login, binds a phone, proves an identity, and describes roles and    *)
(* works.  Every handler looks first and writes afterwards, by id.            *)
(***************************************************************************)
EXTENDS Integers, Sequences, Functions, FiniteSets

CONSTANTS
  People,               \* openids
  Phones, Cards, Names, \* phone numbers, identity cards, names of roles
  Unset,                \* null
  MaxRoles, MaxWorks,   \* 5 and 20
  MaxCalls              \* bound: calls

VARIABLES
  worker,   \* of each person: the number of rows, and what the row has
  wallet,   \* the number of wallets
  roles,    \* of each person, the names of the roles, in the order they were added
  works,    \* of each person, the sortOrder of the works
  proved,   \* history: the card that was proved first
  run,      \* calls under way
  raced,    \* history: what overlapping calls looked at
  calls

records == <<worker, wallet, roles, works>>
vars == <<records, proved, run, raced, calls>>

Row == [rows: Nat, phone: Phones \cup {Unset}, card: Cards \cup {Unset}]
Call == [n: Nat, op: {"register", "bind", "compare", "verify", "role", "work"}, of: People,
         value: Phones \cup Cards \cup Names \cup {Unset}, order: Nat]

Init ==
  /\ worker = [p \in People |-> [rows |-> 0, phone |-> Unset, card |-> Unset]]
  /\ wallet = [p \in People |-> 0]
  /\ roles = [p \in People |-> << >>] /\ works = [p \in People |-> << >>]
  /\ proved = [p \in People |-> Unset]
  /\ run = {} /\ raced = {} /\ calls = 0

Known(p) == worker[p].rows > 0

\* A call has looked.  It meets another one over the person, or over the value.
Begin(op, p, v, i) ==
  /\ calls < MaxCalls /\ calls' = calls + 1
  /\ run' = run \cup {[n |-> calls, op |-> op, of |-> p, value |-> v, order |-> i]}
  /\ LET same == {h \in run : h.of = p} \cup {h \in run : h.value = v /\ v # Unset}
     IN raced' = raced \cup UNION {{h.of, h.value, p, v} \ {Unset} : h \in same}
  /\ UNCHANGED <<records, proved>>

Ends(h) == h \in run /\ run' = run \ {h}
Keeps == UNCHANGED <<proved, raced, calls>>

-----------------------------------------------------------------------------
\* loginWorker: a person who is not known is registered, with a wallet, in one transaction;
\* openid is unique.
LoginRead(p) == ~Known(p) /\ Begin("register", p, Unset, 0)

Register(h) ==
  /\ h.op = "register" /\ Ends(h)
  /\ IF Known(h.of) THEN UNCHANGED <<worker, wallet>>
     ELSE /\ worker' = [worker EXCEPT ![h.of].rows = @ + 1]
          /\ wallet' = [wallet EXCEPT ![h.of] = @ + 1]
  /\ UNCHANGED <<roles, works>> /\ Keeps

\* bindPhone compares with the number of every other worker.
BindRead(p, v) ==
  /\ Known(p) /\ \A q \in People \ {p} : worker[q].phone # v
  /\ Begin("bind", p, v, 0)

Bind(h) ==
  /\ h.op = "bind" /\ Ends(h)
  /\ worker' = [worker EXCEPT ![h.of].phone = h.value]
  /\ UNCHANGED <<wallet, roles, works>> /\ Keeps

\* verifyIdentity: not verified yet; a service outside is asked; then the card is looked for
\* among those of the others.
VerifyRead(p, v) == Known(p) /\ worker[p].card = Unset /\ Begin("compare", p, v, 0)

Compare(h) ==
  /\ h \in run /\ h.op = "compare"
  /\ ~ \E p \in People : worker[p].card = h.value /\ p # h.of
  /\ run' = (run \ {h}) \cup {[h EXCEPT !.op = "verify"]}
  /\ UNCHANGED records /\ Keeps

\* The outside service does not agree, or somebody else has the card.
Refuse(h) ==
  /\ h.op = "compare" /\ Ends(h)
  /\ UNCHANGED records /\ Keeps

Verify(h) ==
  /\ h.op = "verify" /\ Ends(h)
  /\ worker' = [worker EXCEPT ![h.of].card = h.value]
  /\ proved' = IF proved[h.of] = Unset THEN [proved EXCEPT ![h.of] = h.value] ELSE proved
  /\ UNCHANGED <<wallet, roles, works, raced, calls>>

\* addWorkerRole
RoleRead(p, v) ==
  /\ Known(p) /\ Len(roles[p]) < MaxRoles /\ v \notin Range(roles[p])
  /\ Begin("role", p, v, 0)

AddRole(h) ==
  /\ h.op = "role" /\ Ends(h)
  /\ roles' = [roles EXCEPT ![h.of] = Append(@, h.value)]
  /\ UNCHANGED <<worker, wallet, works>> /\ Keeps

\* addPortfolio puts a work behind the others.
WorkRead(p) ==
  /\ Known(p) /\ Len(works[p]) < MaxWorks
  /\ Begin("work", p, Unset, Len(works[p]))

AddWork(h) ==
  /\ h.op = "work" /\ Ends(h)
  /\ works' = [works EXCEPT ![h.of] = Append(@, h.order)]
  /\ UNCHANGED <<worker, wallet, roles>> /\ Keeps

\* deleteWorkerRole and deletePortfolio
Without(s, i) == SubSeq(s, 1, i - 1) \o SubSeq(s, i + 1, Len(s))

DeleteRole(p, i) ==
  /\ roles' = [roles EXCEPT ![p] = Without(@, i)]
  /\ UNCHANGED <<worker, wallet, works, run>> /\ Keeps

DeleteWork(p, i) ==
  /\ works' = [works EXCEPT ![p] = Without(@, i)]
  /\ UNCHANGED <<worker, wallet, roles, run>> /\ Keeps

Next ==
  \/ \E p \in People :
       \/ LoginRead(p) \/ WorkRead(p)
       \/ \E v \in Phones : BindRead(p, v)
       \/ \E v \in Cards : VerifyRead(p, v)
       \/ \E v \in Names : RoleRead(p, v)
       \/ \E i \in DOMAIN roles[p] : DeleteRole(p, i)
       \/ \E i \in DOMAIN works[p] : DeleteWork(p, i)
  \/ \E h \in run : \/ Register(h) \/ Bind(h) \/ Compare(h) \/ Refuse(h) \/ Verify(h)
                    \/ AddRole(h) \/ AddWork(h)

Spec == Init /\ [][Next]_vars

-----------------------------------------------------------------------------
(* Properties *)

TypeOK ==
  /\ worker \in [People -> Row] /\ wallet \in [People -> Nat]
  /\ roles \in [People -> Seq(Names)] /\ works \in [People -> Seq(Nat)]
  /\ proved \in [People -> Cards \cup {Unset}]
  /\ run \subseteq Call /\ raced \subseteq People \cup Phones \cup Cards \cup Names
  /\ calls \in 0..MaxCalls

\* However often a person logs in on however many devices, there is one worker with one
\* wallet.
OneWalletEach == \A p \in People : worker[p].rows <= 1 /\ wallet[p] = worker[p].rows

\* A phone number and an identity card belong to one worker, and the card of a verified
\* worker stays, unless calls overlapped on the number, the card or the worker.
OneOwnerUnlessRaced ==
  \A p, q \in People :
    /\ p # q /\ worker[p].phone = worker[q].phone =>
         worker[p].phone = Unset \/ worker[p].phone \in raced
    /\ p # q /\ worker[p].card = worker[q].card =>
         worker[p].card = Unset \/ worker[p].card \in raced
    /\ p \notin raced => worker[p].card = proved[p]

\* A worker's roles have different names, and roles and works keep to their limits, unless
\* calls of the worker overlapped.
ProfileUnlessRaced ==
  \A p \in People \ raced :
    /\ IsInjective(roles[p]) /\ Len(roles[p]) <= MaxRoles /\ Len(works[p]) <= MaxWorks
=============================================================================
