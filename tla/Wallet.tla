------------------------------- MODULE Wallet -------------------------------
(***************************************************************************)
(* The wallet row of one worker and everything that writes it: withdraw and *)
(* completeWithdraw, settleToWorker and getWallet of wallet.service.ts, and *)
(* the upsert with which a dispute pays a worker.  withdraw runs under the  *)
(* Redis lock of redis-lock.service.ts, which expires on its own; the       *)
(* others do not take the lock.                                             *)
(*                                                                         *)
(* Handlers are cut at their awaits.  An interactive transaction is a step  *)
(* that reads the version and a step that commits or rolls back.            *)
(*                                                                         *)
(* Amounts are in fen.                                                      *)
(***************************************************************************)
EXTENDS Integers, FiniteSets, Functions

CONSTANTS
  Handlers,     \* request handlers that can be in flight at the same time
  Withdrawals,  \* transaction numbers withdraw can draw
  Amounts,      \* amounts a worker asks for
  Gross,        \* gross amounts settled to the worker
  MaxCalls,     \* bound: how many handlers are started in a behaviour
  MaxFaults     \* bound: how many restarts and database errors there are

\* withdraw refuses amounts below one yuan
ASSUME AmountsAssumption ==
  /\ \A a \in Amounts : a \in Nat /\ a >= 100
  /\ Gross \subseteq Nat
\* A transaction number has a fixed length.
ASSUME WithdrawalsAssumption == IsFiniteSet(Withdrawals)
\* A key without an owner is not a handler's.
ASSUME HandlersAssumption == "none" \notin Handlers
ASSUME BoundAssumption == MaxCalls \in Nat /\ MaxFaults \in Nat

NoWallet == -1  \* the version while the worker has no wallet row

VARIABLES
  avail, frozen, version,  \* the wallet row
  earned,       \* its totalEarned column
  withdrawal,   \* withdraw transactions: status and amount
  timer,        \* the setTimeout that completes a withdrawal, by withdrawal
  lock,         \* owner of the Redis key withdraw:lock:<worker>, or "none"
  lapsed,       \* handlers whose lease on the key has run out
  req,          \* continuation of each handler
  calls, faults \* handlers started and faults so far (bound the model)

wallet == <<avail, frozen, version, earned>>
mutex == <<lock, lapsed>>
vars == <<wallet, withdrawal, timer, mutex, req, calls, faults>>

\* Faulty NetAmounts, for the type invariant: the fee rate taken as a per cent.
NetAmountsPercent(g) == {g - 8 * g}

\* settleToWorker rounds the net amount down to the fen.  It does so to a product
\* of doubles, which may fall short of an exact number of fen: then it is one less.
\* The upsert of a dispute leaves it to the DECIMAL(12, 2) column, which rounds to
\* nearest.
NetAmounts(g) ==
  LET n == (92 * g) \div 100
  IN {n} \cup {k \in {n - 1} : k >= 0 /\ (92 * g) % 100 = 0}
UpsertNet(g) == (92 * g + 50) \div 100

Credits == (UNION {NetAmounts(g) : g \in Gross}) \cup {UpsertNet(g) : g \in Gross}

LockedOps == {"wd_locked", "wd_read", "wd_committed", "wd_done"}
Ops == LockedOps \cup {"idle", "st_read", "gw_missing"}

\* A continuation: the step reached, the withdrawal it made, the amount asked
\* for or to be credited and the version of the wallet it has read.
Request ==
  {r \in [op: Ops, on: Withdrawals \cup {"none"},
          amount: {0} \cup Amounts \cup Credits, ver: Nat \cup {NoWallet}] :
     /\ r.op \in LockedOps => r.amount \in Amounts
     /\ r.op = "wd_committed" => r.on \in Withdrawals}
Idle == [op |-> "idle", on |-> "none", amount |-> 0, ver |-> NoWallet]

NoTimer == [at |-> "none", ver |-> NoWallet]

Init ==
  /\ avail = 0 /\ frozen = 0 /\ version = NoWallet /\ earned = 0
  /\ withdrawal = [w \in Withdrawals |-> [status |-> "none", amount |-> 0]]
  /\ timer = [w \in Withdrawals |-> NoTimer]
  /\ lock = "none" /\ lapsed = {}
  /\ req = [h \in Handlers |-> Idle]
  /\ calls = 0 /\ faults = 0

Begin(h, r) ==
  /\ req[h] = Idle
  /\ calls < MaxCalls
  /\ calls' = calls + 1
  /\ req' = [req EXCEPT ![h] = r]
  /\ UNCHANGED faults

Continue(h, r) == req' = [req EXCEPT ![h] = r] /\ UNCHANGED <<calls, faults>>

Return(h) == Continue(h, Idle)

-----------------------------------------------------------------------------
(* Faulty variants of actions below, each with one plausible slip.  They are *)
(* not part of the specification: with one of them in place of its action a  *)
(* property at the end of this module fails.                                 *)

\* withdraw that relies on the lock and updates the row by workerId alone
WithdrawCommitNoVersion(h, w) ==
  /\ req[h].op = "wd_read"
  /\ withdrawal[w].status = "none"
  /\ avail' = avail - req[h].amount
  /\ frozen' = frozen + req[h].amount
  /\ version' = version + 1
  /\ withdrawal' = [withdrawal EXCEPT ![w] = [status |-> "processing",
                                              amount |-> req[h].amount]]
  /\ Continue(h, [req[h] EXCEPT !.op = "wd_committed", !.on = w])
  /\ UNCHANGED <<earned, timer, mutex>>

\* withdraw that does not throw when the versioned update counts 0
WithdrawCommitCountIgnored(h, w) ==
  /\ req[h].op = "wd_read"
  /\ withdrawal[w].status = "none"
  /\ IF req[h].ver = version
       THEN /\ avail' = avail - req[h].amount
            /\ frozen' = frozen + req[h].amount /\ version' = version + 1
       ELSE UNCHANGED <<avail, frozen, version>>
  /\ withdrawal' = [withdrawal EXCEPT ![w] = [status |-> "processing",
                                              amount |-> req[h].amount]]
  /\ Continue(h, [req[h] EXCEPT !.op = "wd_committed", !.on = w])
  /\ UNCHANGED <<earned, timer, mutex>>

\* withdraw that starts no timer
WithdrawScheduleNothing(h) ==
  /\ req[h].op = "wd_committed"
  /\ Continue(h, [req[h] EXCEPT !.op = "wd_done"])
  /\ UNCHANGED <<wallet, withdrawal, timer, mutex>>

\* release that deletes the key without comparing the token
WithdrawReleaseAny(h) ==
  /\ req[h].op = "wd_done"
  /\ lock' = "none"
  /\ Return(h)
  /\ UNCHANGED <<wallet, withdrawal, timer, lapsed>>

-----------------------------------------------------------------------------
\* The version of the row once it exists: a new row has version 0.
Created(v) == IF v = NoWallet THEN 0 ELSE v

-----------------------------------------------------------------------------
(* withdraw, under withLock *)

\* acquire: SET key token NX EX.  A key that is taken makes withdraw fail at
\* once, without a step.
WithdrawAcquire(h, a) ==
  /\ lock = "none"
  /\ lock' = h
  /\ lapsed' = lapsed \ {h}
  /\ Begin(h, [Idle EXCEPT !.op = "wd_locked", !.amount = a])
  /\ UNCHANGED <<wallet, withdrawal, timer>>

WithdrawRead(h) ==
  /\ req[h].op = "wd_locked"
  /\ version # NoWallet
  /\ req[h].amount <= avail
  /\ Continue(h, [req[h] EXCEPT !.op = "wd_read", !.ver = version])
  /\ UNCHANGED <<wallet, withdrawal, timer, mutex>>

WithdrawCommit(h, w) ==
  /\ req[h].op = "wd_read"
  /\ req[h].ver = version
  /\ withdrawal[w].status = "none"
  /\ avail' = avail - req[h].amount
  /\ frozen' = frozen + req[h].amount
  /\ version' = version + 1
  /\ withdrawal' = [withdrawal EXCEPT ![w] = [status |-> "processing",
                                              amount |-> req[h].amount]]
  /\ Continue(h, [req[h] EXCEPT !.op = "wd_committed", !.on = w])
  /\ UNCHANGED <<earned, timer, mutex>>

\* setTimeout(completeWithdraw), when the commit has been acknowledged.
WithdrawSchedule(h) ==
  /\ req[h].op = "wd_committed"
  /\ timer' = [timer EXCEPT ![req[h].on].at = "set"]
  /\ Continue(h, [req[h] EXCEPT !.op = "wd_done"])
  /\ UNCHANGED <<wallet, withdrawal, mutex>>

\* No wallet, not enough money, or a version that has moved on: an exception.
WithdrawReject(h) ==
  /\ \/ req[h].op = "wd_locked" /\ (version = NoWallet \/ req[h].amount > avail)
     \/ req[h].op = "wd_read" /\ req[h].ver # version
  /\ Continue(h, [req[h] EXCEPT !.op = "wd_done"])
  /\ UNCHANGED <<wallet, withdrawal, timer, mutex>>

\* release, in withLock's finally: deletes the key if the token is still ours.
WithdrawRelease(h) ==
  /\ req[h].op = "wd_done"
  /\ lock' = IF lock = h THEN "none" ELSE lock
  /\ Return(h)
  /\ UNCHANGED <<wallet, withdrawal, timer, lapsed>>

\* The 30 seconds are over before the owner has released the key.
LockExpire ==
  /\ lock # "none"
  /\ lock' = "none"
  /\ lapsed' = lapsed \cup {lock}
  /\ UNCHANGED <<wallet, withdrawal, timer, req, calls, faults>>

-----------------------------------------------------------------------------
(* completeWithdraw: one transaction, started by the timer *)

CompleteRead(w) ==
  /\ timer[w].at = "set"
  /\ timer' = [timer EXCEPT ![w] = [at |-> "read", ver |-> version]]
  /\ UNCHANGED <<wallet, withdrawal, mutex, req, calls, faults>>

\* The status is written in any case; the count of the versioned update that
\* takes the amount out of frozenBalance is not looked at.
CompleteCommit(w) ==
  /\ timer[w].at = "read"
  /\ withdrawal' = [withdrawal EXCEPT ![w].status = "completed"]
  /\ IF timer[w].ver = version
       THEN frozen' = frozen - withdrawal[w].amount /\ version' = version + 1
       ELSE UNCHANGED <<frozen, version>>
  /\ timer' = [timer EXCEPT ![w] = NoTimer]
  /\ UNCHANGED <<avail, earned, mutex, req, calls, faults>>

-----------------------------------------------------------------------------
(* Money coming in *)

\* settleToWorker creates the row if its snapshot has none; the row is created
\* and credited in the same transaction.
SettleRead(h, g) ==
  /\ \E n \in NetAmounts(g) :
       Begin(h, [Idle EXCEPT !.op = "st_read", !.amount = n, !.ver = version])
  /\ UNCHANGED <<wallet, withdrawal, timer, mutex>>

SettleCommit(h) ==
  /\ req[h].op = "st_read"
  /\ req[h].ver = version
  /\ avail' = avail + req[h].amount
  /\ earned' = earned + req[h].amount
  /\ version' = Created(version) + 1
  /\ Return(h)
  /\ UNCHANGED <<frozen, withdrawal, timer, mutex>>

\* The version has moved on, or the row exists by now (its unique key).
SettleConflict(h) ==
  /\ req[h].op = "st_read"
  /\ req[h].ver # version
  /\ Return(h)
  /\ UNCHANGED <<wallet, withdrawal, timer, mutex>>

\* A dispute credits by increments and leaves the version as it is.
UpsertCredit(g) ==
  /\ calls < MaxCalls
  /\ calls' = calls + 1
  /\ avail' = avail + UpsertNet(g)
  /\ earned' = earned + UpsertNet(g)
  /\ version' = Created(version)
  /\ UNCHANGED <<frozen, withdrawal, timer, mutex, req, faults>>

\* getWallet creates an empty row on first use.
GetWalletRead(h) ==
  /\ version = NoWallet
  /\ Begin(h, [Idle EXCEPT !.op = "gw_missing"])
  /\ UNCHANGED <<wallet, withdrawal, timer, mutex>>

GetWalletCreate(h) ==
  /\ req[h].op = "gw_missing"
  /\ version' = Created(version)
  /\ Return(h)
  /\ UNCHANGED <<avail, frozen, earned, withdrawal, timer, mutex>>

-----------------------------------------------------------------------------
(* Faults *)

\* The process restarts: continuations and timers are gone, the Redis key and
\* the committed rows stay.
Restart ==
  /\ faults < MaxFaults
  /\ faults' = faults + 1
  /\ req' = [h \in Handlers |-> Idle]
  /\ timer' = [w \in Withdrawals |-> NoTimer]
  /\ UNCHANGED <<wallet, withdrawal, mutex, calls>>

\* A database error inside completeWithdraw is logged and swallowed.
CompleteError(w) ==
  /\ faults < MaxFaults
  /\ timer[w].at = "read"
  /\ faults' = faults + 1
  /\ timer' = [timer EXCEPT ![w] = NoTimer]
  /\ UNCHANGED <<wallet, withdrawal, mutex, req, calls>>

-----------------------------------------------------------------------------
Handle(h) ==
  \/ WithdrawRead(h)
  \/ \E w \in Withdrawals : WithdrawCommit(h, w)
  \/ WithdrawSchedule(h)
  \/ WithdrawReject(h)
  \/ WithdrawRelease(h)
  \/ SettleCommit(h)
  \/ SettleConflict(h)
  \/ GetWalletCreate(h)

Next ==
  \/ \E h \in Handlers :
       \/ \E a \in Amounts : WithdrawAcquire(h, a)
       \/ \E g \in Gross : SettleRead(h, g)
       \/ GetWalletRead(h)
       \/ Handle(h)
  \/ \E g \in Gross : UpsertCredit(g)
  \/ \E w \in Withdrawals : CompleteRead(w) \/ CompleteCommit(w) \/ CompleteError(w)
  \/ LockExpire
  \/ Restart

Spec == Init /\ [][Next]_vars

\* The event loop runs every continuation and timer that is ready, and Redis
\* expires keys.  Nothing makes users call, or faults happen.
Fairness ==
  /\ \A h \in Handlers : WF_vars(Handle(h))
  /\ \A w \in Withdrawals : WF_vars(CompleteRead(w)) /\ WF_vars(CompleteCommit(w))
  /\ WF_vars(LockExpire)

FairSpec == Spec /\ Fairness

-----------------------------------------------------------------------------
(* Properties *)

\* The values every variable ranges over.
TypeOK ==
  /\ avail \in Int /\ frozen \in Int /\ earned \in Nat
  /\ version \in Nat \cup {NoWallet}
  /\ withdrawal \in [Withdrawals -> [status: {"none", "processing", "completed"},
                                     amount: {0} \cup Amounts]]
  /\ timer \in [Withdrawals -> [at: {"none", "set", "read"},
                                ver: Nat \cup {NoWallet}]]
  /\ lock \in Handlers \cup {"none"} /\ lapsed \subseteq Handlers
  /\ req \in [Handlers -> Request]
  /\ calls \in Nat /\ faults \in Nat

\* A worker can never take out more than there is, also when the Redis lock of a
\* slow withdraw has expired and another one runs beside it, and whatever
\* settlements, completions and dispute credits come between.
AvailableNeverNegative == avail >= 0

\* What makes withdraw's check-then-update sound without the lock: under the
\* version it has read, the amount it has compared is still there.
CheckedAmountStillThere ==
  \A h \in Handlers :
    req[h].op = "wd_read" /\ req[h].ver = version => req[h].amount <= avail

AmountOf(status) ==
  SumFunction([w \in Withdrawals |->
                 IF withdrawal[w].status \in status THEN withdrawal[w].amount ELSE 0])

\* Everything earned is either available or in exactly one withdraw row, no more is in
\* these rows than was earned, and the frozen balance covers the withdrawals that are being
\* processed.
RowsExplainAvailable ==
  /\ avail = earned - AmountOf({"processing", "completed"})
  /\ AvailableNeverNegative
  /\ frozen >= AmountOf({"processing"})

\* While its lease runs, a withdraw handler is the only one under the lock: in
\* particular a handler whose lease has lapsed does not delete its successor's key.
LeaseIsExclusive ==
  \A h \in Handlers : req[h].op \in LockedOps /\ h \notin lapsed => lock = h

\* The wallet is a deposit account too: every step of a handler or timer is one atomic
\* operation of it or none.  A withdraw reserves its amount, which is covered at that moment
\* although it was compared earlier; its completion pays that amount out, or does nothing.
Account == INSTANCE CompanyAccount
             WITH bal <- avail + frozen, held <- frozen, uncovered <- 0,
                  Amounts <- {0} \cup Amounts \cup Credits
ImplementsAccount == Account!Spec

\* Without restarts and database errors every withdrawal is completed.
WithdrawalCompletes ==
  \A w \in Withdrawals :
    withdrawal[w].status = "processing" ~> withdrawal[w].status = "completed" \/ faults > 0

=============================================================================
