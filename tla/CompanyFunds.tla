---------------------------- MODULE CompanyFunds ----------------------------
(***************************************************************************)
(* The money of one company: the balance, lockedBalance and version columns *)
(* of its row, the transaction table, and the request handlers that write   *)
(* them: finance.service.ts, unlockAfterSettlement of settlement.service.ts *)
(* and the refund of dispute.service.ts.  acceptTask of task.service.ts is  *)
(* included because it is what opens a task for payment.                    *)
(*                                                                         *)
(* Handlers are asynchronous: at every await of the code another handler    *)
(* may run.  A handler is therefore cut into the steps between its awaits,  *)
(* and what it has read so far is its continuation, req[h].  An interactive *)
(* transaction is a read step, which takes the snapshot, and a commit step, *)
(* where the UPDATE ... WHERE version = v either finds the row it read and  *)
(* every write takes effect, or counts 0 rows and everything is rolled back.*)
(*                                                                         *)
(* Amounts are in fen (1/100 yuan), so that they are integers.              *)
(***************************************************************************)
EXTENDS Integers, FiniteSets, Functions

CONSTANTS
  Handlers,     \* request handlers that can be in flight at the same time
  Tasks,        \* tasks of the company
  Recharges,    \* transaction numbers createRecharge can draw
  Budgets,      \* amounts a client can ask for
  TotalBudget,  \* TotalBudget[t]: the totalBudget column of task t
  RoundsUp,     \* budgets whose product with 1.08 a double puts above the fen
  MaxCalls      \* bound: how many handlers are started in a behaviour

ASSUME BudgetsAssumption ==
  /\ Budgets \subseteq Nat \ {0}
  /\ TotalBudget \in [Tasks -> Budgets]
ASSUME BoundAssumption == MaxCalls \in Nat
ASSUME HandlersAssumption == IsFiniteSet(Handlers) /\ IsFiniteSet(Recharges)

VARIABLES
  balance, locked, version,  \* the company row
  recharge,                  \* recharge transactions, by transaction number
  task,                      \* status and lockedAmount of each task
  ledger,                    \* sums of the completed transaction rows
  req,                       \* continuation of each handler
  calls,                     \* handlers started so far (bounds the model)
  credits                    \* history: how often a recharge was credited

company == <<balance, locked, version>>
vars == <<company, recharge, task, ledger, req, calls, credits>>

(***************************************************************************)
(* Math.ceil(budget * 1.08 * 100) / 100 in doubles: the next fen above      *)
(* 108 %, and one fen more where the product is a whole number of fen that  *)
(* the doubles overshoot (2.25 * 1.08 * 100 = 243.00000000000003).          *)
(***************************************************************************)
LockAmount(b) == (108 * b + 99) \div 100 + (IF b \in RoundsUp THEN 1 ELSE 0)

Amounts == Budgets \cup {LockAmount(b) : b \in Budgets}

Ops == {"idle", "cb_checked", "cb_read", "lf_read", "pf_checked", "pf_read",
        "ul_read", "ul_updated", "ac_read", "vd_read"}
CallbackOps == {"cb_checked", "cb_read"}
TaskOps == Ops \ (CallbackOps \cup {"idle"})

\* A continuation: the step reached, the row the handler works on, and what
\* it has read: an amount, the task's lockedAmount and the company's version.
Request ==
  {r \in [op: Ops, on: Tasks \cup Recharges \cup {"none"},
          amount: {0} \cup Amounts, held: {0} \cup Amounts, ver: Nat] :
     /\ r.op \in CallbackOps => r.on \in Recharges
     /\ r.op \in TaskOps => r.on \in Tasks}
Idle == [op |-> "idle", on |-> "none", amount |-> 0, held |-> 0, ver |-> 0]

Ledger == [lock: Nat, unlock: Nat, refund: Nat, secured: Nat, unsecured: Nat]

Init ==
  /\ balance = 0 /\ locked = 0 /\ version = 0
  /\ recharge = [r \in Recharges |-> [status |-> "none", amount |-> 0]]
  /\ task = [t \in Tasks |-> [status |-> "reviewing", lockedAmount |-> 0]]
  /\ ledger = [lock |-> 0, unlock |-> 0, refund |-> 0, secured |-> 0, unsecured |-> 0]
  /\ req = [h \in Handlers |-> Idle]
  /\ calls = 0
  /\ credits = [r \in Recharges |-> 0]

Begin(h, r) ==
  /\ req[h] = Idle
  /\ calls < MaxCalls
  /\ calls' = calls + 1
  /\ req' = [req EXCEPT ![h] = r]

Continue(h, r) == req' = [req EXCEPT ![h] = r] /\ UNCHANGED calls

Return(h) == Continue(h, Idle)

-----------------------------------------------------------------------------
(* Faulty variants of actions below, each with one plausible slip.  They are *)
(* not part of the specification: with one of them in place of its action a  *)
(* property at the end of this module fails.                                 *)

\* handlePayCallback that trusts the provider and does not look at the status
CallbackCheckNoStatus(h, r) ==
  /\ recharge[r].status # "none"
  /\ Begin(h, [Idle EXCEPT !.op = "cb_checked", !.on = r,
                           !.amount = recharge[r].amount])
  /\ UNCHANGED <<company, recharge, task, ledger, credits>>

\* lockFund that compares with the balance instead of what is free of it
LockFundReadWholeBalance(h, t, b) ==
  /\ LockAmount(b) <= balance
  /\ Begin(h, [Idle EXCEPT !.op = "lf_read", !.on = t,
                           !.amount = LockAmount(b), !.ver = version])
  /\ UNCHANGED <<company, recharge, task, ledger, credits>>

\* lockFund that updates the row by its id alone
LockFundCommitNoVersion(h) ==
  /\ req[h].op = "lf_read"
  /\ locked' = locked + req[h].amount
  /\ version' = version + 1
  /\ task' = [task EXCEPT ![req[h].on].lockedAmount = req[h].amount]
  /\ ledger' = [ledger EXCEPT !.lock = @ + req[h].amount]
  /\ Return(h)
  /\ UNCHANGED <<balance, recharge, credits>>

\* payForTask that does not throw when the versioned update counts 0
PayCommitCountIgnored(h) ==
  /\ req[h].op = "pf_read"
  /\ IF req[h].ver = version
       THEN /\ balance' = balance - req[h].amount
            /\ locked' = locked - req[h].held /\ version' = version + 1
       ELSE UNCHANGED company
  /\ task' = [task EXCEPT ![req[h].on] = [status |-> "completed", lockedAmount |-> 0]]
  /\ ledger' = [ledger EXCEPT !.secured = @ + req[h].amount]
  /\ Return(h)
  /\ UNCHANGED <<recharge, credits>>

\* payForTask that takes what it paid off lockedAmount instead of clearing it
PayCommitDecrement(h) ==
  /\ req[h].op = "pf_read"
  /\ req[h].ver = version
  /\ balance' = balance - req[h].amount
  /\ locked' = locked - req[h].held
  /\ version' = version + 1
  /\ task' = [task EXCEPT ![req[h].on] =
                [status |-> "completed", lockedAmount |-> @.lockedAmount - req[h].amount]]
  /\ ledger' = [ledger EXCEPT !.secured = @ + req[h].amount]
  /\ Return(h)
  /\ UNCHANGED <<recharge, credits>>

-----------------------------------------------------------------------------
(* Recharge: createRecharge and the payment callback *)

CreateRecharge(r, a) ==
  /\ recharge[r].status = "none"
  /\ recharge' = [recharge EXCEPT ![r] = [status |-> "pending", amount |-> a]]
  /\ UNCHANGED <<company, task, ledger, req, calls, credits>>

\* The status is read before the transaction is opened.
CallbackCheck(h, r) ==
  /\ recharge[r].status = "pending"
  /\ Begin(h, [Idle EXCEPT !.op = "cb_checked", !.on = r,
                           !.amount = recharge[r].amount])
  /\ UNCHANGED <<company, recharge, task, ledger, credits>>

CallbackRead(h) ==
  /\ req[h].op = "cb_checked"
  /\ Continue(h, [req[h] EXCEPT !.op = "cb_read", !.ver = version])
  /\ UNCHANGED <<company, recharge, task, ledger, credits>>

CallbackCommit(h) ==
  /\ req[h].op = "cb_read"
  /\ req[h].ver = version
  /\ recharge' = [recharge EXCEPT ![req[h].on].status = "completed"]
  /\ credits' = [credits EXCEPT ![req[h].on] = @ + 1]
  /\ balance' = balance + req[h].amount
  /\ version' = version + 1
  /\ Return(h)
  /\ UNCHANGED <<locked, task, ledger>>

-----------------------------------------------------------------------------
(* lockFund *)

LockFundRead(h, t, b) ==
  /\ LockAmount(b) <= balance - locked
  /\ Begin(h, [Idle EXCEPT !.op = "lf_read", !.on = t,
                           !.amount = LockAmount(b), !.ver = version])
  /\ UNCHANGED <<company, recharge, task, ledger, credits>>

LockFundCommit(h) ==
  /\ req[h].op = "lf_read"
  /\ req[h].ver = version
  /\ locked' = locked + req[h].amount
  /\ version' = version + 1
  /\ task' = [task EXCEPT ![req[h].on].lockedAmount = req[h].amount]
  /\ ledger' = [ledger EXCEPT !.lock = @ + req[h].amount]
  /\ Return(h)
  /\ UNCHANGED <<balance, recharge, credits>>

-----------------------------------------------------------------------------
(* acceptTask and payForTask *)

AcceptTaskRead(h, t) ==
  /\ task[t].status = "reviewing"
  /\ Begin(h, [Idle EXCEPT !.op = "ac_read", !.on = t])
  /\ UNCHANGED <<company, recharge, task, ledger, credits>>

AcceptTaskWrite(h) ==
  /\ req[h].op = "ac_read"
  /\ task' = [task EXCEPT ![req[h].on].status = "pending_payment"]
  /\ Return(h)
  /\ UNCHANGED <<company, recharge, ledger, credits>>

\* The amount is what is locked for the task, or its budget if nothing is.
PayCheck(h, t) ==
  /\ task[t].status = "pending_payment"
  /\ Begin(h, [Idle EXCEPT !.op = "pf_checked", !.on = t,
                           !.held = task[t].lockedAmount,
                           !.amount = IF task[t].lockedAmount > 0
                                        THEN task[t].lockedAmount
                                        ELSE TotalBudget[t]])
  /\ UNCHANGED <<company, recharge, task, ledger, credits>>

PayRead(h) ==
  /\ req[h].op = "pf_checked"
  /\ Continue(h, [req[h] EXCEPT !.op = "pf_read", !.ver = version])
  /\ UNCHANGED <<company, recharge, task, ledger, credits>>

PayCommit(h) ==
  /\ req[h].op = "pf_read"
  /\ req[h].ver = version
  /\ balance' = balance - req[h].amount
  /\ locked' = locked - req[h].held
  /\ version' = version + 1
  /\ task' = [task EXCEPT ![req[h].on] = [status |-> "completed", lockedAmount |-> 0]]
  /\ ledger' = IF req[h].held > 0
                 THEN [ledger EXCEPT !.secured = @ + req[h].amount]
                 ELSE [ledger EXCEPT !.unsecured = @ + req[h].amount]
  /\ Return(h)
  /\ UNCHANGED <<recharge, credits>>

-----------------------------------------------------------------------------
(* unlockAfterSettlement: three separate statements, no transaction, and the *)
(* row count of the versioned update is not looked at.                       *)

UnlockRead(h, t, b) ==
  /\ Begin(h, [Idle EXCEPT !.op = "ul_read", !.on = t,
                           !.amount = LockAmount(b), !.ver = version])
  /\ UNCHANGED <<company, recharge, task, ledger, credits>>

UnlockUpdate(h) ==
  /\ req[h].op = "ul_read"
  /\ IF req[h].ver = version
       THEN locked' = locked - req[h].amount /\ version' = version + 1
       ELSE UNCHANGED <<locked, version>>
  /\ Continue(h, [req[h] EXCEPT !.op = "ul_updated"])
  /\ UNCHANGED <<balance, recharge, task, ledger, credits>>

UnlockRecord(h) ==
  /\ req[h].op = "ul_updated"
  /\ ledger' = [ledger EXCEPT !.unlock = @ + req[h].amount]
  /\ Return(h)
  /\ UNCHANGED <<company, recharge, task, credits>>

-----------------------------------------------------------------------------
(* resolveDispute, when the company gets all or a part back (see Dispute)    *)

VerdictRead(h, t, a) ==
  /\ a <= task[t].lockedAmount
  /\ Begin(h, [Idle EXCEPT !.op = "vd_read", !.on = t, !.amount = a])
  /\ UNCHANGED <<company, recharge, task, ledger, credits>>

\* Neither locked nor the version is written.
VerdictRefund(h) ==
  /\ req[h].op = "vd_read"
  /\ balance' = balance + req[h].amount
  /\ ledger' = [ledger EXCEPT !.refund = @ + req[h].amount]
  /\ Return(h)
  /\ UNCHANGED <<locked, version, recharge, task, credits>>

-----------------------------------------------------------------------------
\* A versioned update inside a transaction counts 0 rows: the handler throws
\* and the transaction is rolled back.
Conflict(h) ==
  /\ req[h].op \in {"cb_read", "lf_read", "pf_read"}
  /\ req[h].ver # version
  /\ Return(h)
  /\ UNCHANGED <<company, recharge, task, ledger, credits>>

\* A database error or a restart of the process ends a handler at an await.
\* What it has not committed is gone.
Fail(h) ==
  /\ req[h] # Idle
  /\ Return(h)
  /\ UNCHANGED <<company, recharge, task, ledger, credits>>

Next ==
  \/ \E r \in Recharges, a \in Budgets : CreateRecharge(r, a)
  \/ \E h \in Handlers :
       \/ \E r \in Recharges : CallbackCheck(h, r)
       \/ CallbackRead(h)
       \/ CallbackCommit(h)
       \/ \E t \in Tasks, b \in Budgets : LockFundRead(h, t, b)
       \/ LockFundCommit(h)
       \/ \E t \in Tasks : AcceptTaskRead(h, t)
       \/ AcceptTaskWrite(h)
       \/ \E t \in Tasks : PayCheck(h, t)
       \/ PayRead(h)
       \/ PayCommit(h)
       \/ \E t \in Tasks, b \in Budgets : UnlockRead(h, t, b)
       \/ UnlockUpdate(h)
       \/ UnlockRecord(h)
       \/ \E t \in Tasks, a \in Amounts : VerdictRead(h, t, a)
       \/ VerdictRefund(h)
       \/ Conflict(h)
       \/ Fail(h)

Spec == Init /\ [][Next]_vars

-----------------------------------------------------------------------------
(* Properties *)

\* The values every variable ranges over, and what a continuation's step says
\* about the row it works on.
TypeOK ==
  /\ balance \in Int /\ locked \in Int /\ version \in Nat
  /\ recharge \in [Recharges -> [status: {"none", "pending", "completed"},
                              amount: {0} \cup Amounts]]
  /\ task \in [Tasks -> [status: {"reviewing", "pending_payment", "completed"},
                         lockedAmount: {0} \cup Amounts]]
  /\ ledger \in Ledger
  /\ req \in [Handlers -> Request]
  /\ calls \in Nat
  /\ credits \in [Recharges -> Nat]

\* However lockFund calls, payments, callbacks and unlocks interleave, money
\* that is not there is never reserved: what is free (balance - locked) is
\* short of zero at most by what payForTask paid out for tasks on which
\* nothing was locked, the one payment the code makes without a check.
NeverOverReserved == balance - locked + ledger.unsecured >= 0

\* What makes lockFund's check-then-update sound: while the version it read is
\* still the row's version, the amount it checked is still free.  Every write
\* that takes something has to bump the version for this to hold; the refund,
\* which does not, only adds.
CheckedAmountStillFree ==
  \A h \in Handlers :
    req[h].op = "lf_read" /\ req[h].ver = version => req[h].amount <= balance - locked

\* All credits of recharges.
PaidIn == SumFunction([r \in Recharges |-> credits[r] * recharge[r].amount])

\* The balance is exactly the money credited and refunded minus the settlement
\* rows of the transaction table: no credit or debit is applied without its row,
\* or lost.
LedgerExplainsBalance ==
  balance = PaidIn + ledger.refund - ledger.secured - ledger.unsecured

\* A recharge row says completed exactly when its money is on the account.
CompletedIffCredited ==
  \A r \in Recharges : recharge[r].status = "completed" <=> credits[r] > 0

CallbacksInFlight(r) ==
  {h \in Handlers : req[h].op \in CallbackOps /\ req[h].on = r}

\* handlePayCallback may credit a recharge more than once, but a row that says completed is
\* credited, each delivery credits it at most once and no delivery that starts after the
\* first credit can: the excess is bounded by the deliveries that overlap.
CreditsBoundedByOverlap ==
  /\ CompletedIffCredited
  /\ \A r \in Recharges :
       credits[r] + Cardinality(CallbacksInFlight(r)) <= Cardinality(Handlers)

\* The company's money columns implement the deposit account: each step is one
\* atomic operation of it, a reservation one that is covered at that moment.
Account == INSTANCE CompanyAccount
             WITH bal <- balance, held <- locked, uncovered <- ledger.unsecured,
                  Amounts <- Amounts
ImplementsAccount == Account!Spec

-----------------------------------------------------------------------------
(* What the documents and tests of the repository say of this code, and the  *)
(* code does not do.                                                         *)

\* resolveDispute's comment: a verdict for the company unlocks the money and gives
\* it back.  There is never more on the account than was paid in.
NoMoreThanPaidIn == balance <= PaidIn

=============================================================================
