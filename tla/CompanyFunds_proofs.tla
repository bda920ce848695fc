------------------------- MODULE CompanyFunds_proofs ------------------------
(***************************************************************************)
(* Proofs about CompanyFunds, for any number of handlers, tasks, recharges  *)
(* and any amounts.                                                         *)
(***************************************************************************)
EXTENDS CompanyFunds, FiniteSetTheorems, WellFoundedInduction, TLAPS

-----------------------------------------------------------------------------
(* Sums.  SumFunctionOnSet is defined by recursion over the subsets, an       *)
(* element chosen at each step: such a function exists and is one, and the    *)
(* choice does not matter.                                                  *)

\* Induction over the subsets of a finite set.
LEMMA SubsetInduction ==
  ASSUME NEW S, IsFiniteSet(S), NEW Good,
         \A s \in SUBSET S : (\A u \in SUBSET s : u # s => u \in Good) => s \in Good
  PROVE  \A s \in SUBSET S : s \in Good
  <1> DEFINE Bad == {s \in SUBSET S : s \notin Good}
  <1>1. SUFFICES ASSUME Bad # {} PROVE FALSE
    OBVIOUS
  <1>2. PICK s \in Bad : \A u \in Bad : <<u, s>> \notin StrictSubsetOrdering(S)
    <2>1. IsWellFoundedOn(StrictSubsetOrdering(S), SUBSET S)
      BY FS_StrictSubsetOrderingWellFounded, FS_FiniteSubsetsOfFinite
    <2>2. Bad \subseteq SUBSET S
      OBVIOUS
    <2> HIDE DEF Bad
    <2>3. QED
      BY <1>1, <2>1, <2>2, WFMin
  <1>3. \A u \in SUBSET s : u # s => u \in Good
    BY <1>2 DEF StrictSubsetOrdering
  <1>4. QED
    BY <1>3

\* One element of a set and the others; whether g adds up f over the sets in D; and
\* the function that the definition takes.
One(s) == CHOOSE x \in s : TRUE
Rest(s) == s \ {One(s)}
Adds(f, D, g) == g = [s \in D |-> IF s = {} THEN 0 ELSE f[One(s)] + g[Rest(s)]]
Adder(f, s) == CHOOSE g : Adds(f, SUBSET s, g)

LEMMA RestOf == \A s : s # {} => One(s) \in s /\ Rest(s) \in SUBSET s /\ Rest(s) # s
  BY DEF One, Rest

LEMMA SumIsAdder == \A f, s : SumFunctionOnSet(f, s) = Adder(f, s)[s]
  BY DEF SumFunctionOnSet, FoldFunctionOnSet, MapThenFoldSet, Adder, Adds, One, Rest

\* Functions that add up f agree where both are defined.
LEMMA AddsOnce ==
  ASSUME NEW f, NEW S, IsFiniteSet(S), NEW D, NEW E, SUBSET S \subseteq D, SUBSET S \subseteq E,
         NEW g, Adds(f, D, g), NEW h, Adds(f, E, h)
  PROVE  g[S] = h[S]
  <1> DEFINE Good == {s \in SUBSET S : g[s] = h[s]}
  <1>1. ASSUME NEW s \in SUBSET S, \A u \in SUBSET s : u # s => u \in Good
        PROVE  s \in Good
    <2>1. /\ g[s] = IF s = {} THEN 0 ELSE f[One(s)] + g[Rest(s)]
          /\ h[s] = IF s = {} THEN 0 ELSE f[One(s)] + h[Rest(s)]
      BY DEF Adds
    <2>2. s # {} => g[Rest(s)] = h[Rest(s)]
      BY <1>1, RestOf
    <2>3. QED
      BY <2>1, <2>2
  <1>2. \A s \in SUBSET S : s \in Good
    <2> HIDE DEF Good
    <2>1. QED
      BY <1>1, SubsetInduction
  <1>3. QED
    BY <1>2

\* If there are such functions for a set and for the rest of it, the sum is taken apart.
LEMMA AddsGive ==
  ASSUME NEW f, NEW S, IsFiniteSet(S),
         \A s \in {S, Rest(S)} : s \in SUBSET S => Adds(f, SUBSET s, Adder(f, s))
  PROVE  SumFunctionOnSet(f, S) = IF S = {} THEN 0 ELSE f[One(S)] + SumFunctionOnSet(f, Rest(S))
  <1>1. Adds(f, SUBSET S, Adder(f, S)) /\ S \in SUBSET S
    OBVIOUS
  <1>2. Adder(f, S)[S] = IF S = {} THEN 0 ELSE f[One(S)] + Adder(f, S)[Rest(S)]
    BY <1>1 DEF Adds
  <1>3. ASSUME S # {}
        PROVE  Adder(f, S)[Rest(S)] = Adder(f, Rest(S))[Rest(S)]
    <2>1. Rest(S) \in SUBSET S /\ SUBSET Rest(S) \subseteq SUBSET S /\ IsFiniteSet(Rest(S))
      BY <1>3, RestOf, FS_Subset
    <2>2. Adds(f, SUBSET Rest(S), Adder(f, Rest(S)))
      BY <2>1
    <2>3. QED
      BY <1>1, <2>1, <2>2, AddsOnce
  <1>4. QED
    BY <1>2, <1>3, SumIsAdder

\* There always are: the sums of the smaller sets make one up.
LEMMA SumOf ==
  ASSUME NEW f, NEW S, IsFiniteSet(S)
  PROVE  SumFunctionOnSet(f, S) = IF S = {} THEN 0 ELSE f[One(S)] + SumFunctionOnSet(f, Rest(S))
  <1> DEFINE Good == {s \in SUBSET S : Adds(f, SUBSET s, Adder(f, s))}
  <1>1. ASSUME NEW s \in SUBSET S, \A u \in SUBSET s : u # s => u \in Good
        PROVE  s \in Good
    <2> DEFINE k == [u \in SUBSET s |-> IF u = {} THEN 0
                                        ELSE f[One(u)] + SumFunctionOnSet(f, Rest(u))]
    <2>1. ASSUME NEW u \in SUBSET s, u # s
          PROVE  k[u] = SumFunctionOnSet(f, u)
      <3>1. IsFiniteSet(u)
        BY FS_Subset
      <3>2. \A r \in {u, Rest(u)} : r \in SUBSET u => Adds(f, SUBSET r, Adder(f, r))
        BY <1>1, <2>1
      <3>3. QED
        BY <3>1, <3>2, AddsGive
    <2>2. \A u \in SUBSET s : k[u] = IF u = {} THEN 0 ELSE f[One(u)] + k[Rest(u)]
      <3>1. \A u \in SUBSET s : u # {} => Rest(u) \in SUBSET s /\ Rest(u) # s
        BY RestOf
      <3>2. QED
        BY <2>1, <3>1
    <2>3. k = [u \in SUBSET s |-> k[u]]
      OBVIOUS
    <2> HIDE DEF k
    <2>4. Adds(f, SUBSET s, k)
      BY <2>2, <2>3 DEF Adds
    <2>5. QED
      BY <2>4 DEF Adder
  <1>2. \A s \in SUBSET S : s \in Good
    <2> HIDE DEF Good
    <2>1. QED
      BY <1>1, SubsetInduction
  <1>3. S # {} => Rest(S) \in SUBSET S
    BY RestOf
  <1>4. QED
    BY <1>2, AddsGive

\* A sum is of the kind its terms are.
LEMMA SumWithin ==
  ASSUME NEW f, NEW S, IsFiniteSet(S), NEW T \in {Int, Nat, {0}}, \A x \in S : f[x] \in T
  PROVE  SumFunctionOnSet(f, S) \in T
  <1> DEFINE Good == {s \in SUBSET S : SumFunctionOnSet(f, s) \in T}
  <1>1. ASSUME NEW s \in SUBSET S, \A u \in SUBSET s : u # s => u \in Good
        PROVE  s \in Good
    <2>1. IsFiniteSet(s)
      BY FS_Subset
    <2>2. s # {} => SumFunctionOnSet(f, Rest(s)) \in T /\ f[One(s)] \in T
      BY <1>1, RestOf
    <2>3. QED
      BY <2>1, <2>2, SumOf
  <1> HIDE DEF Good
  <1>2. S \in Good
    BY <1>1, SubsetInduction
  <1>3. QED
    BY <1>2 DEF Good

\* Any element can be taken out.
LEMMA SumTakes ==
  ASSUME NEW f, NEW S, IsFiniteSet(S), \A x \in S : f[x] \in Int
  PROVE  \A x \in S : SumFunctionOnSet(f, S) = f[x] + SumFunctionOnSet(f, S \ {x})
  <1> DEFINE Sub(s) == SumFunctionOnSet(f, s)
             Good == {s \in SUBSET S : \A x \in s : Sub(s) = f[x] + Sub(s \ {x})}
  <1>1. \A s \in SUBSET S : Sub(s) \in Int
    BY FS_Subset, SumWithin
  <1>2. \A s \in SUBSET S : s # {} => Sub(s) = f[One(s)] + Sub(s \ {One(s)})
    BY FS_Subset, SumOf DEF Rest
  <1> HIDE DEF Sub
  <1>3. ASSUME NEW s \in SUBSET S, \A u \in SUBSET s : u # s => u \in Good
        PROVE  s \in Good
    <2>1. SUFFICES ASSUME NEW x \in s PROVE Sub(s) = f[x] + Sub(s \ {x})
      OBVIOUS
    <2> DEFINE c == One(s)
               r == s \ {x, c}
    <2>2. c \in s /\ Sub(s) = f[c] + Sub(s \ {c})
      BY <1>2, RestOf
    <2> HIDE DEF c
    <2>3. ASSUME c # x
          PROVE  Sub(s \ {c}) = f[x] + Sub(r) /\ Sub(s \ {x}) = f[c] + Sub(r)
      <3>1. /\ (s \ {c}) \ {x} = r /\ s \ {c} \in SUBSET s /\ s \ {c} # s /\ x \in s \ {c}
            /\ (s \ {x}) \ {c} = r /\ s \ {x} \in SUBSET s /\ s \ {x} # s /\ c \in s \ {x}
        BY <2>2, <2>3
      <3>2. QED
        BY <1>3, <3>1
    <2>4. f[c] \in Int /\ f[x] \in Int /\ Sub(r) \in Int
      BY <1>1, <2>2
    <2>5. QED
      BY <2>2, <2>3, <2>4
  <1> HIDE DEF Good
  <1>4. S \in Good
    BY <1>3, SubsetInduction
  <1>5. QED
    BY <1>4 DEF Good, Sub

\* A sum goes by the values at the elements only.
LEMMA SameSum ==
  ASSUME NEW S, IsFiniteSet(S), NEW f, NEW h, \A x \in S : f[x] = h[x]
  PROVE  SumFunctionOnSet(f, S) = SumFunctionOnSet(h, S)
  <1> DEFINE Good == {s \in SUBSET S : SumFunctionOnSet(f, s) = SumFunctionOnSet(h, s)}
  <1>1. ASSUME NEW s \in SUBSET S, \A u \in SUBSET s : u # s => u \in Good
        PROVE  s \in Good
    <2>1. IsFiniteSet(s)
      BY FS_Subset
    <2>2. s # {} => /\ SumFunctionOnSet(f, Rest(s)) = SumFunctionOnSet(h, Rest(s))
                    /\ f[One(s)] = h[One(s)]
      BY <1>1, RestOf
    <2>3. QED
      BY <2>1, <2>2, SumOf
  <1> HIDE DEF Good
  <1>2. S \in Good
    BY <1>1, SubsetInduction
  <1>3. QED
    BY <1>2 DEF Good

\* A change at one element changes the sum by as much.
LEMMA SumAfterChange ==
  ASSUME NEW S, IsFiniteSet(S), NEW x \in S, NEW f, NEW h,
         \A y \in S : f[y] \in Int /\ h[y] \in Int,
         \A y \in S \ {x} : f[y] = h[y]
  PROVE  SumFunctionOnSet(h, S) = SumFunctionOnSet(f, S) + (h[x] - f[x])
  <1> DEFINE r == SumFunctionOnSet(f, S \ {x})
  <1>1. r = SumFunctionOnSet(h, S \ {x}) /\ r \in Int
    BY FS_Subset, SameSum, SumWithin
  <1>2. SumFunctionOnSet(f, S) = f[x] + r /\ SumFunctionOnSet(h, S) = h[x] + r
    BY <1>1, SumTakes
  <1> HIDE DEF r
  <1>3. QED
    BY <1>1, <1>2

-----------------------------------------------------------------------------
(* Amounts *)

\* Every amount that can be moved is a natural number of fen, the locked 108 %
\* (rounded up, possibly one fen too far) included.
LEMMA AmountsAreNat ==
  /\ Amounts \subseteq Nat
  /\ \A b \in Budgets : LockAmount(b) \in Amounts
  /\ \A t \in Tasks : TotalBudget[t] \in Amounts
  <1>1. ASSUME NEW b \in Budgets PROVE LockAmount(b) \in Nat
    BY BudgetsAssumption DEF LockAmount
  <1>2. QED
    BY <1>1, BudgetsAssumption DEF Amounts

-----------------------------------------------------------------------------
(* Type correctness *)

LEMMA IdleIsRequest == Idle \in Request
  BY DEF Idle, Request, Ops, CallbackOps, TaskOps

LEMMA RequestFields ==
  ASSUME NEW r \in Request
  PROVE  /\ r.op \in Ops
         /\ r.amount \in Nat \cap ({0} \cup Amounts)
         /\ r.held \in Nat \cap ({0} \cup Amounts)
         /\ r.ver \in Nat
         /\ r.op \in CallbackOps => r.on \in Recharges
         /\ r.op \in TaskOps => r.on \in Tasks
  <1>1. /\ r \in [op: Ops, on: Tasks \cup Recharges \cup {"none"},
                  amount: {0} \cup Amounts, held: {0} \cup Amounts, ver: Nat]
        /\ r.op \in CallbackOps => r.on \in Recharges
        /\ r.op \in TaskOps => r.on \in Tasks
    BY DEF Request
  <1>2. {0} \cup Amounts \subseteq Nat
    BY AmountsAreNat
  <1>3. QED
    BY <1>1, <1>2

\* The variables of every reachable state have their types, and a handler in
\* flight works on a row of the table its step is about.
THEOREM TypeCorrect == Spec => []TypeOK
  <1>1. Init => TypeOK
    BY IdleIsRequest DEF Init, TypeOK, Ledger
  <1>2. TypeOK /\ [Next]_vars => TypeOK'
    <2> SUFFICES ASSUME TypeOK, [Next]_vars PROVE TypeOK'
      OBVIOUS
    <2> USE DEF TypeOK, company
    <2>a. ASSUME NEW h \in Handlers, NEW r \in Request, Begin(h, r)
          PROVE req' \in [Handlers -> Request] /\ calls' \in Nat
      BY <2>a DEF Begin
    <2>b. ASSUME NEW h \in Handlers, NEW r \in Request, Continue(h, r)
          PROVE req' \in [Handlers -> Request] /\ calls' \in Nat
      BY <2>b DEF Continue
    <2>c. ASSUME NEW h \in Handlers, Return(h)
          PROVE req' \in [Handlers -> Request] /\ calls' \in Nat
      BY <2>b, <2>c, IdleIsRequest DEF Return
    <2>1. ASSUME NEW r \in Recharges, NEW a \in Budgets, CreateRecharge(r, a)
          PROVE TypeOK'
      BY <2>1 DEF CreateRecharge, Amounts
    <2>2. ASSUME NEW h \in Handlers, NEW r \in Recharges, CallbackCheck(h, r)
          PROVE TypeOK'
      <3>1. [Idle EXCEPT !.op = "cb_checked", !.on = r,
                         !.amount = recharge[r].amount] \in Request
        BY DEF Idle, Request, Ops, CallbackOps, TaskOps
      <3>2. QED
        BY <2>2, <2>a, <3>1 DEF CallbackCheck
    <2>3. ASSUME NEW h \in Handlers, CallbackRead(h) PROVE TypeOK'
      <3>1. [req[h] EXCEPT !.op = "cb_read", !.ver = version] \in Request
        BY <2>3 DEF CallbackRead, Request, Ops, CallbackOps, TaskOps
      <3>2. QED
        BY <2>3, <2>b, <3>1 DEF CallbackRead
    <2>4. ASSUME NEW h \in Handlers, CallbackCommit(h) PROVE TypeOK'
      <3>1. req[h].on \in Recharges /\ req[h].amount \in Nat
        BY <2>4, RequestFields DEF CallbackCommit, CallbackOps
      <3>2. QED
        BY <2>4, <2>c, <3>1 DEF CallbackCommit
    <2>5. ASSUME NEW h \in Handlers, NEW t \in Tasks, NEW b \in Budgets,
                 LockFundRead(h, t, b)
          PROVE TypeOK'
      <3>1. [Idle EXCEPT !.op = "lf_read", !.on = t, !.amount = LockAmount(b),
                         !.ver = version] \in Request
        BY AmountsAreNat DEF Idle, Request, Ops, CallbackOps, TaskOps
      <3>2. QED
        BY <2>5, <2>a, <3>1 DEF LockFundRead
    <2>6. ASSUME NEW h \in Handlers, LockFundCommit(h) PROVE TypeOK'
      <3>1. /\ req[h].on \in Tasks
            /\ req[h].amount \in Nat
            /\ req[h].amount \in {0} \cup Amounts
        BY <2>6, RequestFields DEF LockFundCommit, TaskOps, Ops, CallbackOps
      <3>2. QED
        BY <2>6, <2>c, <3>1 DEF LockFundCommit, Ledger
    <2>7. ASSUME NEW h \in Handlers, NEW t \in Tasks, AcceptTaskRead(h, t)
          PROVE TypeOK'
      <3>1. [Idle EXCEPT !.op = "ac_read", !.on = t] \in Request
        BY DEF Idle, Request, Ops, CallbackOps, TaskOps
      <3>2. QED
        BY <2>7, <2>a, <3>1 DEF AcceptTaskRead
    <2>8. ASSUME NEW h \in Handlers, AcceptTaskWrite(h) PROVE TypeOK'
      <3>1. req[h].on \in Tasks
        BY <2>8, RequestFields DEF AcceptTaskWrite, TaskOps, Ops, CallbackOps
      <3>2. QED
        BY <2>8, <2>c, <3>1 DEF AcceptTaskWrite
    <2>9. ASSUME NEW h \in Handlers, NEW t \in Tasks, PayCheck(h, t) PROVE TypeOK'
      <3> DEFINE amt == IF task[t].lockedAmount > 0 THEN task[t].lockedAmount
                                                    ELSE TotalBudget[t]
      <3>1. amt \in {0} \cup Amounts
        BY AmountsAreNat
      <3>2. [Idle EXCEPT !.op = "pf_checked", !.on = t,
                         !.held = task[t].lockedAmount, !.amount = amt] \in Request
        BY <3>1 DEF Idle, Request, Ops, CallbackOps, TaskOps
      <3>3. QED
        BY <2>9, <2>a, <3>2 DEF PayCheck
    <2>10. ASSUME NEW h \in Handlers, PayRead(h) PROVE TypeOK'
      <3>1. [req[h] EXCEPT !.op = "pf_read", !.ver = version] \in Request
        BY <2>10 DEF PayRead, Request, Ops, CallbackOps, TaskOps
      <3>2. QED
        BY <2>10, <2>b, <3>1 DEF PayRead
    <2>11. ASSUME NEW h \in Handlers, PayCommit(h) PROVE TypeOK'
      <3>1. req[h].on \in Tasks /\ req[h].amount \in Nat /\ req[h].held \in Nat
        BY <2>11, RequestFields DEF PayCommit, TaskOps, Ops, CallbackOps
      <3>2. ledger' \in Ledger
        BY <2>11, <3>1 DEF PayCommit, Ledger
      <3>3. QED
        BY <2>11, <2>c, <3>1, <3>2 DEF PayCommit
    <2>12. ASSUME NEW h \in Handlers, NEW t \in Tasks, NEW b \in Budgets,
                  UnlockRead(h, t, b)
           PROVE TypeOK'
      <3>1. [Idle EXCEPT !.op = "ul_read", !.on = t, !.amount = LockAmount(b),
                         !.ver = version] \in Request
        BY AmountsAreNat DEF Idle, Request, Ops, CallbackOps, TaskOps
      <3>2. QED
        BY <2>12, <2>a, <3>1 DEF UnlockRead
    <2>13. ASSUME NEW h \in Handlers, UnlockUpdate(h) PROVE TypeOK'
      <3>1. [req[h] EXCEPT !.op = "ul_updated"] \in Request
        BY <2>13 DEF UnlockUpdate, Request, Ops, CallbackOps, TaskOps
      <3>2. req[h].amount \in Nat
        BY RequestFields
      <3>3. locked' \in Int /\ version' \in Nat
        BY <2>13, <3>2 DEF UnlockUpdate
      <3>4. QED
        BY <2>13, <2>b, <3>1, <3>3 DEF UnlockUpdate
    <2>14. ASSUME NEW h \in Handlers, UnlockRecord(h) PROVE TypeOK'
      <3>1. req[h].amount \in Nat
        BY RequestFields
      <3>2. QED
        BY <2>14, <2>c, <3>1 DEF UnlockRecord, Ledger
    <2>15. ASSUME NEW h \in Handlers, Conflict(h) PROVE TypeOK'
      BY <2>15, <2>c DEF Conflict
    <2>16. ASSUME NEW h \in Handlers, Fail(h) PROVE TypeOK'
      BY <2>16, <2>c DEF Fail
    <2>17. ASSUME NEW h \in Handlers, NEW t \in Tasks, NEW a \in Amounts,
                  VerdictRead(h, t, a)
           PROVE TypeOK'
      <3>1. [Idle EXCEPT !.op = "vd_read", !.on = t, !.amount = a] \in Request
        BY DEF Idle, Request, Ops, CallbackOps, TaskOps
      <3>2. QED
        BY <2>17, <2>a, <3>1 DEF VerdictRead
    <2>18. ASSUME NEW h \in Handlers, VerdictRefund(h) PROVE TypeOK'
      <3>1. req[h].amount \in Nat
        BY RequestFields
      <3>2. QED
        BY <2>18, <2>c, <3>1 DEF VerdictRefund, Ledger
    <2>19. CASE UNCHANGED vars
      BY <2>19 DEF vars
    <2>20. QED
      BY <2>1, <2>2, <2>3, <2>4, <2>5, <2>6, <2>7, <2>8, <2>9, <2>10, <2>11,
         <2>12, <2>13, <2>14, <2>15, <2>16, <2>17, <2>18, <2>19 DEF Next
  <1>3. QED
    BY <1>1, <1>2, PTL DEF Spec

-----------------------------------------------------------------------------
(* Reservations *)

\* NeverOverReserved is not inductive: lockFund commits on the strength of a
\* comparison made earlier.  It becomes inductive with what a continuation
\* guarantees: a version is never read ahead of the row, an amount compared
\* under the row's present version is still free, and a payment for a task
\* with locked money takes exactly that money.
ReservationInv ==
  /\ \A h \in Handlers :
       /\ req[h].op = "lf_read" => req[h].ver <= version
       /\ req[h].op \in {"pf_checked", "pf_read"} /\ req[h].held > 0
            => req[h].amount = req[h].held
  /\ CheckedAmountStillFree
  /\ NeverOverReserved

LEMMA ReservationInductive ==
  ASSUME TypeOK, ReservationInv, [Next]_vars
  PROVE  ReservationInv'
  <1> DEFINE Sound(r, bal, loc, ver) ==
        /\ r.op = "lf_read" => r.ver <= ver
        /\ r.op \in {"pf_checked", "pf_read"} /\ r.held > 0 => r.amount = r.held
        /\ r.op = "lf_read" /\ r.ver = ver => r.amount <= bal - loc
  <1>a. /\ \A h \in Handlers : Sound(req[h], balance, locked, version)
        /\ balance - locked + ledger.unsecured >= 0
    BY DEF ReservationInv, CheckedAmountStillFree, NeverOverReserved
  <1>b. /\ balance \in Int /\ locked \in Int /\ version \in Nat
        /\ ledger \in Ledger
        /\ req \in [Handlers -> Request]
    BY DEF TypeOK
  <1>c. Sound(Idle, balance', locked', version')
    BY DEF Idle
  \* A step that takes from the row bumps the version: what others compared is
  \* out of date and no longer matters.  A refund leaves more than they compared.
  <1>d. ASSUME NEW h \in Handlers, NEW r, req' = [req EXCEPT ![h] = r],
               Sound(r, balance', locked', version'),
               \/ UNCHANGED company
               \/ version' = version + 1
               \/ balance' \in Int /\ balance' >= balance /\ UNCHANGED <<locked, version>>,
               balance' - locked' + ledger'.unsecured >= 0
        PROVE  ReservationInv'
    <2>1. ASSUME NEW g \in Handlers
          PROVE  Sound(req'[g], balance', locked', version')
      <3>1. CASE g = h
        BY <1>b, <1>d, <3>1
      <3>2. CASE g # h
        <4>1. req'[g] = req[g] /\ req[g] \in Request
          BY <1>b, <1>d, <3>2
        <4>2. req[g].ver \in Nat /\ req[g].amount \in Nat
          BY <4>1, RequestFields
        <4>3. QED
          BY <1>a, <1>b, <1>d, <4>1, <4>2 DEF company
      <3>3. QED
        BY <3>1, <3>2
    <2>2. QED
      BY <1>d, <2>1 DEF ReservationInv, CheckedAmountStillFree, NeverOverReserved
  <1> HIDE DEF Sound
  <1> USE DEF company
  <1>1. ASSUME NEW r \in Recharges, NEW a \in Budgets, CreateRecharge(r, a)
        PROVE  ReservationInv'
    BY <1>1 DEF CreateRecharge, ReservationInv, CheckedAmountStillFree, NeverOverReserved
  <1>2. ASSUME NEW h \in Handlers, NEW r \in Recharges, CallbackCheck(h, r)
        PROVE  ReservationInv'
    <2>1. Sound([Idle EXCEPT !.op = "cb_checked", !.on = r,
                             !.amount = recharge[r].amount],
                balance', locked', version')
      BY DEF Sound, Idle
    <2>2. QED
      BY <1>2, <1>a, <1>d, <2>1 DEF CallbackCheck, Begin
  <1>3. ASSUME NEW h \in Handlers, CallbackRead(h)
        PROVE  ReservationInv'
    <2>1. Sound([req[h] EXCEPT !.op = "cb_read", !.ver = version],
                balance', locked', version')
      BY RequestFields, <1>b DEF Sound, Request
    <2>2. QED
      BY <1>3, <1>a, <1>d, <2>1 DEF CallbackRead, Continue
  <1>4. ASSUME NEW h \in Handlers, CallbackCommit(h)
        PROVE  ReservationInv'
    <2>1. req[h].amount \in Nat
      BY <1>b, RequestFields
    <2>2. balance' - locked' + ledger'.unsecured >= 0
      BY <1>4, <1>a, <1>b, <2>1 DEF CallbackCommit, Ledger
    <2>3. QED
      BY <1>4, <1>c, <1>d, <2>2 DEF CallbackCommit, Return, Continue
  <1>5. ASSUME NEW h \in Handlers, NEW t \in Tasks, NEW b \in Budgets,
               LockFundRead(h, t, b)
        PROVE  ReservationInv'
    <2>1. Sound([Idle EXCEPT !.op = "lf_read", !.on = t,
                             !.amount = LockAmount(b), !.ver = version],
                balance', locked', version')
      BY <1>5, <1>b DEF Sound, Idle, LockFundRead
    <2>2. QED
      BY <1>5, <1>a, <1>d, <2>1 DEF LockFundRead, Begin
  <1>6. ASSUME NEW h \in Handlers, LockFundCommit(h)
        PROVE  ReservationInv'
    <2>1. req[h].amount \in Nat /\ ledger.unsecured \in Nat
      BY <1>b, RequestFields DEF Ledger
    <2>2. req[h].amount <= balance - locked
      BY <1>6, <1>a DEF LockFundCommit, Sound
    <2>3. balance' - locked' + ledger'.unsecured >= 0
      BY <1>6, <1>b, <2>1, <2>2 DEF LockFundCommit, Ledger
    <2>4. QED
      BY <1>6, <1>c, <1>d, <2>3 DEF LockFundCommit, Return, Continue
  <1>7. ASSUME NEW h \in Handlers, NEW t \in Tasks, AcceptTaskRead(h, t)
        PROVE  ReservationInv'
    <2>1. Sound([Idle EXCEPT !.op = "ac_read", !.on = t], balance', locked', version')
      BY DEF Sound, Idle
    <2>2. QED
      BY <1>7, <1>a, <1>d, <2>1 DEF AcceptTaskRead, Begin
  <1>8. ASSUME NEW h \in Handlers, AcceptTaskWrite(h)
        PROVE  ReservationInv'
    BY <1>8, <1>a, <1>c, <1>d DEF AcceptTaskWrite, Return, Continue
  <1>9. ASSUME NEW h \in Handlers, NEW t \in Tasks, PayCheck(h, t)
        PROVE  ReservationInv'
    <2> DEFINE amt == IF task[t].lockedAmount > 0 THEN task[t].lockedAmount
                                                  ELSE TotalBudget[t]
    <2>1. Sound([Idle EXCEPT !.op = "pf_checked", !.on = t,
                             !.held = task[t].lockedAmount, !.amount = amt],
                balance', locked', version')
      BY DEF Sound, Idle
    <2>2. QED
      BY <1>9, <1>a, <1>d, <2>1 DEF PayCheck, Begin
  <1>10. ASSUME NEW h \in Handlers, PayRead(h)
         PROVE  ReservationInv'
    <2>1. Sound([req[h] EXCEPT !.op = "pf_read", !.ver = version],
                balance', locked', version')
      BY <1>10, <1>a, <1>b DEF Sound, Request, PayRead
    <2>2. QED
      BY <1>10, <1>a, <1>d, <2>1 DEF PayRead, Continue
  <1>11. ASSUME NEW h \in Handlers, PayCommit(h)
         PROVE  ReservationInv'
    <2>1. req[h].amount \in Nat /\ req[h].held \in Nat /\ ledger.unsecured \in Nat
      BY <1>b, RequestFields DEF Ledger
    <2>2. req[h].held > 0 => req[h].amount = req[h].held
      BY <1>11, <1>a DEF PayCommit, Sound
    <2>3. balance' - locked' + ledger'.unsecured >= 0
      <3>1. CASE req[h].held > 0
        BY <1>11, <1>a, <1>b, <2>1, <2>2, <3>1 DEF PayCommit, Ledger
      <3>2. CASE req[h].held = 0
        BY <1>11, <1>a, <1>b, <2>1, <3>2 DEF PayCommit, Ledger
      <3>3. QED
        BY <2>1, <3>1, <3>2
    <2>4. QED
      BY <1>11, <1>c, <1>d, <2>3 DEF PayCommit, Return, Continue
  <1>12. ASSUME NEW h \in Handlers, NEW t \in Tasks, NEW b \in Budgets,
                UnlockRead(h, t, b)
         PROVE  ReservationInv'
    <2>1. Sound([Idle EXCEPT !.op = "ul_read", !.on = t,
                             !.amount = LockAmount(b), !.ver = version],
                balance', locked', version')
      BY DEF Sound, Idle
    <2>2. QED
      BY <1>12, <1>a, <1>d, <2>1 DEF UnlockRead, Begin
  <1>13. ASSUME NEW h \in Handlers, UnlockUpdate(h)
         PROVE  ReservationInv'
    <2>1. Sound([req[h] EXCEPT !.op = "ul_updated"], balance', locked', version')
      BY <1>b DEF Sound, Request
    <2>2. req[h].amount \in Nat /\ ledger.unsecured \in Nat
      BY <1>b, RequestFields DEF Ledger
    <2>3. balance' - locked' + ledger'.unsecured >= 0
      BY <1>13, <1>a, <1>b, <2>2 DEF UnlockUpdate
    <2>4. UNCHANGED company \/ version' = version + 1
      BY <1>13 DEF UnlockUpdate
    <2>5. req' = [req EXCEPT ![h] = [req[h] EXCEPT !.op = "ul_updated"]]
      BY <1>13 DEF UnlockUpdate, Continue
    <2>6. QED
      BY <1>d, <2>1, <2>3, <2>4, <2>5
  <1>14. ASSUME NEW h \in Handlers, UnlockRecord(h)
         PROVE  ReservationInv'
    BY <1>14, <1>a, <1>b, <1>c, <1>d DEF UnlockRecord, Return, Continue, Ledger
  <1>15. ASSUME NEW h \in Handlers, Conflict(h)
         PROVE  ReservationInv'
    BY <1>15, <1>a, <1>c, <1>d DEF Conflict, Return, Continue
  <1>16. ASSUME NEW h \in Handlers, Fail(h)
         PROVE  ReservationInv'
    BY <1>16, <1>a, <1>c, <1>d DEF Fail, Return, Continue
  <1>17. ASSUME NEW h \in Handlers, NEW t \in Tasks, NEW a \in Amounts,
                VerdictRead(h, t, a)
         PROVE  ReservationInv'
    <2>1. Sound([Idle EXCEPT !.op = "vd_read", !.on = t, !.amount = a],
                balance', locked', version')
      BY DEF Sound, Idle
    <2>2. QED
      BY <1>17, <1>a, <1>d, <2>1 DEF VerdictRead, Begin
  <1>18. ASSUME NEW h \in Handlers, VerdictRefund(h)
         PROVE  ReservationInv'
    <2>1. req[h].amount \in Nat /\ ledger.unsecured \in Nat
      BY <1>b, RequestFields DEF Ledger
    <2>2. /\ balance' \in Int /\ balance' >= balance
          /\ UNCHANGED <<locked, version>>
          /\ ledger'.unsecured = ledger.unsecured
      BY <1>18, <1>b, <2>1 DEF VerdictRefund, Ledger
    <2>3. balance' - locked' + ledger'.unsecured >= 0
      BY <1>a, <1>b, <2>1, <2>2
    <2>4. QED
      BY <1>18, <1>c, <1>d, <2>2, <2>3 DEF VerdictRefund, Return, Continue
  <1>19. CASE UNCHANGED vars
    BY <1>19 DEF vars, ReservationInv, CheckedAmountStillFree, NeverOverReserved
  <1>20. QED
    BY <1>1, <1>2, <1>3, <1>4, <1>5, <1>6, <1>7, <1>8, <1>9, <1>10, <1>11,
       <1>12, <1>13, <1>14, <1>15, <1>16, <1>17, <1>18, <1>19 DEF Next

LEMMA ReservationInvariant == Spec => []ReservationInv
  <1>1. Init => ReservationInv
    BY DEF Init, Idle, ReservationInv, CheckedAmountStillFree, NeverOverReserved
  <1>2. QED
    BY <1>1, ReservationInductive, TypeCorrect, PTL DEF Spec

\* lockFund never reserves money that is not free, whatever the handlers that
\* run with it: only payments for tasks on which nothing was locked can bring
\* balance - locked below zero, and by no more than they paid out.
THEOREM NoOverReservation == Spec => []NeverOverReserved
  <1>1. ReservationInv => NeverOverReserved
    BY DEF ReservationInv
  <1>2. QED
    BY <1>1, ReservationInvariant, PTL

\* The comparison lockFund makes holds at its commit if the version does.
THEOREM CheckSurvivesToCommit == Spec => []CheckedAmountStillFree
  <1>1. ReservationInv => CheckedAmountStillFree
    BY DEF ReservationInv
  <1>2. QED
    BY <1>1, ReservationInvariant, PTL

-----------------------------------------------------------------------------
(* Refinement *)

\* Every step of the handlers is one operation of the deposit account, or none:
\* the steps that only read, and a conflict or failure, are stutters; the
\* commit of lockFund is a reservation because the amount is still free then.
LEMMA StepRefines ==
  ASSUME TypeOK, ReservationInv, [Next]_vars
  PROVE  [Account!Next]_(Account!vars)
  <1> USE DEF company, Account!vars
  <1>a. ASSUME UNCHANGED <<company, ledger>>
        PROVE  [Account!Next]_(Account!vars)
    BY <1>a
  <1>b. \A h \in Handlers : req[h] \in Request
    BY DEF TypeOK
  <1>c. /\ balance \in Int /\ locked \in Int /\ version \in Nat
        /\ ledger \in Ledger
    BY DEF TypeOK
  <1>1. ASSUME NEW h \in Handlers, CallbackCommit(h)
        PROVE  [Account!Next]_(Account!vars)
    <2>1. Account!Deposit(req[h].amount)
      BY <1>1 DEF CallbackCommit, Account!Deposit
    <2>2. req[h].amount \in Amounts \/ req[h].amount = 0
      BY <1>b, RequestFields
    <2>3. QED
      BY <2>1, <2>2, <1>c DEF Account!Next, Account!Deposit
  <1>2. ASSUME NEW h \in Handlers, LockFundCommit(h)
        PROVE  [Account!Next]_(Account!vars)
    <2>1. req[h].amount <= balance - locked
      BY <1>2 DEF LockFundCommit, ReservationInv, CheckedAmountStillFree
    <2>2. ledger'.unsecured = ledger.unsecured
      BY <1>2, <1>c DEF LockFundCommit, Ledger
    <2>3. Account!Reserve(req[h].amount)
      BY <1>2, <2>1, <2>2 DEF LockFundCommit, Account!Reserve
    <2>4. req[h].amount \in Amounts \/ req[h].amount = 0
      BY <1>b, RequestFields
    <2>5. QED
      BY <2>3, <2>4, <1>c DEF Account!Next, Account!Reserve
  <1>3. ASSUME NEW h \in Handlers, PayCommit(h)
        PROVE  [Account!Next]_(Account!vars)
    <2>1. /\ req[h].amount \in Nat /\ req[h].held \in Nat
          /\ req[h].amount \in Amounts \/ req[h].amount = 0
      BY <1>b, RequestFields
    <2>2. CASE req[h].held > 0
      <3>1. req[h].amount = req[h].held
        BY <1>3, <2>2 DEF PayCommit, ReservationInv
      <3>2. ledger'.unsecured = ledger.unsecured
        BY <1>3, <1>c, <2>2 DEF PayCommit, Ledger
      <3>3. Account!PayReserved(req[h].amount)
        BY <1>3, <3>1, <3>2 DEF PayCommit, Account!PayReserved
      <3>4. req[h].amount \in Amounts
        BY <2>1, <2>2, <3>1
      <3>5. QED
        BY <3>3, <3>4 DEF Account!Next
    <2>3. CASE req[h].held = 0
      <3>1. /\ ledger'.unsecured = ledger.unsecured + req[h].amount
            /\ locked' = locked
            /\ balance' = balance - req[h].amount
        BY <1>3, <1>c, <2>3 DEF PayCommit, Ledger
      <3>2. Account!PayUnreserved(req[h].amount)
        BY <3>1 DEF Account!PayUnreserved
      <3>3. CASE req[h].amount = 0
        BY <3>1, <3>3, <1>c DEF Ledger
      <3>4. QED
        BY <2>1, <3>2, <3>3 DEF Account!Next
    <2>4. QED
      BY <2>1, <2>2, <2>3
  <1>4. ASSUME NEW h \in Handlers, UnlockUpdate(h)
        PROVE  [Account!Next]_(Account!vars)
    <2>1. UNCHANGED company \/ locked' = locked - req[h].amount
      BY <1>4 DEF UnlockUpdate
    <2>2. UNCHANGED <<balance, ledger>>
      BY <1>4 DEF UnlockUpdate
    <2>3. req[h].amount \in Amounts \/ req[h].amount = 0
      BY <1>b, RequestFields
    <2>4. CASE locked' = locked - req[h].amount
      <3>1. Account!Release(req[h].amount)
        BY <2>2, <2>4 DEF Account!Release
      <3>2. QED
        BY <2>3, <3>1, <1>c DEF Account!Next, Account!Release
    <2>5. QED
      BY <2>1, <2>2, <2>4, <1>a
  <1>5. ASSUME NEW h \in Handlers, UnlockRecord(h)
        PROVE  [Account!Next]_(Account!vars)
    BY <1>5, <1>c DEF UnlockRecord, Ledger
  <1>6. ASSUME NEW r \in Recharges, NEW a \in Budgets, CreateRecharge(r, a)
        PROVE  [Account!Next]_(Account!vars)
    BY <1>6 DEF CreateRecharge
  <1>7. ASSUME NEW h \in Handlers,
               \/ \E r \in Recharges : CallbackCheck(h, r)
               \/ CallbackRead(h)
               \/ \E t \in Tasks, b \in Budgets : LockFundRead(h, t, b)
               \/ \E t \in Tasks : AcceptTaskRead(h, t)
               \/ AcceptTaskWrite(h)
               \/ \E t \in Tasks : PayCheck(h, t)
               \/ PayRead(h)
               \/ \E t \in Tasks, b \in Budgets : UnlockRead(h, t, b)
               \/ \E t \in Tasks, a \in Amounts : VerdictRead(h, t, a)
               \/ Conflict(h)
               \/ Fail(h)
        PROVE  [Account!Next]_(Account!vars)
    BY <1>7, <1>a DEF CallbackCheck, CallbackRead, LockFundRead, AcceptTaskRead,
       AcceptTaskWrite, PayCheck, PayRead, UnlockRead, VerdictRead, Conflict, Fail
  <1>8. ASSUME NEW h \in Handlers, VerdictRefund(h)
        PROVE  [Account!Next]_(Account!vars)
    <2>1. /\ balance' = balance + req[h].amount
          /\ locked' = locked
          /\ ledger'.unsecured = ledger.unsecured
      BY <1>8, <1>c DEF VerdictRefund, Ledger
    <2>2. Account!Deposit(req[h].amount)
      BY <2>1 DEF Account!Deposit
    <2>3. req[h].amount \in Amounts \/ req[h].amount = 0
      BY <1>b, RequestFields
    <2>4. QED
      BY <2>1, <2>2, <2>3, <1>c DEF Account!Next
  <1>9. CASE UNCHANGED vars
    BY <1>9 DEF vars
  <1>10. QED
    BY <1>1, <1>2, <1>3, <1>4, <1>5, <1>6, <1>7, <1>8, <1>9 DEF Next

\* The handlers of the finance service, interleaved in any way, behave as
\* atomic operations on one deposit account.
THEOREM FundsImplementAccount == Spec => ImplementsAccount
  <1>1. Init => Account!Init
    BY DEF Init, Account!Init
  <1>2. QED
    BY <1>1, StepRefines, TypeCorrect, ReservationInvariant, PTL
       DEF Spec, Account!Spec, ImplementsAccount

-----------------------------------------------------------------------------
(* Payment callbacks *)

\* While a recharge is not completed it has not been credited, so the callbacks
\* that found it pending are all the credits it can ever get.
CreditInv == CompletedIffCredited /\ CreditsBoundedByOverlap

LEMMA InFlightIsFinite ==
  ASSUME NEW r \in Recharges
  PROVE  /\ IsFiniteSet(CallbacksInFlight(r))
         /\ Cardinality(CallbacksInFlight(r)) \in Nat
         /\ Cardinality(CallbacksInFlight(r)) <= Cardinality(Handlers)
  <1>1. CallbacksInFlight(r) \subseteq Handlers
    BY DEF CallbacksInFlight
  <1>2. QED
    BY <1>1, HandlersAssumption, FS_Subset, FS_CardinalityType

LEMMA CreditInductive ==
  ASSUME TypeOK, TypeOK', CreditInv, [Next]_vars
  PROVE  CreditInv'
  <1> USE DEF company
  <1>a. /\ req \in [Handlers -> Request]
        /\ credits \in [Recharges -> Nat]
        /\ Cardinality(Handlers) \in Nat
    BY HandlersAssumption, FS_CardinalityType DEF TypeOK
  <1>b. \A r \in Recharges :
          /\ recharge[r].status = "completed" <=> credits[r] > 0
          /\ credits[r] + Cardinality(CallbacksInFlight(r)) <= Cardinality(Handlers)
    BY DEF CreditInv, CompletedIffCredited, CreditsBoundedByOverlap
  \* Steps that start no callback and credit nothing.
  <1>c. ASSUME \A r \in Recharges :
                 /\ recharge'[r].status = "completed" <=> recharge[r].status = "completed"
                 /\ CallbacksInFlight(r)' \subseteq CallbacksInFlight(r),
               UNCHANGED credits
        PROVE  CreditInv'
    <2>1. ASSUME NEW r \in Recharges
          PROVE  Cardinality(CallbacksInFlight(r)') <= Cardinality(CallbacksInFlight(r))
      BY <1>c, InFlightIsFinite, FS_Subset
    <2>2. ASSUME NEW r \in Recharges
          PROVE  Cardinality(CallbacksInFlight(r)') \in Nat
      BY <1>c, InFlightIsFinite, FS_Subset, FS_CardinalityType
    <2>3. ASSUME NEW r \in Recharges
          PROVE  credits'[r] + Cardinality(CallbacksInFlight(r)') <= Cardinality(Handlers)
      BY <1>a, <1>b, <1>c, <2>1, <2>2, InFlightIsFinite
    <2>4. QED
      BY <1>b, <1>c, <2>3 DEF CreditInv, CompletedIffCredited, CreditsBoundedByOverlap,
                              CallbacksInFlight
  \* Replacing a continuation by one that is not a callback, or is the same one.
  <1>d. ASSUME NEW h \in Handlers, NEW q, req' = [req EXCEPT ![h] = q],
               \/ q.op \notin CallbackOps
               \/ req[h].op \in CallbackOps /\ q.on = req[h].on
        PROVE  \A r \in Recharges : CallbacksInFlight(r)' \subseteq CallbacksInFlight(r)
    BY <1>a, <1>d DEF CallbacksInFlight
  <1>e. Idle.op \notin CallbackOps
    BY DEF Idle, CallbackOps
  <1>1. ASSUME NEW r \in Recharges, NEW a \in Budgets, CreateRecharge(r, a)
        PROVE  CreditInv'
    BY <1>1, <1>c DEF CreateRecharge, CallbacksInFlight, TypeOK
  <1>2. ASSUME NEW h \in Handlers, NEW r \in Recharges, CallbackCheck(h, r)
        PROVE  CreditInv'
    <2>1. credits[r] = 0
      BY <1>2, <1>a, <1>b DEF CallbackCheck
    <2>2. ASSUME NEW s \in Recharges
          PROVE  credits'[s] + Cardinality(CallbacksInFlight(s)') <= Cardinality(Handlers)
      <3>1. CASE s = r
        <4>1. CallbacksInFlight(s)' \subseteq Handlers
          BY DEF CallbacksInFlight
        <4>2. Cardinality(CallbacksInFlight(s)') <= Cardinality(Handlers)
          BY <4>1, HandlersAssumption, FS_Subset
        <4>3. Cardinality(CallbacksInFlight(s)') \in Nat
          BY <4>1, HandlersAssumption, FS_Subset, FS_CardinalityType
        <4>4. credits'[s] = 0
          BY <1>2, <2>1, <3>1 DEF CallbackCheck
        <4>5. QED
          BY <4>2, <4>3, <4>4, <1>a
      <3>2. CASE s # r
        <4>1. CallbacksInFlight(s)' = CallbacksInFlight(s)
          BY <1>2, <1>a, <3>2, <1>e DEF CallbackCheck, Begin, CallbacksInFlight, Idle
        <4>2. QED
          BY <1>2, <1>b, <4>1 DEF CallbackCheck
      <3>3. QED
        BY <3>1, <3>2
    <2>3. QED
      BY <1>2, <1>b, <2>2 DEF CallbackCheck, CreditInv, CompletedIffCredited,
                              CreditsBoundedByOverlap, CallbacksInFlight
  <1>3. ASSUME NEW h \in Handlers, CallbackRead(h)
        PROVE  CreditInv'
    <2>1. /\ req[h].op \in CallbackOps
          /\ [req[h] EXCEPT !.op = "cb_read", !.ver = version].on = req[h].on
      BY <1>3, <1>a DEF CallbackRead, CallbackOps, Request
    <2>2. \A r \in Recharges : CallbacksInFlight(r)' \subseteq CallbacksInFlight(r)
      BY <1>3, <1>d, <2>1 DEF CallbackRead, Continue
    <2>3. QED
      BY <1>3, <1>c, <2>2 DEF CallbackRead
  <1>4. ASSUME NEW h \in Handlers, CallbackCommit(h)
        PROVE  CreditInv'
    <2>1. PICK c \in Recharges : c = req[h].on
      BY <1>4, <1>a, RequestFields DEF CallbackCommit, CallbackOps
    <2>2. /\ credits' = [credits EXCEPT ![c] = @ + 1]
          /\ recharge' = [recharge EXCEPT ![c].status = "completed"]
          /\ req' = [req EXCEPT ![h] = Idle]
      BY <1>4, <2>1 DEF CallbackCommit, Return, Continue
    <2>3. h \in CallbacksInFlight(c)
      BY <1>4, <2>1 DEF CallbacksInFlight, CallbackCommit, CallbackOps
    <2>4. CallbacksInFlight(c)' = CallbacksInFlight(c) \ {h}
      BY <1>a, <1>e, <2>1, <2>2 DEF CallbacksInFlight
    <2>5. Cardinality(CallbacksInFlight(c)') = Cardinality(CallbacksInFlight(c)) - 1
      BY <2>1, <2>3, <2>4, InFlightIsFinite, FS_RemoveElement
    <2>6. ASSUME NEW s \in Recharges, s # c
          PROVE  /\ CallbacksInFlight(s)' = CallbacksInFlight(s)
                 /\ credits'[s] = credits[s]
                 /\ recharge'[s] = recharge[s]
      BY <1>a, <1>e, <2>1, <2>2, <2>6 DEF CallbacksInFlight, TypeOK
    <2>7. credits'[c] = credits[c] + 1 /\ recharge'[c].status = "completed"
      BY <1>a, <2>1, <2>2 DEF TypeOK
    <2>8. ASSUME NEW s \in Recharges
          PROVE  /\ recharge'[s].status = "completed" <=> credits'[s] > 0
                 /\ credits'[s] + Cardinality(CallbacksInFlight(s)') <= Cardinality(Handlers)
      <3>1. CASE s = c
        BY <1>a, <1>b, <2>1, <2>5, <2>7, <3>1, InFlightIsFinite
      <3>2. CASE s # c
        BY <1>b, <2>6, <3>2
      <3>3. QED
        BY <3>1, <3>2
    <2>9. QED
      BY <2>8 DEF CreditInv, CompletedIffCredited, CreditsBoundedByOverlap, CallbacksInFlight
  <1>5. ASSUME NEW h \in Handlers, NEW q,
               UNCHANGED <<recharge, credits>>,
               req' = [req EXCEPT ![h] = q],
               q.op \notin CallbackOps
        PROVE  CreditInv'
    <2>1. \A r \in Recharges : CallbacksInFlight(r)' \subseteq CallbacksInFlight(r)
      BY <1>5, <1>d
    <2>2. QED
      BY <1>5, <1>c, <2>1
  <1>6. ASSUME NEW h \in Handlers, NEW t \in Tasks, NEW b \in Budgets,
               LockFundRead(h, t, b) \/ UnlockRead(h, t, b)
        PROVE  CreditInv'
    BY <1>6, <1>5 DEF LockFundRead, UnlockRead, Begin, Idle, CallbackOps
  <1>7. ASSUME NEW h \in Handlers, NEW t \in Tasks,
               AcceptTaskRead(h, t) \/ PayCheck(h, t)
        PROVE  CreditInv'
    BY <1>7, <1>5 DEF AcceptTaskRead, PayCheck, Begin, Idle, CallbackOps
  <1>8. ASSUME NEW h \in Handlers,
               LockFundCommit(h) \/ AcceptTaskWrite(h) \/ PayCommit(h)
                 \/ UnlockRecord(h) \/ VerdictRefund(h) \/ Conflict(h) \/ Fail(h)
        PROVE  CreditInv'
    BY <1>8, <1>5, <1>e DEF LockFundCommit, AcceptTaskWrite, PayCommit, UnlockRecord,
                            VerdictRefund, Conflict, Fail, Return, Continue
  <1>9. ASSUME NEW h \in Handlers, PayRead(h) \/ UnlockUpdate(h)
        PROVE  CreditInv'
    <2>1. /\ [req[h] EXCEPT !.op = "pf_read", !.ver = version].op \notin CallbackOps
          /\ [req[h] EXCEPT !.op = "ul_updated"].op \notin CallbackOps
      BY <1>a DEF Request, CallbackOps
    <2>2. QED
      BY <1>9, <1>5, <2>1 DEF PayRead, UnlockUpdate, Continue
  <1>10. ASSUME NEW h \in Handlers, NEW t \in Tasks, NEW a \in Amounts,
                VerdictRead(h, t, a)
        PROVE  CreditInv'
    BY <1>10, <1>5 DEF VerdictRead, Begin, Idle, CallbackOps
  <1>11. CASE UNCHANGED vars
    BY <1>11, <1>c DEF vars, CallbacksInFlight
  <1>12. QED
    BY <1>1, <1>2, <1>3, <1>4, <1>6, <1>7, <1>8, <1>9, <1>10, <1>11 DEF Next

LEMMA CreditInvariant == Spec => []CreditInv
  <1>1. Init => CreditInv
    <2>1. ASSUME Init, NEW r \in Recharges
          PROVE  /\ recharge[r].status = "completed" <=> credits[r] > 0
                 /\ credits[r] + Cardinality(CallbacksInFlight(r)) <= Cardinality(Handlers)
      <3>1. CallbacksInFlight(r) = {}
        BY <2>1 DEF Init, CallbacksInFlight, Idle, CallbackOps
      <3>2. Cardinality(CallbacksInFlight(r)) = 0
        BY <3>1, FS_EmptySet
      <3>3. QED
        BY <2>1, <3>2, HandlersAssumption, FS_CardinalityType DEF Init
    <2>2. QED
      BY <2>1 DEF CreditInv, CompletedIffCredited, CreditsBoundedByOverlap
  <1>2. QED
    BY <1>1, CreditInductive, TypeCorrect, PTL DEF Spec

\* A recharge row is completed exactly when its money was credited, and it is
\* credited at most as often as callbacks for it were in flight together: a
\* delivery that comes after the first credit changes nothing.
THEOREM CreditsBounded == Spec => []CreditsBoundedByOverlap
  <1>1. CreditInv => CreditsBoundedByOverlap
    BY DEF CreditInv
  <1>2. QED
    BY <1>1, CreditInvariant, PTL

-----------------------------------------------------------------------------
(* The ledger *)

\* A callback under way credits the amount of its recharge, which exists.
CallbackInv ==
  \A h \in Handlers :
    req[h].op \in CallbackOps =>
      recharge[req[h].on].status # "none" /\ req[h].amount = recharge[req[h].on].amount

\* What is summed up over the recharges.
CreditsOf == [r \in Recharges |-> credits[r] * recharge[r].amount]

LEMMA PaidInIsSum ==
  /\ PaidIn = SumFunctionOnSet(CreditsOf, Recharges)
  /\ PaidIn' = SumFunctionOnSet(CreditsOf', Recharges)
  BY DEF PaidIn, CreditsOf, SumFunction

LEMMA CreditsAreNat ==
  ASSUME TypeOK, TypeOK'
  PROVE  \A r \in Recharges : CreditsOf[r] \in Nat /\ CreditsOf'[r] \in Nat
  <1>1. \A r \in Recharges : /\ credits[r] \in Nat /\ recharge[r].amount \in {0} \cup Amounts
                             /\ credits'[r] \in Nat /\ recharge'[r].amount \in {0} \cup Amounts
    BY DEF TypeOK
  <1>2. {0} \cup Amounts \subseteq Nat
    BY AmountsAreNat
  <1>3. \A m, n \in Nat : m * n \in Nat
    OBVIOUS
  <1>4. QED
    BY <1>1, <1>2, <1>3 DEF CreditsOf

LEMMA LedgerInductive ==
  ASSUME TypeOK, TypeOK', CompletedIffCredited, CallbackInv, LedgerExplainsBalance, [Next]_vars
  PROVE  CallbackInv' /\ LedgerExplainsBalance'
  <1> USE DEF company
  <1>a. /\ req \in [Handlers -> Request]
        /\ balance \in Int /\ ledger \in Ledger
        /\ balance = PaidIn + ledger.refund - ledger.secured - ledger.unsecured
        /\ PaidIn \in Int
    <2>1. PaidIn \in Nat
      BY PaidInIsSum, CreditsAreNat, HandlersAssumption, SumWithin
    <2>2. QED
      BY <2>1 DEF TypeOK, LedgerExplainsBalance
  \* A step of a handler that credits no recharge.
  <1>b. ASSUME UNCHANGED <<recharge, credits>>
        PROVE  PaidIn' = PaidIn
    BY <1>b DEF PaidIn
  <1>c. ASSUME UNCHANGED <<recharge, credits, balance>>,
               ledger'.refund = ledger.refund, ledger'.secured = ledger.secured,
               ledger'.unsecured = ledger.unsecured
        PROVE  LedgerExplainsBalance'
    BY <1>a, <1>b, <1>c DEF LedgerExplainsBalance
  <1>d. ASSUME NEW h \in Handlers, NEW q, req' = [req EXCEPT ![h] = q], recharge' = recharge,
               \/ q.op \notin CallbackOps
               \/ req[h].op \in CallbackOps /\ q.on = req[h].on /\ q.amount = req[h].amount
        PROVE  CallbackInv'
    BY <1>a, <1>d DEF CallbackInv
  <1>e. Idle.op \notin CallbackOps
    BY DEF Idle, CallbackOps
  <1>1. ASSUME NEW r \in Recharges, NEW a \in Budgets, CreateRecharge(r, a)
        PROVE  CallbackInv' /\ LedgerExplainsBalance'
    <2>1. credits[r] = 0 /\ recharge[r].status = "none" /\ recharge'[r].amount \in Nat
          /\ credits' = credits /\ recharge[r].amount \in Nat
      <3>1. credits[r] \in Nat /\ recharge[r].status # "completed"
        BY <1>1 DEF TypeOK, CreateRecharge
      <3>2. recharge'[r].amount \in {0} \cup Amounts /\ recharge[r].amount \in {0} \cup Amounts
        BY DEF TypeOK
      <3>3. {0} \cup Amounts \subseteq Nat
        BY AmountsAreNat
      <3>4. credits[r] = 0 /\ recharge[r].status = "none" /\ credits' = credits
        BY <1>1, <3>1 DEF CreateRecharge, CompletedIffCredited
      <3>5. QED
        BY <3>2, <3>3, <3>4
    <2>2. \A s \in Recharges : s # r => recharge'[s] = recharge[s]
      BY <1>1 DEF CreateRecharge, TypeOK
    <2>3. \A s \in Recharges : CreditsOf[s] = CreditsOf'[s]
      BY <2>1, <2>2 DEF CreditsOf
    <2>4. PaidIn' = PaidIn
      BY <2>3, PaidInIsSum, HandlersAssumption, SameSum
    <2>5. CallbackInv'
      <3>1. \A h \in Handlers : req[h].op \in CallbackOps => req[h].on \in Recharges
        BY <1>a, RequestFields
      <3>2. req' = req
        BY <1>1 DEF CreateRecharge
      <3>3. QED
        BY <2>1, <2>2, <3>1, <3>2 DEF CallbackInv
    <2>6. QED
      BY <1>1, <1>a, <2>4, <2>5 DEF CreateRecharge, LedgerExplainsBalance
  <1>2. ASSUME NEW h \in Handlers, NEW r \in Recharges, CallbackCheck(h, r)
        PROVE  CallbackInv' /\ LedgerExplainsBalance'
    <2> DEFINE q == [Idle EXCEPT !.op = "cb_checked", !.on = r, !.amount = recharge[r].amount]
    <2>1. q.on = r /\ q.amount = recharge[r].amount
      BY DEF Idle
    <2>2. req' = [req EXCEPT ![h] = q] /\ recharge[r].status = "pending"
      BY <1>2 DEF CallbackCheck, Begin
    <2> HIDE DEF q
    <2>3. CallbackInv'
      BY <1>2, <1>a, <2>1, <2>2 DEF CallbackInv, CallbackCheck
    <2>4. QED
      BY <1>2, <1>c, <2>3 DEF CallbackCheck
  <1>3. ASSUME NEW h \in Handlers, CallbackRead(h)
        PROVE  CallbackInv' /\ LedgerExplainsBalance'
    <2> DEFINE q == [req[h] EXCEPT !.op = "cb_read", !.ver = version]
    <2>1. q.on = req[h].on /\ q.amount = req[h].amount /\ req[h].op \in CallbackOps
      BY <1>3, <1>a DEF CallbackRead, CallbackOps, Request
    <2>2. req' = [req EXCEPT ![h] = q]
      BY <1>3 DEF CallbackRead, Continue
    <2> HIDE DEF q
    <2>3. QED
      BY <1>3, <1>c, <1>d, <2>1, <2>2 DEF CallbackRead
  <1>4. ASSUME NEW h \in Handlers, CallbackCommit(h)
        PROVE  CallbackInv' /\ LedgerExplainsBalance'
    <2>1. PICK c \in Recharges : c = req[h].on
      BY <1>4, <1>a, RequestFields DEF CallbackCommit, CallbackOps
    <2>2. /\ credits' = [credits EXCEPT ![c] = @ + 1]
          /\ recharge' = [recharge EXCEPT ![c].status = "completed"]
          /\ req' = [req EXCEPT ![h] = Idle]
          /\ balance' = balance + req[h].amount /\ ledger' = ledger
      BY <1>4, <2>1 DEF CallbackCommit, Return, Continue
    <2> DEFINE a == recharge[c].amount
               n == credits[c]
    <2>3. req[h].amount = a
      BY <1>4, <2>1 DEF CallbackInv, CallbackCommit, CallbackOps
    <2>4. n \in Nat /\ a \in Nat
      <3>1. n \in Nat /\ a \in {0} \cup Amounts
        BY DEF TypeOK
      <3>2. {0} \cup Amounts \subseteq Nat
        BY AmountsAreNat
      <3>3. QED
        BY <3>1, <3>2
    <2>5. /\ credits'[c] = n + 1 /\ recharge'[c].amount = a
          /\ \A s \in Recharges : recharge'[s].amount = recharge[s].amount
          /\ \A s \in Recharges : recharge[s].status # "none" => recharge'[s].status # "none"
          /\ \A s \in Recharges : s # c => credits'[s] = credits[s]
      BY <2>2 DEF TypeOK
    <2>6. CreditsOf[c] = n * a /\ CreditsOf'[c] = (n + 1) * a
      BY <2>5 DEF CreditsOf
    <2>7. \A s \in Recharges \ {c} : CreditsOf[s] = CreditsOf'[s]
      BY <2>5 DEF CreditsOf
    <2> HIDE DEF a, n
    <2>8. PaidIn' = PaidIn + ((n + 1) * a - n * a)
      <3>1. \A s \in Recharges : CreditsOf[s] \in Int /\ CreditsOf'[s] \in Int
        BY CreditsAreNat
      <3>2. SumFunctionOnSet(CreditsOf', Recharges) =
              SumFunctionOnSet(CreditsOf, Recharges) + (CreditsOf'[c] - CreditsOf[c])
        BY <2>7, <3>1, HandlersAssumption, SumAfterChange
      <3>3. QED
        BY <2>6, <3>2, PaidInIsSum
    <2>9. (n + 1) * a - n * a = a
      BY <2>4
    <2>10. LedgerExplainsBalance'
      BY <1>a, <2>2, <2>3, <2>4, <2>8, <2>9 DEF LedgerExplainsBalance, Ledger
    <2>11. CallbackInv'
      <3>1. \A k \in Handlers : req[k].op \in CallbackOps => req[k].on \in Recharges
        BY <1>a, RequestFields
      <3>2. QED
        BY <1>a, <1>e, <2>2, <2>5, <3>1 DEF CallbackInv
    <2>12. QED
      BY <2>10, <2>11
  <1>5. ASSUME NEW h \in Handlers, NEW q, req' = [req EXCEPT ![h] = q], q.op \notin CallbackOps,
               UNCHANGED <<recharge, credits, balance>>,
               ledger'.refund = ledger.refund, ledger'.secured = ledger.secured,
               ledger'.unsecured = ledger.unsecured
        PROVE  CallbackInv' /\ LedgerExplainsBalance'
    BY <1>5, <1>c, <1>d
  <1>6. ASSUME NEW h \in Handlers, NEW t \in Tasks, NEW b \in Budgets,
               LockFundRead(h, t, b) \/ UnlockRead(h, t, b)
        PROVE  CallbackInv' /\ LedgerExplainsBalance'
    BY <1>6, <1>5 DEF LockFundRead, UnlockRead, Begin, Idle, CallbackOps
  <1>7. ASSUME NEW h \in Handlers, NEW t \in Tasks, AcceptTaskRead(h, t) \/ PayCheck(h, t)
        PROVE  CallbackInv' /\ LedgerExplainsBalance'
    BY <1>7, <1>5 DEF AcceptTaskRead, PayCheck, Begin, Idle, CallbackOps
  <1>8. ASSUME NEW h \in Handlers,
               LockFundCommit(h) \/ AcceptTaskWrite(h) \/ UnlockRecord(h) \/ Conflict(h) \/ Fail(h)
        PROVE  CallbackInv' /\ LedgerExplainsBalance'
    <2>1. /\ ledger'.refund = ledger.refund /\ ledger'.secured = ledger.secured
          /\ ledger'.unsecured = ledger.unsecured
      BY <1>8, <1>a DEF LockFundCommit, AcceptTaskWrite, UnlockRecord, Conflict, Fail, Ledger
    <2>2. QED
      BY <1>8, <1>5, <1>e, <2>1 DEF LockFundCommit, AcceptTaskWrite, UnlockRecord, Conflict,
         Fail, Return, Continue
  <1>9. ASSUME NEW h \in Handlers, PayRead(h) \/ UnlockUpdate(h)
        PROVE  CallbackInv' /\ LedgerExplainsBalance'
    <2>1. /\ [req[h] EXCEPT !.op = "pf_read", !.ver = version].op \notin CallbackOps
          /\ [req[h] EXCEPT !.op = "ul_updated"].op \notin CallbackOps
      BY <1>a DEF Request, CallbackOps
    <2>2. QED
      BY <1>9, <1>5, <2>1 DEF PayRead, UnlockUpdate, Continue
  <1>10. ASSUME NEW h \in Handlers, NEW t \in Tasks, NEW a \in Amounts, VerdictRead(h, t, a)
         PROVE  CallbackInv' /\ LedgerExplainsBalance'
    BY <1>10, <1>5 DEF VerdictRead, Begin, Idle, CallbackOps
  <1>11. ASSUME NEW h \in Handlers, PayCommit(h) \/ VerdictRefund(h)
         PROVE  CallbackInv' /\ LedgerExplainsBalance'
    <2>1. req[h].amount \in Nat
      BY <1>a, RequestFields
    <2>2. CallbackInv' /\ PaidIn' = PaidIn
      BY <1>11, <1>b, <1>d, <1>e DEF PayCommit, VerdictRefund, Return, Continue
    <2>3. LedgerExplainsBalance'
      <3>1. CASE PayCommit(h) /\ req[h].held > 0
        <4>1. ledger' = [ledger EXCEPT !.secured = @ + req[h].amount]
              /\ balance' = balance - req[h].amount
          BY <3>1 DEF PayCommit
        <4>2. QED
          BY <1>a, <2>1, <2>2, <4>1 DEF LedgerExplainsBalance, Ledger
      <3>2. CASE PayCommit(h) /\ ~ (req[h].held > 0)
        <4>1. ledger' = [ledger EXCEPT !.unsecured = @ + req[h].amount]
              /\ balance' = balance - req[h].amount
          BY <3>2 DEF PayCommit
        <4>2. QED
          BY <1>a, <2>1, <2>2, <4>1 DEF LedgerExplainsBalance, Ledger
      <3>3. CASE VerdictRefund(h)
        BY <1>a, <2>1, <2>2, <3>3 DEF VerdictRefund, LedgerExplainsBalance, Ledger
      <3>4. QED
        BY <1>11, <3>1, <3>2, <3>3
    <2>4. QED
      BY <2>2, <2>3
  <1>12. CASE UNCHANGED vars
    BY <1>12, <1>c DEF vars, CallbackInv
  <1>13. QED
    BY <1>1, <1>2, <1>3, <1>4, <1>6, <1>7, <1>8, <1>9, <1>10, <1>11, <1>12 DEF Next

\* The balance is what was credited and refunded less the settlement rows, for any recharges
\* and any number of handlers: nothing is credited or debited without its row, or lost.
THEOREM LedgerAgrees == Spec => []LedgerExplainsBalance
  <1>1. Init => CallbackInv /\ LedgerExplainsBalance
    <2> SUFFICES ASSUME Init PROVE CallbackInv /\ LedgerExplainsBalance
      OBVIOUS
    <2>1. CallbackInv
      BY DEF Init, CallbackInv, Idle, CallbackOps
    <2>2. \A r \in Recharges : CreditsOf[r] = 0
      BY DEF Init, CreditsOf
    <2>3. PaidIn = 0
      BY <2>2, PaidInIsSum, HandlersAssumption, SumWithin
    <2>4. QED
      BY <2>1, <2>3 DEF Init, LedgerExplainsBalance
  <1>2. TypeOK /\ TypeOK' /\ CompletedIffCredited /\ CallbackInv /\ LedgerExplainsBalance
          /\ [Next]_vars => CallbackInv' /\ LedgerExplainsBalance'
    BY LedgerInductive
  <1>3. CreditInv => CompletedIffCredited
    BY DEF CreditInv
  <1>4. QED
    BY <1>1, <1>2, <1>3, CreditInvariant, TypeCorrect, PTL DEF Spec

=============================================================================
