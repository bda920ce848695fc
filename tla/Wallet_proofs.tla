---------------------------- MODULE Wallet_proofs ---------------------------
(***************************************************************************)
(* Proofs about Wallet, for any number of handlers and withdrawals and any  *)
(* amounts.                                                                 *)
(***************************************************************************)
EXTENDS Wallet, FiniteSetTheorems, WellFoundedInduction, TLAPS

-----------------------------------------------------------------------------
(* Sums.  SumFunctionOnSet is defined by recursion over the subsets, an       *)
(* element chosen at each step: such a function exists and is one, and the    *)
(* choice does not matter.                                                  *)

\* Induction over the subsets of a finite set.
LEMMA SubsetInduction ==
  ASSUME NEW S, IsFiniteSet(S), NEW Good,
         \A s \in SUBSET S : (\A u \in SUBSET s : u # s => u \in Good) => s \in Good
  PROVE  \A s \in SUBSET S : s \in Good
  <1> DEFINE Bad == {s \in SUBSET S : s \notin Good}
  <1>1. SUFFICES ASSUME Bad # {} PROVE FALSE
    OBVIOUS
  <1>2. PICK s \in Bad : \A u \in Bad : <<u, s>> \notin StrictSubsetOrdering(S)
    <2>1. IsWellFoundedOn(StrictSubsetOrdering(S), SUBSET S)
      BY FS_StrictSubsetOrderingWellFounded, FS_FiniteSubsetsOfFinite
    <2>2. Bad \subseteq SUBSET S
      OBVIOUS
    <2> HIDE DEF Bad
    <2>3. QED
      BY <1>1, <2>1, <2>2, WFMin
  <1>3. \A u \in SUBSET s : u # s => u \in Good
    BY <1>2 DEF StrictSubsetOrdering
  <1>4. QED
    BY <1>3

\* One element of a set and the others; whether g adds up f over the sets in D; and
\* the function that the definition takes.
One(s) == CHOOSE x \in s : TRUE
Rest(s) == s \ {One(s)}
Adds(f, D, g) == g = [s \in D |-> IF s = {} THEN 0 ELSE f[One(s)] + g[Rest(s)]]
Adder(f, s) == CHOOSE g : Adds(f, SUBSET s, g)

LEMMA RestOf == \A s : s # {} => One(s) \in s /\ Rest(s) \in SUBSET s /\ Rest(s) # s
  BY DEF One, Rest

LEMMA SumIsAdder == \A f, s : SumFunctionOnSet(f, s) = Adder(f, s)[s]
  BY DEF SumFunctionOnSet, FoldFunctionOnSet, MapThenFoldSet, Adder, Adds, One, Rest

\* Functions that add up f agree where both are defined.
LEMMA AddsOnce ==
  ASSUME NEW f, NEW S, IsFiniteSet(S), NEW D, NEW E, SUBSET S \subseteq D, SUBSET S \subseteq E,
         NEW g, Adds(f, D, g), NEW h, Adds(f, E, h)
  PROVE  g[S] = h[S]
  <1> DEFINE Good == {s \in SUBSET S : g[s] = h[s]}
  <1>1. ASSUME NEW s \in SUBSET S, \A u \in SUBSET s : u # s => u \in Good
        PROVE  s \in Good
    <2>1. /\ g[s] = IF s = {} THEN 0 ELSE f[One(s)] + g[Rest(s)]
          /\ h[s] = IF s = {} THEN 0 ELSE f[One(s)] + h[Rest(s)]
      BY DEF Adds
    <2>2. s # {} => g[Rest(s)] = h[Rest(s)]
      BY <1>1, RestOf
    <2>3. QED
      BY <2>1, <2>2
  <1>2. \A s \in SUBSET S : s \in Good
    <2> HIDE DEF Good
    <2>1. QED
      BY <1>1, SubsetInduction
  <1>3. QED
    BY <1>2

\* If there are such functions for a set and for the rest of it, the sum is taken apart.
LEMMA AddsGive ==
  ASSUME NEW f, NEW S, IsFiniteSet(S),
         \A s \in {S, Rest(S)} : s \in SUBSET S => Adds(f, SUBSET s, Adder(f, s))
  PROVE  SumFunctionOnSet(f, S) = IF S = {} THEN 0 ELSE f[One(S)] + SumFunctionOnSet(f, Rest(S))
  <1>1. Adds(f, SUBSET S, Adder(f, S)) /\ S \in SUBSET S
    OBVIOUS
  <1>2. Adder(f, S)[S] = IF S = {} THEN 0 ELSE f[One(S)] + Adder(f, S)[Rest(S)]
    BY <1>1 DEF Adds
  <1>3. ASSUME S # {}
        PROVE  Adder(f, S)[Rest(S)] = Adder(f, Rest(S))[Rest(S)]
    <2>1. Rest(S) \in SUBSET S /\ SUBSET Rest(S) \subseteq SUBSET S /\ IsFiniteSet(Rest(S))
      BY <1>3, RestOf, FS_Subset
    <2>2. Adds(f, SUBSET Rest(S), Adder(f, Rest(S)))
      BY <2>1
    <2>3. QED
      BY <1>1, <2>1, <2>2, AddsOnce
  <1>4. QED
    BY <1>2, <1>3, SumIsAdder

\* There always are: the sums of the smaller sets make one up.
LEMMA SumOf ==
  ASSUME NEW f, NEW S, IsFiniteSet(S)
  PROVE  SumFunctionOnSet(f, S) = IF S = {} THEN 0 ELSE f[One(S)] + SumFunctionOnSet(f, Rest(S))
  <1> DEFINE Good == {s \in SUBSET S : Adds(f, SUBSET s, Adder(f, s))}
  <1>1. ASSUME NEW s \in SUBSET S, \A u \in SUBSET s : u # s => u \in Good
        PROVE  s \in Good
    <2> DEFINE k == [u \in SUBSET s |-> IF u = {} THEN 0
                                        ELSE f[One(u)] + SumFunctionOnSet(f, Rest(u))]
    <2>1. ASSUME NEW u \in SUBSET s, u # s
          PROVE  k[u] = SumFunctionOnSet(f, u)
      <3>1. IsFiniteSet(u)
        BY FS_Subset
      <3>2. \A r \in {u, Rest(u)} : r \in SUBSET u => Adds(f, SUBSET r, Adder(f, r))
        BY <1>1, <2>1
      <3>3. QED
        BY <3>1, <3>2, AddsGive
    <2>2. \A u \in SUBSET s : k[u] = IF u = {} THEN 0 ELSE f[One(u)] + k[Rest(u)]
      <3>1. \A u \in SUBSET s : u # {} => Rest(u) \in SUBSET s /\ Rest(u) # s
        BY RestOf
      <3>2. QED
        BY <2>1, <3>1
    <2>3. k = [u \in SUBSET s |-> k[u]]
      OBVIOUS
    <2> HIDE DEF k
    <2>4. Adds(f, SUBSET s, k)
      BY <2>2, <2>3 DEF Adds
    <2>5. QED
      BY <2>4 DEF Adder
  <1>2. \A s \in SUBSET S : s \in Good
    <2> HIDE DEF Good
    <2>1. QED
      BY <1>1, SubsetInduction
  <1>3. S # {} => Rest(S) \in SUBSET S
    BY RestOf
  <1>4. QED
    BY <1>2, AddsGive

\* A sum is of the kind its terms are.
LEMMA SumWithin ==
  ASSUME NEW f, NEW S, IsFiniteSet(S), NEW T \in {Int, Nat, {0}}, \A x \in S : f[x] \in T
  PROVE  SumFunctionOnSet(f, S) \in T
  <1> DEFINE Good == {s \in SUBSET S : SumFunctionOnSet(f, s) \in T}
  <1>1. ASSUME NEW s \in SUBSET S, \A u \in SUBSET s : u # s => u \in Good
        PROVE  s \in Good
    <2>1. IsFiniteSet(s)
      BY FS_Subset
    <2>2. s # {} => SumFunctionOnSet(f, Rest(s)) \in T /\ f[One(s)] \in T
      BY <1>1, RestOf
    <2>3. QED
      BY <2>1, <2>2, SumOf
  <1> HIDE DEF Good
  <1>2. S \in Good
    BY <1>1, SubsetInduction
  <1>3. QED
    BY <1>2 DEF Good

\* Any element can be taken out.
LEMMA SumTakes ==
  ASSUME NEW f, NEW S, IsFiniteSet(S), \A x \in S : f[x] \in Int
  PROVE  \A x \in S : SumFunctionOnSet(f, S) = f[x] + SumFunctionOnSet(f, S \ {x})
  <1> DEFINE Sub(s) == SumFunctionOnSet(f, s)
             Good == {s \in SUBSET S : \A x \in s : Sub(s) = f[x] + Sub(s \ {x})}
  <1>1. \A s \in SUBSET S : Sub(s) \in Int
    BY FS_Subset, SumWithin
  <1>2. \A s \in SUBSET S : s # {} => Sub(s) = f[One(s)] + Sub(s \ {One(s)})
    BY FS_Subset, SumOf DEF Rest
  <1> HIDE DEF Sub
  <1>3. ASSUME NEW s \in SUBSET S, \A u \in SUBSET s : u # s => u \in Good
        PROVE  s \in Good
    <2>1. SUFFICES ASSUME NEW x \in s PROVE Sub(s) = f[x] + Sub(s \ {x})
      OBVIOUS
    <2> DEFINE c == One(s)
               r == s \ {x, c}
    <2>2. c \in s /\ Sub(s) = f[c] + Sub(s \ {c})
      BY <1>2, RestOf
    <2> HIDE DEF c
    <2>3. ASSUME c # x
          PROVE  Sub(s \ {c}) = f[x] + Sub(r) /\ Sub(s \ {x}) = f[c] + Sub(r)
      <3>1. /\ (s \ {c}) \ {x} = r /\ s \ {c} \in SUBSET s /\ s \ {c} # s /\ x \in s \ {c}
            /\ (s \ {x}) \ {c} = r /\ s \ {x} \in SUBSET s /\ s \ {x} # s /\ c \in s \ {x}
        BY <2>2, <2>3
      <3>2. QED
        BY <1>3, <3>1
    <2>4. f[c] \in Int /\ f[x] \in Int /\ Sub(r) \in Int
      BY <1>1, <2>2
    <2>5. QED
      BY <2>2, <2>3, <2>4
  <1> HIDE DEF Good
  <1>4. S \in Good
    BY <1>3, SubsetInduction
  <1>5. QED
    BY <1>4 DEF Good, Sub

\* A sum goes by the values at the elements only.
LEMMA SameSum ==
  ASSUME NEW S, IsFiniteSet(S), NEW f, NEW h, \A x \in S : f[x] = h[x]
  PROVE  SumFunctionOnSet(f, S) = SumFunctionOnSet(h, S)
  <1> DEFINE Good == {s \in SUBSET S : SumFunctionOnSet(f, s) = SumFunctionOnSet(h, s)}
  <1>1. ASSUME NEW s \in SUBSET S, \A u \in SUBSET s : u # s => u \in Good
        PROVE  s \in Good
    <2>1. IsFiniteSet(s)
      BY FS_Subset
    <2>2. s # {} => /\ SumFunctionOnSet(f, Rest(s)) = SumFunctionOnSet(h, Rest(s))
                    /\ f[One(s)] = h[One(s)]
      BY <1>1, RestOf
    <2>3. QED
      BY <2>1, <2>2, SumOf
  <1> HIDE DEF Good
  <1>2. S \in Good
    BY <1>1, SubsetInduction
  <1>3. QED
    BY <1>2 DEF Good

\* A change at one element changes the sum by as much.
LEMMA SumAfterChange ==
  ASSUME NEW S, IsFiniteSet(S), NEW x \in S, NEW f, NEW h,
         \A y \in S : f[y] \in Int /\ h[y] \in Int,
         \A y \in S \ {x} : f[y] = h[y]
  PROVE  SumFunctionOnSet(h, S) = SumFunctionOnSet(f, S) + (h[x] - f[x])
  <1> DEFINE r == SumFunctionOnSet(f, S \ {x})
  <1>1. r = SumFunctionOnSet(h, S \ {x}) /\ r \in Int
    BY FS_Subset, SameSum, SumWithin
  <1>2. SumFunctionOnSet(f, S) = f[x] + r /\ SumFunctionOnSet(h, S) = h[x] + r
    BY <1>1, SumTakes
  <1> HIDE DEF r
  <1>3. QED
    BY <1>1, <1>2

-----------------------------------------------------------------------------
(* Amounts and continuations *)

\* What a settlement or a dispute pays out is a natural number of fen.
LEMMA CreditsAreNat ==
  /\ Amounts \subseteq Nat
  /\ Credits \subseteq Nat
  /\ \A g \in Gross : NetAmounts(g) \subseteq Nat /\ UpsertNet(g) \in Nat
  <1>1. ASSUME NEW g \in Gross PROVE NetAmounts(g) \subseteq Nat /\ UpsertNet(g) \in Nat
    BY AmountsAssumption DEF NetAmounts, UpsertNet
  <1>2. QED
    BY <1>1, AmountsAssumption DEF Credits

LEMMA IdleIsRequest == Idle \in Request
  BY DEF Idle, Request, Ops, LockedOps, NoWallet

LEMMA RequestFields ==
  ASSUME NEW r \in Request
  PROVE  /\ r.op \in Ops
         /\ r.amount \in Nat
         /\ r.ver \in Nat \cup {NoWallet}
         /\ r.op \in LockedOps => r.amount \in Amounts
         /\ r.op = "wd_committed" => r.on \in Withdrawals
  <1>1. /\ r \in [op: Ops, on: Withdrawals \cup {"none"},
                  amount: {0} \cup Amounts \cup Credits, ver: Nat \cup {NoWallet}]
        /\ r.op \in LockedOps => r.amount \in Amounts
        /\ r.op = "wd_committed" => r.on \in Withdrawals
    BY DEF Request
  <1>2. {0} \cup Amounts \cup Credits \subseteq Nat
    BY CreditsAreNat
  <1>3. QED
    BY <1>1, <1>2

-----------------------------------------------------------------------------
(* Type correctness *)

\* The variables of every reachable state have their types, and a withdraw that
\* has committed knows the row it has made.
THEOREM TypeCorrect == Spec => []TypeOK
  <1>1. Init => TypeOK
    BY IdleIsRequest DEF Init, TypeOK, NoTimer, NoWallet
  <1>2. TypeOK /\ [Next]_vars => TypeOK'
    <2> SUFFICES ASSUME TypeOK, [Next]_vars PROVE TypeOK'
      OBVIOUS
    <2> USE DEF TypeOK, wallet, mutex
    <2>a. ASSUME NEW h \in Handlers, NEW r \in Request, Begin(h, r)
          PROVE req' \in [Handlers -> Request] /\ calls' \in Nat /\ faults' \in Nat
      BY <2>a DEF Begin
    <2>b. ASSUME NEW h \in Handlers, NEW r \in Request, Continue(h, r)
          PROVE req' \in [Handlers -> Request] /\ calls' \in Nat /\ faults' \in Nat
      BY <2>b DEF Continue
    <2>c. ASSUME NEW h \in Handlers, Return(h)
          PROVE req' \in [Handlers -> Request] /\ calls' \in Nat /\ faults' \in Nat
      BY <2>b, <2>c, IdleIsRequest DEF Return
    <2>1. ASSUME NEW h \in Handlers, NEW a \in Amounts, WithdrawAcquire(h, a)
          PROVE TypeOK'
      <3>1. [Idle EXCEPT !.op = "wd_locked", !.amount = a] \in Request
        BY DEF Idle, Request, Ops, LockedOps, NoWallet
      <3>2. QED
        BY <2>1, <2>a, <3>1 DEF WithdrawAcquire
    <2>2. ASSUME NEW h \in Handlers, WithdrawRead(h) PROVE TypeOK'
      <3>1. [req[h] EXCEPT !.op = "wd_read", !.ver = version] \in Request
        BY <2>2 DEF WithdrawRead, Request, Ops, LockedOps
      <3>2. QED
        BY <2>2, <2>b, <3>1 DEF WithdrawRead
    <2>3. ASSUME NEW h \in Handlers, NEW w \in Withdrawals, WithdrawCommit(h, w)
          PROVE TypeOK'
      <3>1. req[h] \in Request /\ req[h].op = "wd_read" /\ req[h].ver = version
        BY <2>3 DEF WithdrawCommit
      <3>2. req[h].amount \in Amounts /\ req[h].amount \in Nat
        BY <3>1, RequestFields DEF LockedOps
      <3>3. [req[h] EXCEPT !.op = "wd_committed", !.on = w] \in Request
        BY <3>1, <3>2 DEF Request, Ops, LockedOps
      <3>4. version' \in Nat
        BY <2>3 DEF WithdrawCommit, NoWallet
      <3>5. QED
        BY <2>3, <2>b, <3>2, <3>3, <3>4 DEF WithdrawCommit
    <2>4. ASSUME NEW h \in Handlers, WithdrawSchedule(h) PROVE TypeOK'
      <3>1. req[h] \in Request /\ req[h].op = "wd_committed"
        BY <2>4 DEF WithdrawSchedule
      <3>2. [req[h] EXCEPT !.op = "wd_done"] \in Request
        BY <3>1 DEF Request, Ops, LockedOps
      <3>3. req[h].on \in Withdrawals
        BY <3>1, RequestFields
      <3>4. QED
        BY <2>4, <2>b, <3>2, <3>3 DEF WithdrawSchedule
    <2>5. ASSUME NEW h \in Handlers, WithdrawReject(h) PROVE TypeOK'
      <3>1. req[h] \in Request /\ req[h].op \in LockedOps
        BY <2>5 DEF WithdrawReject, LockedOps
      <3>2. [req[h] EXCEPT !.op = "wd_done"] \in Request
        BY <3>1 DEF Request, Ops, LockedOps
      <3>3. QED
        BY <2>5, <2>b, <3>2 DEF WithdrawReject
    <2>6. ASSUME NEW h \in Handlers, WithdrawRelease(h) PROVE TypeOK'
      BY <2>6, <2>c DEF WithdrawRelease
    <2>7. ASSUME LockExpire PROVE TypeOK'
      BY <2>7 DEF LockExpire
    <2>8. ASSUME NEW w \in Withdrawals, CompleteRead(w) PROVE TypeOK'
      BY <2>8 DEF CompleteRead
    <2>9. ASSUME NEW w \in Withdrawals, CompleteCommit(w) PROVE TypeOK'
      <3>1. /\ withdrawal[w].amount \in Nat
            /\ timer' \in [Withdrawals -> [at: {"none", "set", "read"},
                                           ver: Nat \cup {NoWallet}]]
        BY <2>9, CreditsAreNat DEF CompleteCommit, NoTimer
      <3>2. frozen' \in Int /\ version' \in Nat \cup {NoWallet}
        BY <2>9, <3>1 DEF CompleteCommit, NoWallet
      <3>3. QED
        BY <2>9, <3>1, <3>2 DEF CompleteCommit
    <2>10. ASSUME NEW h \in Handlers, NEW g \in Gross, SettleRead(h, g) PROVE TypeOK'
      <3>1. \A n \in NetAmounts(g) :
              [Idle EXCEPT !.op = "st_read", !.amount = n, !.ver = version] \in Request
        BY DEF Idle, Request, Ops, LockedOps, Credits
      <3>2. QED
        BY <2>10, <2>a, <3>1 DEF SettleRead
    <2>11. ASSUME NEW h \in Handlers, SettleCommit(h) PROVE TypeOK'
      <3>1. req[h].amount \in Nat
        BY RequestFields
      <3>2. avail' \in Int /\ earned' \in Nat /\ version' \in Nat
        BY <2>11, <3>1 DEF SettleCommit, Created, NoWallet
      <3>3. QED
        BY <2>11, <2>c, <3>2 DEF SettleCommit
    <2>12. ASSUME NEW h \in Handlers, SettleConflict(h) PROVE TypeOK'
      BY <2>12, <2>c DEF SettleConflict
    <2>13. ASSUME NEW g \in Gross, UpsertCredit(g) PROVE TypeOK'
      BY <2>13, CreditsAreNat DEF UpsertCredit, Created
    <2>14. ASSUME NEW h \in Handlers, GetWalletRead(h) PROVE TypeOK'
      <3>1. [Idle EXCEPT !.op = "gw_missing"] \in Request
        BY DEF Idle, Request, Ops, LockedOps, NoWallet
      <3>2. QED
        BY <2>14, <2>a, <3>1 DEF GetWalletRead
    <2>15. ASSUME NEW h \in Handlers, GetWalletCreate(h) PROVE TypeOK'
      BY <2>15, <2>c DEF GetWalletCreate, Created
    <2>16. ASSUME Restart PROVE TypeOK'
      BY <2>16, IdleIsRequest DEF Restart, NoTimer
    <2>17. ASSUME NEW w \in Withdrawals, CompleteError(w) PROVE TypeOK'
      BY <2>17 DEF CompleteError, NoTimer
    <2>18. CASE UNCHANGED vars
      BY <2>18 DEF vars
    <2>19. QED
      BY <2>1, <2>2, <2>3, <2>4, <2>5, <2>6, <2>7, <2>8, <2>9, <2>10, <2>11, <2>12,
         <2>13, <2>14, <2>15, <2>16, <2>17, <2>18 DEF Next, Handle
  <1>3. QED
    BY <1>1, <1>2, PTL DEF Spec

-----------------------------------------------------------------------------
(* Withdrawals *)

\* AvailableNeverNegative is not inductive: withdraw commits on the strength of a
\* comparison made earlier.  With what its continuation guarantees it is: the
\* version it has read is that of an existing row and never ahead of it, and
\* under the row's present version the amount is still there.
WithdrawInv ==
  /\ \A h \in Handlers :
       req[h].op = "wd_read" => req[h].ver # NoWallet /\ req[h].ver <= version
  /\ CheckedAmountStillThere
  /\ AvailableNeverNegative

LEMMA WithdrawInductive ==
  ASSUME TypeOK, WithdrawInv, [Next]_vars
  PROVE  WithdrawInv'
  <1> DEFINE Sound(r, av, ver) ==
        r.op = "wd_read" => /\ r.ver # NoWallet /\ r.ver <= ver
                            /\ r.ver = ver => r.amount <= av
  <1> USE DEF wallet, mutex, NoWallet
  <1>a. /\ avail \in Int /\ version \in Nat \cup {NoWallet}
        /\ req \in [Handlers -> Request]
    BY DEF TypeOK
  <1>b. avail >= 0 /\ \A h \in Handlers : Sound(req[h], avail, version)
    BY DEF WithdrawInv, CheckedAmountStillThere, AvailableNeverNegative
  <1>c. ASSUME avail' >= 0, \A h \in Handlers : Sound(req'[h], avail', version')
        PROVE  WithdrawInv'
    BY <1>c DEF WithdrawInv, CheckedAmountStillThere, AvailableNeverNegative
  <1> HIDE DEF Sound
  \* The row is as it was, and one continuation changes to a sound one.
  <1>d. ASSUME NEW h \in Handlers, NEW q, req' = [req EXCEPT ![h] = q],
               UNCHANGED <<avail, version>>, Sound(q, avail, version)
        PROVE  WithdrawInv'
    <2>1. \A k \in Handlers : Sound(req'[k], avail, version)
      BY <1>a, <1>b, <1>d
    <2>2. QED
      BY <1>b, <1>c, <1>d, <2>1
  \* Money or a version is added and one continuation ends.
  <1>e. ASSUME NEW h \in Handlers, NEW q, req' = [req EXCEPT ![h] = q],
               q.op # "wd_read", avail' >= 0, version' \in Int, version' > version
        PROVE  WithdrawInv'
    <2>1. \A k \in Handlers : Sound(req'[k], avail', version')
      BY <1>a, <1>b, <1>e, RequestFields DEF Sound
    <2>2. QED
      BY <1>c, <1>e, <2>1
  <1>f. ASSUME NEW h \in Handlers, NEW q, req' = [req EXCEPT ![h] = q],
               q.op # "wd_read", UNCHANGED <<avail, version>>
        PROVE  WithdrawInv'
    BY <1>d, <1>f DEF Sound
  <1>g. Idle.op # "wd_read"
    BY DEF Idle
  <1>h. ASSUME NEW h \in Handlers, NEW r, Begin(h, r), r.op # "wd_read",
               UNCHANGED <<avail, version>>
        PROVE  WithdrawInv'
    BY <1>f, <1>h DEF Begin
  <1>i. ASSUME NEW h \in Handlers
        PROVE  /\ req[h].amount \in Nat
               /\ [req[h] EXCEPT !.op = "wd_done"].op # "wd_read"
               /\ [req[h] EXCEPT !.op = "wd_read", !.ver = version].ver = version
               /\ [req[h] EXCEPT !.op = "wd_read", !.ver = version].amount = req[h].amount
    BY <1>a, RequestFields DEF Request
  <1>1. ASSUME NEW h \in Handlers, NEW a \in Amounts, WithdrawAcquire(h, a)
        PROVE  WithdrawInv'
    <2>1. [Idle EXCEPT !.op = "wd_locked", !.amount = a].op # "wd_read"
      BY DEF Idle
    <2>2. QED
      BY <1>1, <1>h, <2>1 DEF WithdrawAcquire
  <1>2. ASSUME NEW h \in Handlers, WithdrawRead(h)
        PROVE  WithdrawInv'
    <2>1. Sound([req[h] EXCEPT !.op = "wd_read", !.ver = version], avail, version)
      BY <1>2, <1>a, <1>i DEF WithdrawRead, Sound
    <2>2. QED
      BY <1>2, <1>d, <2>1 DEF WithdrawRead, Continue
  <1>3. ASSUME NEW h \in Handlers, NEW w \in Withdrawals, WithdrawCommit(h, w)
        PROVE  WithdrawInv'
    <2>1. req[h].op = "wd_read" /\ req[h].ver = version
      BY <1>3 DEF WithdrawCommit
    <2>2. req[h].amount <= avail
      BY <1>b, <2>1 DEF Sound
    <2>3. /\ avail' >= 0 /\ version' > version /\ version' \in Int
          /\ [req[h] EXCEPT !.op = "wd_committed", !.on = w].op # "wd_read"
      BY <1>3, <1>a, <1>i, <2>2 DEF WithdrawCommit, Request
    <2>4. QED
      BY <1>3, <1>e, <2>3 DEF WithdrawCommit, Continue
  <1>4. ASSUME NEW h \in Handlers, WithdrawSchedule(h) \/ WithdrawReject(h)
        PROVE  WithdrawInv'
    BY <1>4, <1>f, <1>i DEF WithdrawSchedule, WithdrawReject, Continue
  <1>5. ASSUME NEW h \in Handlers, WithdrawRelease(h) \/ SettleConflict(h)
        PROVE  WithdrawInv'
    BY <1>5, <1>f, <1>g DEF WithdrawRelease, SettleConflict, Return, Continue
  <1>6. ASSUME NEW w \in Withdrawals, CompleteCommit(w)
        PROVE  WithdrawInv'
    <2>1. \A k \in Handlers : Sound(req'[k], avail', version')
      BY <1>6, <1>a, <1>b, RequestFields DEF CompleteCommit, Sound
    <2>2. QED
      BY <1>6, <1>b, <1>c, <2>1 DEF CompleteCommit
  <1>7. ASSUME NEW h \in Handlers, NEW g \in Gross, SettleRead(h, g)
        PROVE  WithdrawInv'
    <2>1. \A n : [Idle EXCEPT !.op = "st_read", !.amount = n, !.ver = version].op # "wd_read"
      BY DEF Idle
    <2>2. QED
      BY <1>7, <1>h, <2>1 DEF SettleRead
  <1>8. ASSUME NEW h \in Handlers, SettleCommit(h)
        PROVE  WithdrawInv'
    <2>1. avail' >= 0 /\ version' > version /\ version' \in Int
      BY <1>8, <1>a, <1>b, <1>i DEF SettleCommit, Created
    <2>2. QED
      BY <1>8, <1>e, <1>g, <2>1 DEF SettleCommit, Return, Continue
  <1>9. ASSUME NEW g \in Gross, UpsertCredit(g)
        PROVE  WithdrawInv'
    <2>1. /\ avail' = avail + UpsertNet(g) /\ UpsertNet(g) \in Nat
          /\ version' = Created(version) /\ req' = req
      BY <1>9, CreditsAreNat DEF UpsertCredit
    <2>2. \A k \in Handlers : Sound(req[k], avail', version')
      BY <1>a, <1>b, <2>1, RequestFields DEF Sound, Created
    <2>3. QED
      BY <1>a, <1>b, <1>c, <2>1, <2>2
  <1>10. ASSUME NEW h \in Handlers, GetWalletRead(h)
         PROVE  WithdrawInv'
    <2>1. [Idle EXCEPT !.op = "gw_missing"].op # "wd_read"
      BY DEF Idle
    <2>2. QED
      BY <1>10, <1>h, <2>1 DEF GetWalletRead
  <1>11. ASSUME NEW h \in Handlers, GetWalletCreate(h)
         PROVE  WithdrawInv'
    <2>1. CASE version = NoWallet
      <3>1. avail' >= 0 /\ version' > version /\ version' \in Int
        BY <1>11, <1>b, <2>1 DEF GetWalletCreate, Created
      <3>2. QED
        BY <1>11, <1>e, <1>g, <3>1 DEF GetWalletCreate, Return, Continue
    <2>2. CASE version # NoWallet
      BY <1>11, <1>f, <1>g, <2>2 DEF GetWalletCreate, Created, Return, Continue
    <2>3. QED
      BY <2>1, <2>2
  <1>12. ASSUME \/ LockExpire
                \/ \E w \in Withdrawals : CompleteRead(w) \/ CompleteError(w)
                \/ UNCHANGED vars
         PROVE  WithdrawInv'
    <2>1. UNCHANGED <<avail, version, req>>
      BY <1>12 DEF LockExpire, CompleteRead, CompleteError, vars
    <2>2. QED
      BY <1>b, <1>c, <2>1
  <1>13. CASE Restart
    <2>1. \A k \in Handlers : Sound(req'[k], avail, version)
      BY <1>13, <1>g DEF Restart, Sound
    <2>2. QED
      BY <1>13, <1>b, <1>c, <2>1 DEF Restart
  <1>14. QED
    BY <1>1, <1>2, <1>3, <1>4, <1>5, <1>6, <1>7, <1>8, <1>9, <1>10, <1>11, <1>12,
       <1>13 DEF Next, Handle

LEMMA WithdrawInvariant == Spec => []WithdrawInv
  <1>1. Init => WithdrawInv
    BY DEF Init, Idle, WithdrawInv, CheckedAmountStillThere, AvailableNeverNegative
  <1>2. QED
    BY <1>1, WithdrawInductive, TypeCorrect, PTL DEF Spec

\* No worker can withdraw more than there is, with or without the Redis lock and
\* however settlements, completions and dispute credits come between.
THEOREM NeverOverdrawn == Spec => []AvailableNeverNegative
  <1>1. WithdrawInv => AvailableNeverNegative
    BY DEF WithdrawInv
  <1>2. QED
    BY <1>1, WithdrawInvariant, PTL

\* The comparison withdraw makes holds at its commit if the version does.
THEOREM CheckSurvivesToCommit == Spec => []CheckedAmountStillThere
  <1>1. WithdrawInv => CheckedAmountStillThere
    BY DEF WithdrawInv
  <1>2. QED
    BY <1>1, WithdrawInvariant, PTL

-----------------------------------------------------------------------------
(* The deposit account *)

\* A step is an operation of the account, or leaves it alone.
LEMMA StepRefines ==
  ASSUME TypeOK, WithdrawInv, [Next]_vars
  PROVE  [Account!Next]_(Account!vars)
  <1> USE DEF wallet, mutex, Account!vars
  <1>a. /\ avail \in Int /\ frozen \in Int
        /\ req \in [Handlers -> Request]
        /\ \A w \in Withdrawals : withdrawal[w].amount \in {0} \cup Amounts
    BY DEF TypeOK
  <1>b. {0} \cup Amounts \cup Credits \subseteq Int
    BY CreditsAreNat
  <1>c. \A h \in Handlers : req[h].amount \in {0} \cup Amounts \cup Credits
    BY <1>a DEF Request
  <1>1. ASSUME NEW h \in Handlers, NEW w \in Withdrawals, WithdrawCommit(h, w)
        PROVE  Account!Next
    <2>1. req[h].amount <= avail
      BY <1>1 DEF WithdrawCommit, WithdrawInv, CheckedAmountStillThere
    <2>2. avail' = avail - req[h].amount /\ frozen' = frozen + req[h].amount
      BY <1>1 DEF WithdrawCommit
    <2>3. Account!Reserve(req[h].amount)
      BY <1>a, <1>b, <1>c, <2>1, <2>2 DEF Account!Reserve
    <2>4. QED
      BY <1>c, <2>3 DEF Account!Next
  <1>2. ASSUME NEW w \in Withdrawals, CompleteCommit(w)
        PROVE  Account!Next \/ UNCHANGED <<avail, frozen>>
    <2>1. CASE timer[w].ver = version
      <3>1. avail' = avail /\ frozen' = frozen - withdrawal[w].amount
        BY <1>2, <2>1 DEF CompleteCommit
      <3>2. Account!PayReserved(withdrawal[w].amount)
        BY <1>a, <1>b, <3>1 DEF Account!PayReserved
      <3>3. QED
        BY <1>a, <3>2 DEF Account!Next
    <2>2. CASE timer[w].ver # version
      BY <1>2, <2>2 DEF CompleteCommit
    <2>3. QED
      BY <2>1, <2>2
  <1>3. ASSUME NEW a \in {0} \cup Amounts \cup Credits, avail' = avail + a, frozen' = frozen
        PROVE  Account!Next
    <2>1. Account!Deposit(a)
      BY <1>a, <1>b, <1>3 DEF Account!Deposit
    <2>2. QED
      BY <2>1 DEF Account!Next
  <1>4. ASSUME NEW h \in Handlers, SettleCommit(h) PROVE Account!Next
    BY <1>c, <1>3, <1>4 DEF SettleCommit
  <1>5. ASSUME NEW g \in Gross, UpsertCredit(g) PROVE Account!Next
    BY <1>3, <1>5 DEF UpsertCredit, Credits
  <1>6. ASSUME NEW h \in Handlers,
               \/ \E a \in Amounts : WithdrawAcquire(h, a)
               \/ \E g \in Gross : SettleRead(h, g)
               \/ GetWalletRead(h)
               \/ WithdrawRead(h)
               \/ WithdrawSchedule(h)
               \/ WithdrawReject(h)
               \/ WithdrawRelease(h)
               \/ SettleConflict(h)
               \/ GetWalletCreate(h)
        PROVE  UNCHANGED <<avail, frozen>>
    BY <1>6 DEF WithdrawAcquire, SettleRead, GetWalletRead, WithdrawRead, WithdrawSchedule,
       WithdrawReject, WithdrawRelease, SettleConflict, GetWalletCreate
  <1>7. ASSUME (\E w \in Withdrawals : CompleteRead(w) \/ CompleteError(w))
               \/ LockExpire \/ Restart \/ UNCHANGED vars
        PROVE  UNCHANGED <<avail, frozen>>
    BY <1>7 DEF CompleteRead, CompleteError, LockExpire, Restart, vars
  <1>8. Account!Next \/ UNCHANGED <<avail, frozen>>
    BY <1>1, <1>2, <1>4, <1>5, <1>6, <1>7 DEF Next, Handle
  <1>9. QED
    BY <1>8

\* The handlers and timers of the wallet, interleaved in any way, with an expired lock and
\* through restarts, behave as atomic operations on one deposit account.
THEOREM WalletImplementsAccount == Spec => ImplementsAccount
  <1>1. Init => Account!Init
    BY DEF Init, Account!Init
  <1>2. QED
    BY <1>1, StepRefines, TypeCorrect, WithdrawInvariant, PTL
       DEF Spec, Account!Spec, ImplementsAccount

-----------------------------------------------------------------------------
(* The Redis lock *)

\* A withdraw whose lease has not run out holds the key, so there is at most one:
\* a handler that outlives its lease cannot free the key for a third.
THEOREM LeaseExclusive == Spec => []LeaseIsExclusive
  <1>1. Init => LeaseIsExclusive
    BY DEF Init, Idle, LeaseIsExclusive, LockedOps
  <1>2. ASSUME TypeOK, LeaseIsExclusive, [Next]_vars
        PROVE  LeaseIsExclusive'
    <2> USE DEF wallet, mutex
    <2>a. req \in [Handlers -> Request] /\ "none" \notin Handlers
      BY <1>2, HandlersAssumption DEF TypeOK
    <2>b. \A h \in Handlers : req[h].op \in LockedOps /\ h \notin lapsed => lock = h
      BY <1>2 DEF LeaseIsExclusive
    <2>c. ASSUME NEW h \in Handlers, NEW q, req' = [req EXCEPT ![h] = q],
                 UNCHANGED mutex,
                 q.op \notin LockedOps \/ req[h].op \in LockedOps
          PROVE  LeaseIsExclusive'
      BY <2>a, <2>b, <2>c DEF LeaseIsExclusive
    <2>d. Idle.op \notin LockedOps
      BY DEF Idle, LockedOps
    <2>1. ASSUME NEW h \in Handlers, NEW a \in Amounts, WithdrawAcquire(h, a)
          PROVE  LeaseIsExclusive'
      <3>1. \A k \in Handlers : k # h => req'[k] = req[k] /\ lapsed' \subseteq lapsed
        BY <2>1, <2>a DEF WithdrawAcquire, Begin
      <3>2. \A k \in Handlers : k # h /\ k \notin lapsed' => k \notin lapsed
        BY <2>1 DEF WithdrawAcquire
      <3>3. QED
        BY <2>1, <2>a, <2>b, <3>1, <3>2 DEF WithdrawAcquire, LeaseIsExclusive
    <2>2. ASSUME NEW h \in Handlers,
                 \/ WithdrawRead(h) \/ WithdrawSchedule(h) \/ WithdrawReject(h)
                 \/ \E w \in Withdrawals : WithdrawCommit(h, w)
          PROVE  LeaseIsExclusive'
      <3>1. req[h].op \in LockedOps
        BY <2>2 DEF WithdrawRead, WithdrawSchedule, WithdrawReject, WithdrawCommit,
                    LockedOps
      <3>2. (\E q : req' = [req EXCEPT ![h] = q]) /\ UNCHANGED mutex
        BY <2>2 DEF WithdrawRead, WithdrawSchedule, WithdrawReject, WithdrawCommit,
                    Continue
      <3>3. QED
        BY <2>c, <3>1, <3>2
    <2>3. ASSUME NEW h \in Handlers, WithdrawRelease(h)
          PROVE  LeaseIsExclusive'
      BY <2>3, <2>a, <2>b, <2>d DEF WithdrawRelease, Return, Continue, LeaseIsExclusive
    <2>4. ASSUME NEW h \in Handlers,
                 SettleCommit(h) \/ SettleConflict(h) \/ GetWalletCreate(h)
          PROVE  LeaseIsExclusive'
      BY <2>4, <2>c, <2>d DEF SettleCommit, SettleConflict, GetWalletCreate, Return,
                              Continue
    <2>5. ASSUME NEW h \in Handlers,
                 (\E g \in Gross : SettleRead(h, g)) \/ GetWalletRead(h)
          PROVE  LeaseIsExclusive'
      BY <2>5, <2>c DEF SettleRead, GetWalletRead, Begin, Idle, LockedOps
    <2>6. CASE LockExpire
      BY <2>6, <2>b DEF LockExpire, LeaseIsExclusive
    <2>7. CASE Restart
      BY <2>7, <2>d DEF Restart, LeaseIsExclusive
    <2>8. ASSUME UNCHANGED <<mutex, req>>
          PROVE  LeaseIsExclusive'
      BY <2>8, <2>b DEF LeaseIsExclusive
    <2>9. ASSUME NEW w \in Withdrawals,
                 CompleteRead(w) \/ CompleteCommit(w) \/ CompleteError(w)
          PROVE  LeaseIsExclusive'
      BY <2>8, <2>9 DEF CompleteRead, CompleteCommit, CompleteError
    <2>10. ASSUME NEW g \in Gross, UpsertCredit(g)
           PROVE  LeaseIsExclusive'
      BY <2>8, <2>10 DEF UpsertCredit
    <2>11. CASE UNCHANGED vars
      BY <2>8, <2>11 DEF vars
    <2>12. QED
      BY <1>2, <2>1, <2>2, <2>3, <2>4, <2>5, <2>6, <2>7, <2>9, <2>10, <2>11
         DEF Next, Handle
  <1>3. QED
    BY <1>1, <1>2, TypeCorrect, PTL DEF Spec

-----------------------------------------------------------------------------
(* The books *)

\* A timer belongs to a withdrawal that is being processed, and so does a withdraw that is
\* about to start it, each to a withdrawal of its own: so none is taken off frozen twice.
TimerInv ==
  /\ \A w \in Withdrawals : timer[w].at # "none" => withdrawal[w].status = "processing"
  /\ \A h \in Handlers :
       req[h].op = "wd_committed" =>
         withdrawal[req[h].on].status = "processing" /\ timer[req[h].on].at = "none"
  /\ \A h, k \in Handlers :
       req[h].op = "wd_committed" /\ req[k].op = "wd_committed" /\ req[h].on = req[k].on
         => h = k

LEMMA TimerInductive ==
  ASSUME TypeOK, TimerInv, [Next]_vars
  PROVE  TimerInv'
  <1> USE DEF wallet, mutex
  <1>a. /\ req \in [Handlers -> Request]
        /\ withdrawal \in [Withdrawals -> [status: {"none", "processing", "completed"},
                                           amount: {0} \cup Amounts]]
        /\ timer \in [Withdrawals -> [at: {"none", "set", "read"}, ver: Nat \cup {NoWallet}]]
    BY DEF TypeOK
  <1>b. \A h \in Handlers : req[h].op = "wd_committed" => req[h].on \in Withdrawals
    BY <1>a, RequestFields
  \* A step of a handler that has not committed.
  <1>c. ASSUME NEW h \in Handlers, NEW q, req' = [req EXCEPT ![h] = q], q.op # "wd_committed",
               UNCHANGED <<withdrawal, timer>>
        PROVE  TimerInv'
    BY <1>a, <1>c DEF TimerInv
  <1>d. Idle.op # "wd_committed"
    BY DEF Idle
  <1>e. ASSUME NEW h \in Handlers, NEW r, Begin(h, r), r.op # "wd_committed",
               UNCHANGED <<withdrawal, timer>>
        PROVE  TimerInv'
    BY <1>c, <1>e DEF Begin
  <1>1. ASSUME NEW h \in Handlers, NEW a \in Amounts, WithdrawAcquire(h, a) PROVE TimerInv'
    <2>1. [Idle EXCEPT !.op = "wd_locked", !.amount = a].op # "wd_committed"
      BY DEF Idle
    <2>2. QED
      BY <1>1, <1>e, <2>1 DEF WithdrawAcquire
  <1>2. ASSUME NEW h \in Handlers, WithdrawRead(h) \/ WithdrawReject(h) PROVE TimerInv'
    <2>1. /\ [req[h] EXCEPT !.op = "wd_read", !.ver = version].op # "wd_committed"
          /\ [req[h] EXCEPT !.op = "wd_done"].op # "wd_committed"
      BY <1>a DEF Request
    <2>2. QED
      BY <1>2, <1>c, <2>1 DEF WithdrawRead, WithdrawReject, Continue
  <1>3. ASSUME NEW h \in Handlers, NEW w \in Withdrawals, WithdrawCommit(h, w) PROVE TimerInv'
    <2> DEFINE q == [req[h] EXCEPT !.op = "wd_committed", !.on = w]
    <2>1. q.on = w /\ req' = [req EXCEPT ![h] = q] /\ timer' = timer
      BY <1>3, <1>a DEF WithdrawCommit, Continue, Request
    <2>2. withdrawal[w].status = "none" /\ timer[w].at = "none"
      BY <1>3, <1>a DEF WithdrawCommit, TimerInv
    <2>3. /\ withdrawal'[w].status = "processing"
          /\ \A v \in Withdrawals : v # w => withdrawal'[v] = withdrawal[v]
      BY <1>3, <1>a DEF WithdrawCommit
    <2> HIDE DEF q
    <2>4. \A k \in Handlers : k # h => req'[k] = req[k] /\ ~ (req[k].op = "wd_committed" /\ req[k].on = w)
      BY <1>a, <2>1, <2>2 DEF TimerInv
    <2>5. req'[h] = q
      BY <1>a, <2>1
    <2>6. QED
      BY <1>b, <2>1, <2>2, <2>3, <2>4, <2>5 DEF TimerInv
  <1>4. ASSUME NEW h \in Handlers, WithdrawSchedule(h) PROVE TimerInv'
    <2>1. req[h].op = "wd_committed" /\ req[h].on \in Withdrawals /\ withdrawal' = withdrawal
      BY <1>4, <1>b DEF WithdrawSchedule
    <2>2. req'[h].op # "wd_committed" /\ \A k \in Handlers : k # h => req'[k] = req[k]
      BY <1>4, <1>a DEF WithdrawSchedule, Continue, Request
    <2>3. \A v \in Withdrawals : v # req[h].on => timer'[v] = timer[v]
      BY <1>4, <1>a DEF WithdrawSchedule
    <2>4. \A k \in Handlers : k # h /\ req[k].op = "wd_committed" => req[k].on # req[h].on
      BY <2>1 DEF TimerInv
    <2>5. QED
      BY <1>b, <2>1, <2>2, <2>3, <2>4 DEF TimerInv
  <1>5. ASSUME NEW h \in Handlers,
               \/ WithdrawRelease(h) \/ SettleCommit(h) \/ SettleConflict(h)
               \/ GetWalletCreate(h)
        PROVE  TimerInv'
    BY <1>5, <1>c, <1>d DEF WithdrawRelease, SettleCommit, SettleConflict, GetWalletCreate,
       Return, Continue
  <1>6. ASSUME NEW h \in Handlers, NEW g \in Gross, SettleRead(h, g) PROVE TimerInv'
    <2>1. \A n : [Idle EXCEPT !.op = "st_read", !.amount = n, !.ver = version].op
                     # "wd_committed"
      BY DEF Idle
    <2>2. QED
      BY <1>6, <1>e, <2>1 DEF SettleRead
  <1>7. ASSUME NEW h \in Handlers, GetWalletRead(h) PROVE TimerInv'
    <2>1. [Idle EXCEPT !.op = "gw_missing"].op # "wd_committed"
      BY DEF Idle
    <2>2. QED
      BY <1>7, <1>e, <2>1 DEF GetWalletRead
  <1>8. ASSUME NEW w \in Withdrawals, CompleteRead(w) \/ CompleteError(w) PROVE TimerInv'
    <2>1. timer[w].at # "none"
      BY <1>8 DEF CompleteRead, CompleteError
    <2>2. /\ UNCHANGED <<withdrawal, req>>
          /\ \A v \in Withdrawals : v # w => timer'[v] = timer[v]
      BY <1>8, <1>a DEF CompleteRead, CompleteError
    <2>3. QED
      BY <1>b, <2>1, <2>2 DEF TimerInv
  <1>9. ASSUME NEW w \in Withdrawals, CompleteCommit(w) PROVE TimerInv'
    <2>1. timer[w].at # "none" /\ timer'[w].at = "none" /\ req' = req
      BY <1>9, <1>a DEF CompleteCommit, NoTimer
    <2>2. \A v \in Withdrawals : v # w => timer'[v] = timer[v] /\ withdrawal'[v] = withdrawal[v]
      BY <1>9, <1>a DEF CompleteCommit
    <2>3. QED
      BY <1>b, <2>1, <2>2 DEF TimerInv
  <1>10. CASE Restart
    <2>1. \A v \in Withdrawals : timer'[v].at = "none"
      BY <1>10 DEF Restart, NoTimer
    <2>2. \A h \in Handlers : req'[h].op # "wd_committed"
      BY <1>10, <1>d DEF Restart
    <2>3. QED
      BY <2>1, <2>2 DEF TimerInv
  <1>11. ASSUME LockExpire \/ (\E g \in Gross : UpsertCredit(g)) \/ UNCHANGED vars
         PROVE  TimerInv'
    <2>1. UNCHANGED <<withdrawal, timer, req>>
      BY <1>11 DEF LockExpire, UpsertCredit, vars
    <2>2. QED
      BY <2>1 DEF TimerInv
  <1>12. QED
    BY <1>1, <1>2, <1>3, <1>4, <1>5, <1>6, <1>7, <1>8, <1>9, <1>10, <1>11 DEF Next, Handle

\* What is summed up over the withdrawals.
AmountsOf(status) ==
  [w \in Withdrawals |-> IF withdrawal[w].status \in status THEN withdrawal[w].amount ELSE 0]

LEMMA AmountsAreNat ==
  ASSUME TypeOK, NEW status
  PROVE  AmountsOf(status) \in [Withdrawals -> Nat] /\ AmountOf(status) \in Nat
  <1>1. AmountsOf(status) \in [Withdrawals -> Nat]
    <2>1. \A w \in Withdrawals : withdrawal[w].amount \in {0} \cup Amounts
      BY DEF TypeOK
    <2>2. {0} \cup Amounts \subseteq Nat
      BY CreditsAreNat
    <2>3. QED
      BY <2>1, <2>2 DEF AmountsOf
  <1>2. SumFunctionOnSet(AmountsOf(status), Withdrawals) \in Nat
    BY <1>1, WithdrawalsAssumption, SumWithin
  <1>3. QED
    BY <1>1, <1>2 DEF AmountOf, AmountsOf, SumFunction

\* One row changes: so does the sum, by as much.
LEMMA AmountAfterChange ==
  ASSUME TypeOK, TypeOK', NEW status, NEW w \in Withdrawals,
         \A v \in Withdrawals : v # w => withdrawal'[v] = withdrawal[v]
  PROVE  AmountOf(status)' =
           AmountOf(status) + (AmountsOf(status)'[w] - AmountsOf(status)[w])
  <1>1. /\ AmountsOf(status) \in [Withdrawals -> Nat]
        /\ AmountsOf(status)' \in [Withdrawals -> Nat]
    <2>1. \A v \in Withdrawals :
            withdrawal[v].amount \in {0} \cup Amounts /\ withdrawal'[v].amount \in {0} \cup Amounts
      BY DEF TypeOK
    <2>2. {0} \cup Amounts \subseteq Nat
      BY CreditsAreNat
    <2>3. QED
      BY <2>1, <2>2 DEF AmountsOf
  <1>2. \A v \in Withdrawals \ {w} : AmountsOf(status)[v] = AmountsOf(status)'[v]
    BY DEF AmountsOf
  <1>3. SumFunctionOnSet(AmountsOf(status)', Withdrawals) =
          SumFunctionOnSet(AmountsOf(status), Withdrawals)
            + (AmountsOf(status)'[w] - AmountsOf(status)[w])
    BY <1>1, <1>2, WithdrawalsAssumption, SumAfterChange
  <1>4. /\ AmountOf(status) = SumFunctionOnSet(AmountsOf(status), Withdrawals)
        /\ AmountOf(status)' = SumFunctionOnSet(AmountsOf(status)', Withdrawals)
    BY DEF AmountOf, AmountsOf, SumFunction
  <1>5. QED
    BY <1>3, <1>4

\* What of RowsExplainAvailable is not NeverOverdrawn.
RowsExplain ==
  /\ avail = earned - AmountOf({"processing", "completed"})
  /\ frozen >= AmountOf({"processing"})

LEMMA BooksInductive ==
  ASSUME TypeOK, TypeOK', TimerInv, RowsExplain, [Next]_vars
  PROVE  RowsExplain'
  <1> USE DEF wallet, mutex
  <1> DEFINE Out == {"processing", "completed"}
             Held == {"processing"}
  <1>a. /\ avail = earned - AmountOf(Out) /\ frozen >= AmountOf(Held)
        /\ avail \in Int /\ frozen \in Int /\ earned \in Nat
        /\ AmountOf(Out) \in Nat /\ AmountOf(Held) \in Nat
    BY AmountsAreNat DEF RowsExplain, TypeOK
  <1>b. ASSUME withdrawal' = withdrawal, frozen' = frozen,
               avail' \in Int, earned' \in Int, avail' - earned' = avail - earned
        PROVE  RowsExplain'
    <2>1. AmountOf(Out)' = AmountOf(Out) /\ AmountOf(Held)' = AmountOf(Held)
      BY <1>b DEF AmountOf
    <2>2. QED
      BY <1>a, <1>b, <2>1 DEF RowsExplain
  <1>1. ASSUME NEW h \in Handlers, NEW w \in Withdrawals, WithdrawCommit(h, w)
        PROVE  RowsExplain'
    <2> DEFINE a == req[h].amount
    <2>1. a \in Nat /\ withdrawal[w].status = "none" /\ earned' = earned
          /\ avail' = avail - a /\ frozen' = frozen + a
      BY <1>1, RequestFields DEF WithdrawCommit, TypeOK
    <2>2. /\ withdrawal'[w].status = "processing" /\ withdrawal'[w].amount = a
          /\ \A v \in Withdrawals : v # w => withdrawal'[v] = withdrawal[v]
      BY <1>1 DEF WithdrawCommit, TypeOK
    <2>3. /\ AmountsOf(Out)[w] = 0 /\ AmountsOf(Out)'[w] = a
          /\ AmountsOf(Held)[w] = 0 /\ AmountsOf(Held)'[w] = a
      BY <2>1, <2>2 DEF AmountsOf
    <2>4. AmountOf(Out)' = AmountOf(Out) + a /\ AmountOf(Held)' = AmountOf(Held) + a
      <3> HIDE DEF a
      <3>1. AmountOf(Out)' = AmountOf(Out) + (a - 0) /\ AmountOf(Held)' = AmountOf(Held) + (a - 0)
        BY <2>2, <2>3, AmountAfterChange
      <3>2. QED
        BY <1>a, <2>1, <3>1
    <2>5. QED
      BY <1>a, <2>1, <2>4 DEF RowsExplain
  <1>2. ASSUME NEW w \in Withdrawals, CompleteCommit(w)
        PROVE  RowsExplain'
    <2> DEFINE a == withdrawal[w].amount
    <2>1. withdrawal[w].status = "processing" /\ a \in Nat
      BY <1>2, CreditsAreNat DEF CompleteCommit, TimerInv, TypeOK
    <2>2. /\ withdrawal'[w].status = "completed" /\ withdrawal'[w].amount = a
          /\ \A v \in Withdrawals : v # w => withdrawal'[v] = withdrawal[v]
      BY <1>2 DEF CompleteCommit, TypeOK
    <2>3. /\ AmountsOf(Out)[w] = a /\ AmountsOf(Out)'[w] = a
          /\ AmountsOf(Held)[w] = a /\ AmountsOf(Held)'[w] = 0
      BY <2>1, <2>2 DEF AmountsOf
    <2>4. UNCHANGED <<avail, earned>> /\ frozen' \in {frozen, frozen - a}
      BY <1>2 DEF CompleteCommit
    <2> HIDE DEF a
    <2>5. AmountOf(Out)' = AmountOf(Out) + (a - a) /\ AmountOf(Held)' = AmountOf(Held) + (0 - a)
      BY <2>2, <2>3, AmountAfterChange
    <2>6. QED
      BY <1>a, <2>1, <2>4, <2>5 DEF RowsExplain
  <1>3. ASSUME NEW h \in Handlers, SettleCommit(h)
        PROVE  RowsExplain'
    <2>1. req[h].amount \in Nat
      BY RequestFields DEF TypeOK
    <2>2. QED
      BY <1>3, <1>a, <1>b, <2>1 DEF SettleCommit
  <1>4. ASSUME NEW g \in Gross, UpsertCredit(g)
        PROVE  RowsExplain'
    BY <1>4, <1>a, <1>b, CreditsAreNat DEF UpsertCredit
  <1>5. ASSUME UNCHANGED <<withdrawal, frozen, avail, earned>>
        PROVE  RowsExplain'
    BY <1>5, <1>a, <1>b
  <1>6. ASSUME NEW h \in Handlers,
               \/ \E a \in Amounts : WithdrawAcquire(h, a)
               \/ \E g \in Gross : SettleRead(h, g)
               \/ GetWalletRead(h) \/ WithdrawRead(h) \/ WithdrawSchedule(h)
               \/ WithdrawReject(h) \/ WithdrawRelease(h) \/ SettleConflict(h)
               \/ GetWalletCreate(h)
        PROVE  RowsExplain'
    BY <1>5, <1>6 DEF WithdrawAcquire, SettleRead, GetWalletRead, WithdrawRead,
       WithdrawSchedule, WithdrawReject, WithdrawRelease, SettleConflict, GetWalletCreate
  <1>7. ASSUME \/ \E w \in Withdrawals : CompleteRead(w) \/ CompleteError(w)
               \/ LockExpire \/ Restart \/ UNCHANGED vars
        PROVE  RowsExplain'
    BY <1>5, <1>7 DEF CompleteRead, CompleteError, LockExpire, Restart, vars
  <1>8. QED
    BY <1>1, <1>2, <1>3, <1>4, <1>6, <1>7 DEF Next, Handle

\* Whatever the handlers, timers, restarts and errors: what a worker has earned is either
\* available or in one withdraw row, and what is frozen covers the rows being processed.
THEOREM BooksAgree == Spec => []RowsExplainAvailable
  <1>1. Init => TimerInv /\ RowsExplain
    <2> SUFFICES ASSUME Init PROVE TimerInv /\ RowsExplain
      OBVIOUS
    <2>1. TimerInv
      BY DEF Init, TimerInv, NoTimer, Idle
    <2>2. ASSUME NEW status, "none" \notin status PROVE AmountOf(status) = 0
      <3>1. \A w \in Withdrawals : AmountsOf(status)[w] = 0
        BY <2>2 DEF Init, AmountsOf
      <3>2. SumFunctionOnSet(AmountsOf(status), Withdrawals) = 0
        BY <3>1, WithdrawalsAssumption, SumWithin
      <3>3. QED
        BY <3>2 DEF AmountOf, AmountsOf, SumFunction
    <2>3. QED
      BY <2>1, <2>2 DEF Init, RowsExplain
  <1>2. TypeOK /\ TypeOK' /\ TimerInv /\ RowsExplain /\ [Next]_vars
          => TimerInv' /\ RowsExplain'
    BY TimerInductive, BooksInductive
  <1>3. RowsExplain /\ AvailableNeverNegative => RowsExplainAvailable
    BY DEF RowsExplain, RowsExplainAvailable
  <1>4. QED
    BY <1>1, <1>2, <1>3, TypeCorrect, NeverOverdrawn, PTL DEF Spec

=============================================================================
