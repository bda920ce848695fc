--------------------------- MODULE CompanyAccount ---------------------------
(***************************************************************************)
(* What a money row promises to its callers, with no handlers, no versions  *)
(* and no interleaving: a deposit account on which amounts can be reserved. *)
(* A reservation is granted only out of money that is on the account and    *)
(* not reserved already, atomically.  Only a payment for a task on which    *)
(* nothing is reserved may exceed what is free.                             *)
(*                                                                         *)
(* CompanyFunds is shown to implement this specification for the row of a   *)
(* company, and Wallet for the row of a worker, who reserves by withdrawing *)
(* and from whom nothing else is taken.                                     *)
(***************************************************************************)
EXTENDS Integers

CONSTANT Amounts  \* the amounts that can be moved

VARIABLES
  bal,        \* money on the account
  held,       \* the part of it that is reserved
  uncovered   \* total ever paid out without a reservation

vars == <<bal, held, uncovered>>

Init == bal = 0 /\ held = 0 /\ uncovered = 0

Deposit(a) == bal' = bal + a /\ UNCHANGED <<held, uncovered>>

Reserve(a) ==
  /\ a <= bal - held
  /\ held' = held + a
  /\ UNCHANGED <<bal, uncovered>>

PayReserved(a) ==
  /\ bal' = bal - a
  /\ held' = held - a
  /\ UNCHANGED uncovered

PayUnreserved(a) ==
  /\ bal' = bal - a
  /\ uncovered' = uncovered + a
  /\ UNCHANGED held

Release(a) == held' = held - a /\ UNCHANGED <<bal, uncovered>>

Next ==
  \E a \in Amounts :
    \/ Deposit(a)
    \/ Reserve(a)
    \/ PayReserved(a)
    \/ PayUnreserved(a)
    \/ Release(a)

Spec == Init /\ [][Next]_vars
=============================================================================
