-------------------------------- MODULE Billing --------------------------------
(***************************************************************************)
(* Invoices of one company (invoice.service.ts): it may ask for invoices up   *)
(* to what it has paid out in settlements and has not been invoiced for yet;  *)
(* an administrator issues or rejects each.                                  *)
(***************************************************************************)
EXTENDS Integers, Sequences, Functions

CONSTANTS
  MaxSettled,   \* bound: amount of completed settlement rows
  MaxCalls      \* bound: calls of the handlers

VARIABLES
  settled,  \* sum of the company's completed settlement rows
  invoice,  \* the invoices, in order
  run,      \* calls under way, after their reads
  raced,    \* history: invoices whose decisions overlapped; 0 when applications did
  calls

vars == <<settled, invoice, run, raced, calls>>

Status == {"pending", "issued", "rejected"}
Call == [n: Nat, op: {"apply", "issued", "rejected"}, i: Nat, amount: 0..MaxSettled]

Init == settled = 0 /\ invoice = << >> /\ run = {} /\ raced = {} /\ calls = 0

\* _sum of the amounts of invoices in certain states
Total(statuses) ==
  SumFunction([i \in DOMAIN invoice |->
                 IF invoice[i].status \in statuses THEN invoice[i].amount ELSE 0])

-----------------------------------------------------------------------------
(* Faulty variants of operators below; not part of the specification.        *)

\* only issued invoices counted
UnbilledIssued ==
  IF settled > Total({"issued"}) THEN settled - Total({"issued"}) ELSE 0

-----------------------------------------------------------------------------
\* _getUnbilledAmount; its two sums are read at one moment, the first can only grow.
Unbilled ==
  LET billed == Total({"pending", "issued"})
  IN IF settled > billed THEN settled - billed ELSE 0

\* A settlement row of the company is completed (payForTask).
Settle ==
  /\ settled < MaxSettled /\ settled' = settled + 1
  /\ UNCHANGED <<invoice, run, raced, calls>>

Begin(op, i, amount) ==
  /\ calls < MaxCalls /\ calls' = calls + 1
  /\ run' = run \cup {[n |-> calls, op |-> op, i |-> i, amount |-> amount]}
  /\ raced' = raced \cup {h.i : h \in {g \in run : g.i = i}}
  /\ UNCHANGED <<settled, invoice>>

ApplyRead(amount) == amount <= Unbilled /\ Begin("apply", 0, amount)

ApplyWrite(h) ==
  /\ h \in run /\ h.op = "apply"
  /\ invoice' = Append(invoice, [amount |-> h.amount, status |-> "pending"])
  /\ run' = run \ {h}
  /\ UNCHANGED <<settled, raced, calls>>

\* _getAndCheck of issue and reject
DecideRead(i, verdict) == invoice[i].status = "pending" /\ Begin(verdict, i, 0)

DecideWrite(h) ==
  /\ h \in run /\ h.op # "apply"
  /\ invoice' = [invoice EXCEPT ![h.i].status = h.op]
  /\ run' = run \ {h}
  /\ UNCHANGED <<settled, raced, calls>>

Next ==
  \/ Settle
  \/ \E amount \in 1..MaxSettled : ApplyRead(amount)
  \/ \E i \in DOMAIN invoice, verdict \in {"issued", "rejected"} : DecideRead(i, verdict)
  \/ \E h \in run : ApplyWrite(h) \/ DecideWrite(h)

Spec == Init /\ [][Next]_vars

-----------------------------------------------------------------------------
(* Properties *)

TypeOK ==
  /\ settled \in 0..MaxSettled
  /\ invoice \in Seq([amount: 1..MaxSettled, status: Status])
  /\ run \subseteq Call
  /\ raced \subseteq Nat /\ calls \in 0..MaxCalls

\* A company is never invoiced for more than it has settled, however applications, issues
\* and rejections interleave with the settlements, unless two applications overlapped
\* (each compared with the same unbilled amount) or an invoice was issued and rejected
\* at once (the amount a rejection gave back is billed twice).
BilledWithinSettled == raced = {} => Total({"pending", "issued"}) <= settled
=============================================================================
