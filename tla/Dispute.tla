------------------------------- MODULE Dispute -------------------------------
(***************************************************************************)
(* Disputes about the assignments of one task, from their creation to the   *)
(* verdict that moves the task's locked money: dispute.service.ts, the two  *)
(* handlers of platform.service.ts that write the same rows, and the        *)
(* settlement of an assignment (settlement.service.ts), which does not know *)
(* of disputes.  payForTask and the acceptance of the task are here as far  *)
(* as disputes read what they write.                                        *)
(*                                                                         *)
(* Every handler checks a row it has read and writes it by id after an      *)
(* await; req[h] holds what a handler knows across its awaits.              *)
(***************************************************************************)
EXTENDS Integers, FiniteSets

CONSTANTS
  Handlers,     \* request handlers that can be in flight at the same time
  Disputes,     \* rows of the table disputes; bounds how many are created
  Assignments,  \* the task's rows of role_assignments
  Evidence,     \* files that can be brought as evidence
  MaxFiles,     \* at most this many files per dispute (10 in the code)
  Locked,       \* lockedAmount of the task while it is not paid for
  SameId,       \* whether the id of the company's user is that of the company
  MaxCalls,     \* bound: how many handlers are started in a behaviour
  MaxFaults     \* bound: how many restarts there are

ASSUME LockedAssumption == Locked \in Nat \ {0}
ASSUME FilesAssumption == MaxFiles \in Nat \ {0} /\ IsFiniteSet(Evidence)
ASSUME SameIdAssumption == SameId \in BOOLEAN
ASSUME BoundAssumption == MaxCalls \in Nat /\ MaxFaults \in Nat
ASSUME NamesAssumption == "none" \notin Disputes \cup Assignments

VARIABLES
  taskStatus, locked,  \* the task's status and lockedAmount columns
  dispute,             \* status column of each dispute, "none" before it exists
  about, by, files,    \* its assignment, its initiator, its evidence
  assignment,          \* status column of each assignment
  moved,               \* ghost: what verdicts on a dispute paid to either side
  accepted,            \* ghost: the disputes that have been under investigation
  raced,               \* ghost: assignments with two dispute handlers at a time
  req,                 \* continuation of each handler
  calls, faults        \* handlers started and restarts so far (bound the model)

rowVars == <<dispute, about, by, files, moved, accepted>>
taskVars == <<taskStatus, locked, assignment>>
vars == <<rowVars, taskVars, raced, req, calls, faults>>

Parties == {"company", "worker"}
Open == {"pending", "investigating"}
Verdicts == {"resolved_company", "resolved_worker", "resolved_split"}

CreateOps == {"cr_task", "cr_free"}
RowOps == {"ev_read", "ac_read", "rs_read", "rs_task", "pr_read", "cn_read"}
SettleOps == {"st_read", "st_paid", "rv_read"}
TaskOps == {"py_read"}

\* What a dispute can hold.
FileSets == {F \in SUBSET Evidence : Cardinality(F) <= MaxFiles}

\* A continuation: the step reached, the assignment and the dispute it is about,
\* who called, the files, status or amounts it is going to write.
Request ==
  {r \in [op: {"idle"} \cup CreateOps \cup RowOps \cup SettleOps \cup TaskOps,
          asg: Assignments \cup {"none"}, on: Disputes \cup {"none"},
          who: Parties \cup {"none"}, files: FileSets,
          to: Verdicts \cup {"none", "cancelled"}, worker: Nat, company: Nat] :
     /\ r.op \in CreateOps \cup SettleOps => r.asg \in Assignments
     /\ r.op \in RowOps => r.on \in Disputes
     /\ r.op \in {"rs_read", "rs_task"} => r.to \in Verdicts
     /\ r.op = "pr_read" => r.to # "none"}
Idle == [op |-> "idle", asg |-> "none", on |-> "none", who |-> "none",
         files |-> {}, to |-> "none", worker |-> 0, company |-> 0]

Init ==
  /\ taskStatus \in {"published", "in_progress"}
  /\ locked = Locked
  /\ dispute = [d \in Disputes |-> "none"]
  /\ about = [d \in Disputes |-> "none"]
  /\ by = [d \in Disputes |-> "none"]
  /\ files = [d \in Disputes |-> {}]
  /\ assignment = [a \in Assignments |-> "accepted"]
  /\ moved = [d \in Disputes |-> [worker |-> 0, company |-> 0]]
  /\ accepted = {}
  /\ raced = {}
  /\ req = [h \in Handlers |-> Idle]
  /\ calls = 0 /\ faults = 0

\* The dispute handlers at work on an assignment.
Working(a) == {h \in Handlers : req[h].op \in CreateOps \cup RowOps /\ req[h].asg = a}

Begin(h, r) ==
  /\ req[h] = Idle
  /\ calls < MaxCalls
  /\ calls' = calls + 1
  /\ req' = [req EXCEPT ![h] = r]
  /\ UNCHANGED faults

\* A dispute handler begins; the ghost raced notes whether another is at work.
BeginDispute(h, r) ==
  /\ Begin(h, r)
  /\ raced' = IF Working(r.asg) = {} THEN raced ELSE raced \cup {r.asg}

Continue(h, r) == req' = [req EXCEPT ![h] = r] /\ UNCHANGED <<raced, calls, faults>>

Return(h) == Continue(h, Idle)

-----------------------------------------------------------------------------
(* Faulty variants of definitions below, each with one plausible slip.  They *)
(* are not part of the specification: with one of them in place of what it   *)
(* varies a property at the end of this module fails.                        *)

\* addEvidence without the slice
MergesAll(old, new) == {old \cup new}

\* addEvidence that replaces the list instead of adding to it
MergesNew(old, new) == {m \in SUBSET new : Cardinality(m) <= MaxFiles}

\* createDispute that looks for pending disputes only
CreateLookupPending(h) ==
  /\ req[h].op = "cr_task"
  /\ \A d \in Disputes : about[d] = req[h].asg => dispute[d] # "pending"
  /\ Continue(h, [req[h] EXCEPT !.op = "cr_free"])
  /\ UNCHANGED <<rowVars, taskVars>>

\* resolveDispute that gives the worker everything and the company its share too
SharesNoElse(v, amount) ==
  {s \in [worker: 0..amount, company: 0..amount] :
     /\ s.worker = amount
     /\ v = "resolved_company" => s.company = amount}

-----------------------------------------------------------------------------
\* The dispute of the assignment that is not closed, if any.
OpenOf(a) == {d \in Disputes : about[d] = a /\ dispute[d] \in Open}

\* [...new Set([...old, ...new])].slice(0, MaxFiles): the old files come first, so
\* they stay; which of the new ones still fit depends on their order.
Merges(old, new) ==
  {m \in SUBSET (old \cup new) :
     /\ old \subseteq m
     /\ Cardinality(m) <= MaxFiles
     /\ m # old \cup new => Cardinality(m) = MaxFiles}

\* Who passes the check of cancelDispute.  A dispute of a company is filed under
\* its companyId, and cancel compares that with the userId of the caller.
MayCancel(d, who) == by[d] = who /\ (who = "company" => SameId)

\* What a verdict gives the worker and the company of a locked amount: all to one
\* of them, or any split, the ratio being the arbitrator's.
Shares(v, amount) ==
  {s \in [worker: 0..amount, company: 0..amount] :
     /\ s.worker + s.company = amount
     /\ v = "resolved_worker" => s.company = 0
     /\ v = "resolved_company" => s.worker = 0}

-----------------------------------------------------------------------------
(* createDispute *)

CreateReadTask(h, a, who) ==
  /\ taskStatus \in {"published", "in_progress", "completed"}
  /\ BeginDispute(h, [Idle EXCEPT !.op = "cr_task", !.asg = a, !.who = who])
  /\ UNCHANGED <<rowVars, taskVars>>

CreateLookup(h) ==
  /\ req[h].op = "cr_task"
  /\ OpenOf(req[h].asg) = {}
  /\ Continue(h, [req[h] EXCEPT !.op = "cr_free"])
  /\ UNCHANGED <<rowVars, taskVars>>

CreateWrite(h) ==
  /\ req[h].op = "cr_free"
  /\ \E d \in Disputes, F \in FileSets :
       /\ dispute[d] = "none"
       /\ dispute' = [dispute EXCEPT ![d] = "pending"]
       /\ about' = [about EXCEPT ![d] = req[h].asg]
       /\ by' = [by EXCEPT ![d] = req[h].who]
       /\ files' = [files EXCEPT ![d] = F]
  /\ Return(h)
  /\ UNCHANGED <<moved, accepted, taskVars>>

-----------------------------------------------------------------------------
(* addEvidence *)

EvidenceRead(h, d, new) ==
  /\ dispute[d] \in Open
  /\ \E m \in Merges(files[d], new) :
       BeginDispute(h, [Idle EXCEPT !.op = "ev_read", !.asg = about[d], !.on = d,
                                    !.files = m])
  /\ UNCHANGED <<rowVars, taskVars>>

EvidenceWrite(h) ==
  /\ req[h].op = "ev_read"
  /\ files' = [files EXCEPT ![req[h].on] = req[h].files]
  /\ Return(h)
  /\ UNCHANGED <<dispute, about, by, moved, accepted, taskVars>>

-----------------------------------------------------------------------------
(* acceptDispute, of dispute.service.ts and of platform.service.ts *)

AcceptRead(h, d) ==
  /\ dispute[d] = "pending"
  /\ BeginDispute(h, [Idle EXCEPT !.op = "ac_read", !.asg = about[d], !.on = d])
  /\ UNCHANGED <<rowVars, taskVars>>

AcceptWrite(h) ==
  /\ req[h].op = "ac_read"
  /\ dispute' = [dispute EXCEPT ![req[h].on] = "investigating"]
  /\ accepted' = accepted \cup {req[h].on}
  /\ Return(h)
  /\ UNCHANGED <<about, by, files, moved, taskVars>>

-----------------------------------------------------------------------------
(* resolveDispute of dispute.service.ts *)

ResolveRead(h, d, v) ==
  /\ dispute[d] = "investigating"
  /\ BeginDispute(h, [Idle EXCEPT !.op = "rs_read", !.asg = about[d], !.on = d, !.to = v])
  /\ UNCHANGED <<rowVars, taskVars>>

\* The amount is that of the whole task, read before the transaction.
ResolveReadTask(h) ==
  /\ req[h].op = "rs_read"
  /\ \E s \in Shares(req[h].to, locked) :
       Continue(h, [req[h] EXCEPT !.op = "rs_task", !.worker = s.worker,
                                  !.company = s.company])
  /\ UNCHANGED <<rowVars, taskVars>>

\* One transaction.  The task's lockedAmount stays as it is.
ResolveCommit(h) ==
  /\ req[h].op = "rs_task"
  /\ dispute' = [dispute EXCEPT ![req[h].on] = req[h].to]
  /\ moved' = [moved EXCEPT ![req[h].on] = [worker |-> @.worker + req[h].worker,
                                            company |-> @.company + req[h].company]]
  /\ assignment' = [assignment EXCEPT ![req[h].asg] = "completed"]
  /\ Return(h)
  /\ UNCHANGED <<about, by, files, accepted, taskStatus, locked>>

-----------------------------------------------------------------------------
(* resolveDispute of platform.service.ts: the status and nothing else *)

PlatformResolveRead(h, d, v) ==
  /\ dispute[d] \in Open
  /\ BeginDispute(h, [Idle EXCEPT !.op = "pr_read", !.asg = about[d], !.on = d, !.to = v])
  /\ UNCHANGED <<rowVars, taskVars>>

PlatformResolveWrite(h) ==
  /\ req[h].op = "pr_read"
  /\ dispute' = [dispute EXCEPT ![req[h].on] = req[h].to]
  /\ Return(h)
  /\ UNCHANGED <<about, by, files, moved, accepted, taskVars>>

-----------------------------------------------------------------------------
(* cancelDispute *)

CancelRead(h, d, who) ==
  /\ dispute[d] = "pending"
  /\ MayCancel(d, who)
  /\ BeginDispute(h, [Idle EXCEPT !.op = "cn_read", !.asg = about[d], !.on = d])
  /\ UNCHANGED <<rowVars, taskVars>>

CancelWrite(h) ==
  /\ req[h].op = "cn_read"
  /\ dispute' = [dispute EXCEPT ![req[h].on] = "cancelled"]
  /\ Return(h)
  /\ UNCHANGED <<about, by, files, moved, accepted, taskVars>>

-----------------------------------------------------------------------------
(* triggerSettlement: pays whoever has accepted or completed, however often *)

SettleRead(h, a) ==
  /\ assignment[a] \in {"accepted", "completed"}
  /\ Begin(h, [Idle EXCEPT !.op = "st_read", !.asg = a])
  /\ UNCHANGED <<raced, rowVars, taskVars>>

\* settleToWorker, a transaction of its own (see Wallet).
SettlePay(h) ==
  /\ req[h].op = "st_read"
  /\ Continue(h, [req[h] EXCEPT !.op = "st_paid"])
  /\ UNCHANGED <<rowVars, taskVars>>

\* What follows, unlockAfterSettlement, is in CompanyFunds.
SettleComplete(h) ==
  /\ req[h].op = "st_paid"
  /\ assignment' = [assignment EXCEPT ![req[h].asg] = "completed"]
  /\ Return(h)
  /\ UNCHANGED <<rowVars, taskStatus, locked>>

-----------------------------------------------------------------------------
(* The task and its assignments, written from elsewhere *)

\* reviewDeliverable, when it approves
ReviewRead(h, a) ==
  /\ assignment[a] = "accepted"
  /\ Begin(h, [Idle EXCEPT !.op = "rv_read", !.asg = a])
  /\ UNCHANGED <<raced, rowVars, taskVars>>

ReviewWrite(h) ==
  /\ req[h].op = "rv_read"
  /\ assignment' = [assignment EXCEPT ![req[h].asg] = "completed"]
  /\ Return(h)
  /\ UNCHANGED <<rowVars, taskStatus, locked>>

\* The task goes through its acceptance (TaskLifecycle has the steps).
TaskAdvance ==
  /\ \/ taskStatus = "published" /\ taskStatus' = "in_progress"
     \/ taskStatus = "in_progress" /\ taskStatus' = "pending_payment"
  /\ UNCHANGED <<rowVars, locked, assignment, raced, req, calls, faults>>

PayRead(h) ==
  /\ taskStatus = "pending_payment"
  /\ Begin(h, [Idle EXCEPT !.op = "py_read"])
  /\ UNCHANGED <<raced, rowVars, taskVars>>

PayCommit(h) ==
  /\ req[h].op = "py_read"
  /\ taskStatus' = "completed"
  /\ locked' = 0
  /\ Return(h)
  /\ UNCHANGED <<rowVars, assignment>>

-----------------------------------------------------------------------------
\* createDispute finds an open dispute.
CreateRefuse(h) ==
  /\ req[h].op = "cr_task"
  /\ OpenOf(req[h].asg) # {}
  /\ Return(h)
  /\ UNCHANGED <<rowVars, taskVars>>

\* The process restarts: the continuations are gone.
Restart ==
  /\ faults < MaxFaults
  /\ faults' = faults + 1
  /\ req' = [h \in Handlers |-> Idle]
  /\ UNCHANGED <<rowVars, taskVars, raced, calls>>

Handle(h) ==
  \/ CreateLookup(h) \/ CreateWrite(h) \/ CreateRefuse(h)
  \/ EvidenceWrite(h)
  \/ AcceptWrite(h)
  \/ ResolveReadTask(h) \/ ResolveCommit(h)
  \/ PlatformResolveWrite(h)
  \/ CancelWrite(h)
  \/ SettlePay(h) \/ SettleComplete(h)
  \/ ReviewWrite(h) \/ PayCommit(h)

Next ==
  \/ \E h \in Handlers :
       \/ \E a \in Assignments :
            \/ \E who \in Parties : CreateReadTask(h, a, who)
            \/ SettleRead(h, a)
            \/ ReviewRead(h, a)
       \/ \E d \in Disputes :
            \/ \E new \in SUBSET Evidence : EvidenceRead(h, d, new)
            \/ AcceptRead(h, d)
            \/ \E v \in Verdicts : ResolveRead(h, d, v)
            \/ \E v \in Verdicts \cup {"cancelled"} : PlatformResolveRead(h, d, v)
            \/ \E who \in Parties : CancelRead(h, d, who)
       \/ PayRead(h)
       \/ Handle(h)
  \/ TaskAdvance
  \/ Restart

Spec == Init /\ [][Next]_vars

-----------------------------------------------------------------------------
(* Properties *)

\* The values every variable ranges over; a dispute is about an assignment and
\* holds no more files than the limit; a handler works on one that exists.
TypeOK ==
  /\ taskStatus \in {"published", "in_progress", "pending_payment", "completed"}
  /\ locked \in {0, Locked}
  /\ dispute \in [Disputes -> {"none", "cancelled"} \cup Open \cup Verdicts]
  /\ about \in [Disputes -> Assignments \cup {"none"}]
  /\ \A d \in Disputes : dispute[d] # "none" => about[d] \in Assignments
  /\ by \in [Disputes -> Parties \cup {"none"}]
  /\ files \in [Disputes -> FileSets]
  /\ assignment \in [Assignments -> {"accepted", "completed"}]
  /\ moved \in [Disputes -> [worker: Nat, company: Nat]]
  /\ accepted \subseteq Disputes
  /\ raced \subseteq Assignments
  /\ req \in [Handlers -> Request]
  /\ \A h \in Handlers : req[h].op \in RowOps =>
       dispute[req[h].on] # "none" /\ req[h].asg = about[req[h].on]
  /\ calls \in Nat /\ faults \in Nat

MovedBy(d) == moved[d].worker + moved[d].company

\* However the handlers interleave, no verdict moves money of a dispute that
\* nobody had taken up: the arbitrators' second door (platform.service.ts) closes
\* disputes that are still pending, and must not open a way around acceptDispute.
MovedWasAccepted == \A d \in Disputes : MovedBy(d) > 0 => d \in accepted

\* Disputes about an assignment whose handlers never overlapped: at most one of
\* them is open.
OneOpenUnlessRaced ==
  \A a \in Assignments \ raced : \A d, e \in OpenOf(a) : d = e

\* ... and verdicts on each of them moved at most the amount locked for the task,
\* whichever of the two arbitration consoles is used, in whatever order, and nothing for
\* one that was withdrawn or is still open ...
MovedOnceUnlessRaced ==
  /\ MovedWasAccepted
  /\ \A d \in Disputes : about[d] \notin raced =>
       /\ MovedBy(d) <= Locked
       /\ dispute[d] \in {"cancelled"} \cup Open => MovedBy(d) = 0

\* ... and a file brought as evidence stays.
EvidenceKeptUnlessRaced ==
  [][\A d \in Disputes : about[d] \notin raced => files[d] \subseteq files'[d]]_vars

-----------------------------------------------------------------------------
(* What the documents and the code of the repository say of disputes, and    *)
(* the code does not do.                                                     *)

\* The PRD's acceptance list: a dispute is taken up, decided, and the money moves
\* by itself.  A decided dispute has moved money, while there is any.
RulingMovesMoney ==
  \A d \in Disputes : dispute[d] \in Verdicts /\ locked > 0 => MovedBy(d) > 0

=============================================================================
