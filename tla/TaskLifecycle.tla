---------------------------- MODULE TaskLifecycle ----------------------------
(***************************************************************************)
(* The life of one task, from draft to closed, as task.service.ts drives    *)
(* it: its status, its budget and roles, and the work of the people on it   *)
(* (progress, deliverables and their review).                               *)
(*                                                                         *)
(* Every handler reads the row, compares what it has read with the table of *)
(* transitions (task-status.machine.ts), and after an await updates the row *)
(* by its id alone.  So what a handler writes was legal for what it read.   *)
(*                                                                         *)
(* Who gets which seat is the subject of Recruitment, how a dispute gets to *)
(* its verdict of Dispute, and what a payment or a settlement does to the   *)
(* money of CompanyFunds and Wallet; here a seat is applied for or offered  *)
(* and then taken, a payment is a change of status, and a settlement or a   *)
(* verdict a row that completes the assignment.                             *)
(***************************************************************************)
EXTENDS Integers, Sequences, FiniteSets

CONSTANTS
  Handlers,  \* request handlers that can be in flight at the same time
  Seats,     \* applications and invitations that can be made, with their assignments
  Budgets,   \* budgets a client asks for: of the task, or of its roles together
  Steps,     \* percentages a worker reports as progress
  MaxCalls   \* bound: how many handlers are started in a behaviour

ASSUME BudgetsAssumption == Budgets \subseteq Nat
ASSUME StepsAssumption == Steps \subseteq 0..100
ASSUME BoundAssumption == MaxCalls \in Nat
ASSUME SeatsAssumption == "none" \notin Seats

VARIABLES
  status,  \* the task's status column
  total,   \* its totalBudget column
  roles,   \* its role rows: their generation (ids), whether there are any, and the
           \* sum of their budgets
  seat,    \* status and progress of each assignment
  work,    \* deliverables of each assignment, in the order they were handed in
  settled, \* assignments a settlement was paid for
  ruled,   \* assignments a dispute about which was resolved
  req,     \* continuation of each handler
  calls,   \* handlers started so far (bounds the model)
  was      \* history: every status the task has had

desk == <<settled, ruled>>
vars == <<status, total, roles, seat, work, desk, req, calls, was>>

\* The values of the column; "deleted" stands for a row that is gone.
Statuses == {"deleted", "draft", "pending_review", "published", "in_progress", "reviewing",
             "pending_payment", "completed", "closed", "cancelled"}

TRANSITIONS ==
  [s \in Statuses |->
     CASE s = "draft"           -> {"pending_review", "cancelled"}
       [] s = "pending_review"  -> {"published", "draft"}
       [] s = "published"       -> {"in_progress", "cancelled"}
       [] s = "in_progress"     -> {"reviewing"}
       [] s = "reviewing"       -> {"pending_payment", "in_progress"}
       [] s = "pending_payment" -> {"completed"}
       [] s = "completed"       -> {"closed"}
       [] OTHER                 -> {}]

canTransition(from, to) == to \in TRANSITIONS[from]

MoveOps == {"pb_checked", "mv_read", "rq_read", "py_read"}
SeatOps == {"cl_read", "hi_read", "ac_read", "ac_written",
            "pr_read", "sb_read", "rv_read", "rv_marked", "st_read", "st_paid", "vd_read"}
Ops == MoveOps \cup SeatOps \cup {"idle", "ud_read", "sr_read", "pb_read", "dl_read"}

Lists == {"empty", "filled"}
SeatStates == {"none", "applied", "invited", "accepted", "completed"}

\* A continuation: the step reached, the status it will write (or, for hiring, has
\* read; for a review, the verdict; for a claim, its kind; for roles, whether the list
\* has any), the seat, and a number: a budget, a percentage, a version, an index or a
\* generation.
Request ==
  {r \in [op: Ops, to: Statuses \cup {"none", "applied", "invited", "approved", "rejected"}
                        \cup Lists,
          on: Seats \cup {"none"}, num: Nat] :
     /\ r.op \in MoveOps \cup {"hi_read"} => r.to \in Statuses
     /\ r.op \in SeatOps => r.on \in Seats
     /\ r.op = "cl_read" => r.to \in {"applied", "invited"}
     /\ r.op \in {"rv_read", "rv_marked"} => r.to \in {"approved", "rejected"}
     /\ r.op = "sr_read" => r.to \in Lists
     /\ r.op = "pr_read" => r.num \in Steps}
Idle == [op |-> "idle", to |-> "none", on |-> "none", num |-> 0]

Deliverable == [version: Nat, verdict: {"submitted", "approved", "rejected"}]

\* Lists of roles a client sends, with the sum of their budgets: a role may have budget 0.
RoleLists == {<<"empty", 0>>} \cup ({"filled"} \X Budgets)

\* createTask wants a budget, and takes a list of roles or none.
Init ==
  /\ status = "draft" /\ was = {"draft"}
  /\ total \in Budgets \ {0}
  /\ \E l \in RoleLists : roles = [gen |-> 0, list |-> l[1], sum |-> l[2]]
  /\ seat = [a \in Seats |-> [state |-> "none", progress |-> 0]]
  /\ work = [a \in Seats |-> << >>]
  /\ settled = {} /\ ruled = {}
  /\ req = [h \in Handlers |-> Idle]
  /\ calls = 0

Begin(h, r) ==
  /\ req[h] = Idle
  /\ calls < MaxCalls
  /\ calls' = calls + 1
  /\ req' = [req EXCEPT ![h] = r]

Continue(h, r) == req' = [req EXCEPT ![h] = r] /\ UNCHANGED calls

Return(h) == Continue(h, Idle)

SetStatus(s) == status' = s /\ was' = was \cup {s}

\* The seats with a row that refers to a role of the task.
Claimed == {a \in Seats : seat[a].state # "none"}

-----------------------------------------------------------------------------
(* Faulty variants of actions below, each with one plausible slip.  They are *)
(* not part of the specification: with one of them in place of its action a  *)
(* property at the end of this module fails.                                 *)

\* a handler that does not ask the table
MoveReadUnchecked(h, to) ==
  /\ to \in {"cancelled", "in_progress", "pending_payment"}
  /\ Begin(h, [Idle EXCEPT !.op = "mv_read", !.to = to])
  /\ UNCHANGED <<status, total, roles, seat, work, was, desk>>

\* setTaskRoles against a table without foreign keys to the roles
SetRolesWriteNoKey(h) ==
  /\ req[h].op = "sr_read"
  /\ status # "deleted"
  /\ roles' = [gen |-> roles.gen + 1, list |-> req[h].to, sum |-> req[h].num]
  /\ Return(h)
  /\ UNCHANGED <<status, total, seat, work, was, desk>>

\* reviewDeliverable that completes the assignment and leaves the deliverable
ReviewMarkForget(h) ==
  /\ req[h].op = "rv_read"
  /\ IF req[h].to = "approved"
       THEN Continue(h, [req[h] EXCEPT !.op = "rv_marked"])
       ELSE Return(h)
  /\ UNCHANGED <<status, total, roles, seat, work, was, desk>>

\* updateProgress that adds what is reported
ProgressWriteAdds(h) ==
  /\ req[h].op = "pr_read"
  /\ seat' = [seat EXCEPT ![req[h].on].progress = @ + req[h].num]
  /\ Return(h)
  /\ UNCHANGED <<status, total, roles, work, was, desk>>

-----------------------------------------------------------------------------
(* The draft: updateDraft, setTaskRoles, publishTask and deleteTask *)

UpdateDraftRead(h, b) ==
  /\ status = "draft"
  /\ Begin(h, [Idle EXCEPT !.op = "ud_read", !.num = b])
  /\ UNCHANGED <<status, total, roles, seat, work, was, desk>>

UpdateDraftWrite(h) ==
  /\ req[h].op = "ud_read"
  /\ status # "deleted"
  /\ total' = req[h].num
  /\ Return(h)
  /\ UNCHANGED <<status, roles, seat, work, was, desk>>

SetRolesRead(h, list, sum) ==
  /\ status = "draft"
  /\ Begin(h, [Idle EXCEPT !.op = "sr_read", !.to = list, !.num = sum])
  /\ UNCHANGED <<status, total, roles, seat, work, was, desk>>

\* The roles are deleted and made anew; foreign keys keep a role that somebody has
\* applied for or is invited to.
SetRolesWrite(h) ==
  /\ req[h].op = "sr_read"
  /\ status # "deleted"
  /\ Claimed = {}
  /\ roles' = [gen |-> roles.gen + 1, list |-> req[h].to, sum |-> req[h].num]
  /\ Return(h)
  /\ UNCHANGED <<status, total, seat, work, was, desk>>

\* updateDraft takes a budget of 0, publishTask does not.
PublishRead(h) ==
  /\ canTransition(status, "pending_review")
  /\ total > 0
  /\ Begin(h, [Idle EXCEPT !.op = "pb_read", !.num = total])
  /\ UNCHANGED <<status, total, roles, seat, work, was, desk>>

PublishCheck(h) ==
  /\ req[h].op = "pb_read"
  /\ roles.list = "filled" /\ roles.sum <= req[h].num
  /\ Continue(h, [Idle EXCEPT !.op = "pb_checked", !.to = "published"])
  /\ UNCHANGED <<status, total, roles, seat, work, was, desk>>

DeleteRead(h) ==
  /\ status \in {"draft", "cancelled", "closed"}
  /\ Begin(h, [Idle EXCEPT !.op = "dl_read"])
  /\ UNCHANGED <<status, total, roles, seat, work, was, desk>>

\* The rows of the task, its roles among them, and the task itself, unless foreign
\* keys keep its roles.
DeleteWrite(h) ==
  /\ req[h].op = "dl_read"
  /\ status # "deleted"
  /\ Claimed = {}
  /\ SetStatus("deleted")
  /\ roles' = [gen |-> roles.gen + 1, list |-> "empty", sum |-> 0]
  /\ Return(h)
  /\ UNCHANGED <<total, seat, work, desk>>

-----------------------------------------------------------------------------
(* Handlers that read the status and then write another *)

\* cancelTask; approveTask and rejectAcceptance; acceptTask.
MoveRead(h, to) ==
  /\ to \in {"cancelled", "in_progress", "pending_payment"}
  /\ canTransition(status, to)
  /\ Begin(h, [Idle EXCEPT !.op = "mv_read", !.to = to])
  /\ UNCHANGED <<status, total, roles, seat, work, was, desk>>

ForceCloseRead(h) ==
  /\ status \notin {"completed", "closed", "cancelled", "deleted"}
  /\ Begin(h, [Idle EXCEPT !.op = "mv_read", !.to = "closed"])
  /\ UNCHANGED <<status, total, roles, seat, work, was, desk>>

\* A worker at work asks for acceptance.
RequestRead(h, a) ==
  /\ seat[a].state = "accepted"
  /\ status = "in_progress"
  /\ Begin(h, [Idle EXCEPT !.op = "rq_read", !.to = "reviewing"])
  /\ UNCHANGED <<status, total, roles, seat, work, was, desk>>

PayRead(h) ==
  /\ status = "pending_payment"
  /\ Begin(h, [Idle EXCEPT !.op = "py_read", !.to = "completed"])
  /\ UNCHANGED <<status, total, roles, seat, work, was, desk>>

\* task.update({where: {id}, data: {status}}), the last step of all of them.
MoveWrite(h) ==
  /\ req[h].op \in MoveOps
  /\ status # "deleted"
  /\ SetStatus(req[h].to)
  /\ Return(h)
  /\ UNCHANGED <<total, roles, seat, work, desk>>

-----------------------------------------------------------------------------
(* Seats: apply and inviteWorker, reviewApplication and acceptInvite.  The   *)
(* first one that is taken moves the task on.                                *)

\* apply needs a published task; inviteWorker also serves one in progress.
ClaimRead(h, a, kind) ==
  /\ status = "published" \/ (status = "in_progress" /\ kind = "invited")
  /\ roles.list = "filled"
  /\ Begin(h, [op |-> "cl_read", to |-> kind, on |-> a, num |-> roles.gen])
  /\ UNCHANGED <<status, total, roles, seat, work, was, desk>>

\* The row refers to the role that was read, which must still be there.
ClaimWrite(h) ==
  /\ req[h].op = "cl_read"
  /\ req[h].num = roles.gen
  /\ seat[req[h].on].state = "none"
  /\ seat' = [seat EXCEPT ![req[h].on].state = req[h].to]
  /\ Return(h)
  /\ UNCHANGED <<status, total, roles, work, was, desk>>

\* reviewApplication approves whatever the status of the task is.
HireRead(h, a) ==
  /\ seat[a].state = "applied"
  /\ Begin(h, [op |-> "hi_read", to |-> status, on |-> a, num |-> 0])
  /\ UNCHANGED <<status, total, roles, seat, work, was, desk>>

HireWrite(h) ==
  /\ req[h].op = "hi_read"
  /\ seat[req[h].on].state = "applied"
  /\ seat' = [seat EXCEPT ![req[h].on].state = "accepted"]
  /\ IF req[h].to = "published" THEN SetStatus("in_progress") ELSE UNCHANGED <<status, was>>
  /\ Return(h)
  /\ UNCHANGED <<total, roles, work, desk>>

\* acceptInvite writes the assignment by its id, then looks at the task.
AcceptRead(h, a) ==
  /\ seat[a].state = "invited"
  /\ Begin(h, [Idle EXCEPT !.op = "ac_read", !.on = a])
  /\ UNCHANGED <<status, total, roles, seat, work, was, desk>>

AcceptWrite(h) ==
  /\ req[h].op = "ac_read"
  /\ seat' = [seat EXCEPT ![req[h].on].state = "accepted"]
  /\ Continue(h, [req[h] EXCEPT !.op = "ac_written"])
  /\ UNCHANGED <<status, total, roles, work, was, desk>>

AcceptStart(h) ==
  /\ req[h].op = "ac_written"
  /\ IF status = "published"
       THEN Continue(h, [Idle EXCEPT !.op = "mv_read", !.to = "in_progress"])
       ELSE Return(h)
  /\ UNCHANGED <<status, total, roles, seat, work, was, desk>>

-----------------------------------------------------------------------------
(* Work: updateProgress, submitDeliverable and reviewDeliverable *)

ProgressRead(h, a, p) ==
  /\ seat[a].state = "accepted"
  /\ p > seat[a].progress
  /\ Begin(h, [Idle EXCEPT !.op = "pr_read", !.on = a, !.num = p])
  /\ UNCHANGED <<status, total, roles, seat, work, was, desk>>

ProgressWrite(h) ==
  /\ req[h].op = "pr_read"
  /\ seat' = [seat EXCEPT ![req[h].on].progress = req[h].num]
  /\ Return(h)
  /\ UNCHANGED <<status, total, roles, work, was, desk>>

Versions(a) == {0} \cup {work[a][i].version : i \in DOMAIN work[a]}

\* The next version is one above the highest that is there.
SubmitRead(h, a) ==
  /\ seat[a].state \in {"invited", "accepted", "completed"}
  /\ \E v \in Versions(a) :
       /\ \A w \in Versions(a) : w <= v
       /\ Begin(h, [Idle EXCEPT !.op = "sb_read", !.on = a, !.num = v + 1])
  /\ UNCHANGED <<status, total, roles, seat, work, was, desk>>

SubmitWrite(h) ==
  /\ req[h].op = "sb_read"
  /\ work' = [work EXCEPT ![req[h].on] =
                Append(@, [version |-> req[h].num, verdict |-> "submitted"])]
  /\ Return(h)
  /\ UNCHANGED <<status, total, roles, seat, was, desk>>

Submitted(a) == {i \in DOMAIN work[a] : work[a][i].verdict = "submitted"}

\* The deliverable with the highest version among those not reviewed yet; equal
\* versions come in any order.
ReviewRead(h, a, verdict) ==
  /\ seat[a].state = "accepted"
  /\ \E i \in Submitted(a) :
       /\ \A j \in Submitted(a) : work[a][j].version <= work[a][i].version
       /\ Begin(h, [op |-> "rv_read", to |-> verdict, on |-> a, num |-> i])
  /\ UNCHANGED <<status, total, roles, seat, work, was, desk>>

ReviewMark(h) ==
  /\ req[h].op = "rv_read"
  /\ work' = [work EXCEPT ![req[h].on][req[h].num].verdict = req[h].to]
  /\ IF req[h].to = "approved"
       THEN Continue(h, [req[h] EXCEPT !.op = "rv_marked"])
       ELSE Return(h)
  /\ UNCHANGED <<status, total, roles, seat, was, desk>>

ReviewComplete(h) ==
  /\ req[h].op = "rv_marked"
  /\ seat' = [seat EXCEPT ![req[h].on] = [state |-> "completed", progress |-> 100]]
  /\ Return(h)
  /\ UNCHANGED <<status, total, roles, work, was, desk>>

-----------------------------------------------------------------------------
(* Who else completes an assignment *)

\* triggerSettlement, for an assignment of the role that is accepted or completed: the
\* worker is paid in a transaction, ...
SettleRead(h, a) ==
  /\ seat[a].state \in {"accepted", "completed"}
  /\ Begin(h, [Idle EXCEPT !.op = "st_read", !.on = a])
  /\ UNCHANGED <<status, total, roles, seat, work, was, desk>>

SettlePay(h) ==
  /\ req[h].op = "st_read"
  /\ settled' = settled \cup {req[h].on}
  /\ Continue(h, [req[h] EXCEPT !.op = "st_paid"])
  /\ UNCHANGED <<status, total, roles, seat, work, was, ruled>>

\* ... and the assignment completed in a statement of its own.
SettleComplete(h) ==
  /\ req[h].op = "st_paid"
  /\ seat' = [seat EXCEPT ![req[h].on].state = "completed"]
  /\ Return(h)
  /\ UNCHANGED <<status, total, roles, work, was, desk>>

\* resolveDispute, with a dispute under investigation: it can be about any assignment.
VerdictRead(h, a) ==
  /\ seat[a].state \in {"invited", "accepted", "completed"}
  /\ Begin(h, [Idle EXCEPT !.op = "vd_read", !.on = a])
  /\ UNCHANGED <<status, total, roles, seat, work, was, desk>>

\* The verdict and the assignment are written in one transaction.
VerdictWrite(h) ==
  /\ req[h].op = "vd_read"
  /\ ruled' = ruled \cup {req[h].on}
  /\ seat' = [seat EXCEPT ![req[h].on].state = "completed"]
  /\ Return(h)
  /\ UNCHANGED <<status, total, roles, work, was, settled>>

-----------------------------------------------------------------------------
\* A handler ends early: a check fails, a write is refused, the database fails
\* or the process restarts.
Fail(h) ==
  /\ req[h] # Idle
  /\ Return(h)
  /\ UNCHANGED <<status, total, roles, seat, work, was, desk>>

Handle(h) ==
  \/ UpdateDraftWrite(h) \/ SetRolesWrite(h) \/ PublishCheck(h) \/ DeleteWrite(h)
  \/ MoveWrite(h) \/ ClaimWrite(h) \/ HireWrite(h) \/ AcceptWrite(h) \/ AcceptStart(h)
  \/ ProgressWrite(h) \/ SubmitWrite(h) \/ ReviewMark(h) \/ ReviewComplete(h)
  \/ SettlePay(h) \/ SettleComplete(h) \/ VerdictWrite(h)

Next ==
  \E h \in Handlers :
    \/ \E b \in Budgets : UpdateDraftRead(h, b)
    \/ \E l \in RoleLists : SetRolesRead(h, l[1], l[2])
    \/ PublishRead(h) \/ DeleteRead(h)
    \/ \E to \in Statuses : MoveRead(h, to)
    \/ ForceCloseRead(h)
    \/ PayRead(h)
    \/ \E a \in Seats :
         \/ RequestRead(h, a) \/ HireRead(h, a) \/ AcceptRead(h, a) \/ SubmitRead(h, a)
         \/ SettleRead(h, a) \/ VerdictRead(h, a)
         \/ \E kind \in {"applied", "invited"} : ClaimRead(h, a, kind)
         \/ \E p \in Steps : ProgressRead(h, a, p)
         \/ \E v \in {"approved", "rejected"} : ReviewRead(h, a, v)
    \/ Handle(h)
    \/ Fail(h)

Spec == Init /\ [][Next]_vars

\* Continuations are run; nothing makes users call.
FairSpec == Spec /\ \A h \in Handlers : WF_vars(Handle(h))

-----------------------------------------------------------------------------
(* Properties *)

\* The values every variable ranges over.
TypeOK ==
  /\ status \in Statuses
  /\ total \in Nat
  /\ roles \in [gen: Nat, list: Lists, sum: Nat]
  /\ seat \in [Seats -> [state: SeatStates, progress: 0..100]]
  /\ work \in [Seats -> Seq(Deliverable)]
  /\ req \in [Handlers -> Request]
  /\ \A h \in Handlers : req[h].op = "rv_read" => req[h].num \in DOMAIN work[req[h].on]
  /\ settled \subseteq Seats /\ ruled \subseteq Seats
  /\ calls \in Nat
  /\ was \subseteq Statuses

\* The stages in which a task gets from draft to completed.
Stages == <<"draft", "published", "in_progress", "reviewing", "pending_payment", "completed">>

\* However stale the statuses are that handlers go by, no task gets to a stage
\* without having been in the stage before: none is paid for that was not
\* accepted, none accepted that nobody handed in, none handed in without work.
NoStageSkipped ==
  \A i \in 2..Len(Stages) : Stages[i] \in was => Stages[i - 1] \in was

\* Who has applied for a seat, is invited to it or sits in it has it in a task
\* that is there and has roles, also when a setTaskRoles or a deleteTask that found a
\* draft comes late, or a claim that found the roles since replaced.
ClaimedHasRoles == Claimed # {} => status # "deleted" /\ roles.list = "filled"

\* No assignment is completed for nothing: a deliverable of it was reviewed, it was paid
\* for, or a dispute about it was resolved; whatever reviews, hand-ins, settlements and
\* verdicts come between.
CompletedHasReason ==
  \A a \in Seats : seat[a].state = "completed" =>
    \/ \E i \in DOMAIN work[a] : work[a][i].verdict # "submitted"
    \/ a \in settled \cup ruled
=============================================================================
