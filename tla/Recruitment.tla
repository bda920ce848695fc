----------------------------- MODULE Recruitment -----------------------------
(***************************************************************************)
(* Filling one role of a published task: invitations (inviteWorker,         *)
(* acceptInvite and rejectInvite of assignment.service.ts), applications    *)
(* (apply and reviewApplication of marketplace.controller.ts), and the      *)
(* status of the task as far as recruiting reads and writes it (cancelTask  *)
(* and approveTask of task.service.ts).                                     *)
(*                                                                         *)
(* The table role_assignments has the unique index (task_role_id,           *)
(* slot_index); nothing else orders the handlers, which are cut at their    *)
(* awaits and keep what they have read in req[h].                           *)
(***************************************************************************)
EXTENDS Integers, Sequences, FiniteSets

CONSTANTS
  Handlers,   \* request handlers that can be in flight at the same time
  Workers,    \* workers that can be invited or apply
  Headcount,  \* the headcount column of the role
  MaxCalls,   \* bound: how many handlers are started in a behaviour
  MaxFaults   \* bound: how many restarts there are

ASSUME HeadcountAssumption == Headcount \in Nat \ {0}
ASSUME BoundAssumption == MaxCalls \in Nat /\ MaxFaults \in Nat
ASSUME WorkersAssumption == "none" \notin Workers

VARIABLES
  status,       \* the task's status column
  rows,         \* the role's rows of role_assignments, in order of their ids
  application,  \* status of each worker's row of task_applications
  req,          \* continuation of each handler
  calls, faults \* handlers started and faults so far (bound the model)

vars == <<status, rows, application, req, calls, faults>>

\* invited tells the rows of inviteWorker, which expire, from those of
\* reviewApplication, which do not (expiredAt is null); overdue is the outcome
\* of comparing expiredAt with the clock.
Row == [worker: Workers, slot: Nat, invited: BOOLEAN, overdue: BOOLEAN,
        state: {"invited", "accepted", "rejected", "expired", "completed"}]

WorkerOps == {"iv_checked", "iv_counted", "ap_checked", "ap_new", "ap_again",
              "rv_task", "rv_app", "rv_counted"}
RowOps == {"ac_late", "ac_ok", "ac_written", "rj_read", "cp_read"}
TaskOps == {"ac_task", "cn_read", "at_read"}

\* A continuation: the step reached, the worker or the row it is about, the slot
\* it has computed and the task status it has read.
Request ==
  {r \in [op: {"idle"} \cup WorkerOps \cup RowOps \cup TaskOps,
          who: Workers \cup {"none"}, on: Nat, slot: Nat,
          seen: {"none", "published", "in_progress", "cancelled"}] :
     r.op \in WorkerOps => r.who \in Workers}
Idle == [op |-> "idle", who |-> "none", on |-> 0, slot |-> 0, seen |-> "none"]

Init ==
  /\ status = "published"
  /\ rows = << >>
  /\ application = [w \in Workers |-> "none"]
  /\ req = [h \in Handlers |-> Idle]
  /\ calls = 0 /\ faults = 0

Begin(h, r) ==
  /\ req[h] = Idle
  /\ calls < MaxCalls
  /\ calls' = calls + 1
  /\ req' = [req EXCEPT ![h] = r]
  /\ UNCHANGED faults

Continue(h, r) == req' = [req EXCEPT ![h] = r] /\ UNCHANGED <<calls, faults>>

Return(h) == Continue(h, Idle)

-----------------------------------------------------------------------------
\* The rows that count against the headcount.
Active == {i \in DOMAIN rows : rows[i].state \in {"invited", "accepted"}}

\* A faulty SlotTaken: a table without its unique index.
SlotTakenNoIndex(s) == FALSE

\* The unique index on (task_role_id, slot_index) refuses the slot.
SlotTaken(s) == \E i \in DOMAIN rows : rows[i].slot = s

SetState(i, s) == rows' = [rows EXCEPT ![i].state = s]

-----------------------------------------------------------------------------
(* Faulty variants of actions below, each with one plausible slip.  They are *)
(* not part of the specification: with one of them in place of its action a  *)
(* property at the end of this module fails.                                 *)

\* inviteWorker that does not look for the worker among the role's rows
InviteCountNoLookup(h) ==
  /\ req[h].op = "iv_checked"
  /\ Cardinality(Active) < Headcount
  /\ Continue(h, [req[h] EXCEPT !.op = "iv_counted", !.slot = Cardinality(Active) + 1])
  /\ UNCHANGED <<status, rows, application>>

\* reviewApplication that copies the application's status to the assignment
ReviewCommitCopyStatus(h) ==
  /\ req[h].op = "rv_counted"
  /\ ~SlotTaken(req[h].slot)
  /\ application' = [application EXCEPT ![req[h].who] = "approved"]
  /\ rows' = Append(rows, [worker |-> req[h].who, slot |-> req[h].slot,
                           invited |-> FALSE, overdue |-> FALSE, state |-> "approved"])
  /\ status' = IF req[h].seen = "published" THEN "in_progress" ELSE status
  /\ Return(h)

\* acceptInvite that forgets the task
AcceptReadTaskForget(h) ==
  /\ req[h].op = "ac_written"
  /\ Return(h)
  /\ UNCHANGED <<status, rows, application>>

-----------------------------------------------------------------------------
(* inviteWorker *)

InviteCheck(h, w) ==
  /\ status \in {"published", "in_progress"}
  /\ Begin(h, [Idle EXCEPT !.op = "iv_checked", !.who = w])
  /\ UNCHANGED <<status, rows, application>>

InviteCount(h) ==
  /\ req[h].op = "iv_checked"
  /\ Cardinality(Active) < Headcount
  /\ \A i \in Active : rows[i].worker # req[h].who
  /\ Continue(h, [req[h] EXCEPT !.op = "iv_counted", !.slot = Cardinality(Active) + 1])
  /\ UNCHANGED <<status, rows, application>>

InviteCreate(h) ==
  /\ req[h].op = "iv_counted"
  /\ ~SlotTaken(req[h].slot)
  /\ rows' = Append(rows, [worker |-> req[h].who, slot |-> req[h].slot,
                           invited |-> TRUE, overdue |-> FALSE, state |-> "invited"])
  /\ Return(h)
  /\ UNCHANGED <<status, application>>

-----------------------------------------------------------------------------
(* acceptInvite and rejectInvite *)

\* Twenty-four hours after an invitation.
Lapse(i) ==
  /\ rows[i].invited /\ ~rows[i].overdue
  /\ rows' = [rows EXCEPT ![i].overdue = TRUE]
  /\ UNCHANGED <<status, application, req, calls, faults>>

AcceptRead(h, i) ==
  /\ rows[i].state = "invited"
  /\ Begin(h, [Idle EXCEPT !.op = IF rows[i].overdue THEN "ac_late" ELSE "ac_ok",
                           !.on = i])
  /\ UNCHANGED <<status, rows, application>>

AcceptExpire(h) ==
  /\ req[h].op = "ac_late"
  /\ SetState(req[h].on, "expired")
  /\ Return(h)
  /\ UNCHANGED <<status, application>>

AcceptWrite(h) ==
  /\ req[h].op = "ac_ok"
  /\ SetState(req[h].on, "accepted")
  /\ Continue(h, [req[h] EXCEPT !.op = "ac_written"])
  /\ UNCHANGED <<status, application>>

AcceptReadTask(h) ==
  /\ req[h].op = "ac_written"
  /\ IF status = "published"
       THEN Continue(h, [Idle EXCEPT !.op = "ac_task"])
       ELSE Return(h)
  /\ UNCHANGED <<status, rows, application>>

AcceptStart(h) ==
  /\ req[h].op = "ac_task"
  /\ status' = "in_progress"
  /\ Return(h)
  /\ UNCHANGED <<rows, application>>

RejectRead(h, i) ==
  /\ rows[i].state = "invited"
  /\ Begin(h, [Idle EXCEPT !.op = "rj_read", !.on = i])
  /\ UNCHANGED <<status, rows, application>>

RejectWrite(h) ==
  /\ req[h].op = "rj_read"
  /\ SetState(req[h].on, "rejected")
  /\ Return(h)
  /\ UNCHANGED <<status, application>>

-----------------------------------------------------------------------------
(* apply *)

ApplyCheck(h, w) ==
  /\ status = "published"
  /\ Begin(h, [Idle EXCEPT !.op = "ap_checked", !.who = w])
  /\ UNCHANGED <<status, rows, application>>

\* A worker who was turned down may apply again.
ApplyLookup(h) ==
  /\ req[h].op = "ap_checked"
  /\ \/ application[req[h].who] = "none" /\ Continue(h, [req[h] EXCEPT !.op = "ap_new"])
     \/ application[req[h].who] = "rejected" /\ Continue(h, [req[h] EXCEPT !.op = "ap_again"])
  /\ UNCHANGED <<status, rows, application>>

\* The table has one row per role and worker: a second create fails.
ApplyWrite(h) ==
  /\ \/ req[h].op = "ap_new" /\ application[req[h].who] = "none"
     \/ req[h].op = "ap_again"
  /\ application' = [application EXCEPT ![req[h].who] = "pending"]
  /\ Return(h)
  /\ UNCHANGED <<status, rows>>

-----------------------------------------------------------------------------
(* reviewApplication *)

ReviewReadTask(h, w) ==
  /\ application[w] # "none"
  /\ Begin(h, [Idle EXCEPT !.op = "rv_task", !.who = w, !.seen = status])
  /\ UNCHANGED <<status, rows, application>>

ReviewReadApplication(h) ==
  /\ req[h].op = "rv_task"
  /\ application[req[h].who] = "pending"
  /\ Continue(h, [req[h] EXCEPT !.op = "rv_app"])
  /\ UNCHANGED <<status, rows, application>>

ReviewDecline(h) ==
  /\ req[h].op = "rv_app"
  /\ application' = [application EXCEPT ![req[h].who] = "rejected"]
  /\ Return(h)
  /\ UNCHANGED <<status, rows>>

ReviewCount(h) ==
  /\ req[h].op = "rv_app"
  /\ Cardinality(Active) < Headcount
  /\ Continue(h, [req[h] EXCEPT !.op = "rv_counted", !.slot = Cardinality(Active) + 1])
  /\ UNCHANGED <<status, rows, application>>

\* One transaction; the task status it goes by was read before.
ReviewCommit(h) ==
  /\ req[h].op = "rv_counted"
  /\ ~SlotTaken(req[h].slot)
  /\ application' = [application EXCEPT ![req[h].who] = "approved"]
  /\ rows' = Append(rows, [worker |-> req[h].who, slot |-> req[h].slot,
                           invited |-> FALSE, overdue |-> FALSE, state |-> "accepted"])
  /\ status' = IF req[h].seen = "published" THEN "in_progress" ELSE status
  /\ Return(h)

-----------------------------------------------------------------------------
(* The task and its rows, written from elsewhere *)

CancelRead(h) ==
  /\ status = "published"
  /\ Begin(h, [Idle EXCEPT !.op = "cn_read"])
  /\ UNCHANGED <<status, rows, application>>

CancelWrite(h) ==
  /\ req[h].op = "cn_read"
  /\ status' = "cancelled"
  /\ Return(h)
  /\ UNCHANGED <<rows, application>>

ApproveTaskRead(h) ==
  /\ status = "published"
  /\ Begin(h, [Idle EXCEPT !.op = "at_read"])
  /\ UNCHANGED <<status, rows, application>>

ApproveTaskWrite(h) ==
  /\ req[h].op = "at_read"
  /\ status' = "in_progress"
  /\ Return(h)
  /\ UNCHANGED <<rows, application>>

\* reviewDeliverable completes an accepted row once a deliverable is approved.
CompleteRead(h, i) ==
  /\ rows[i].state = "accepted"
  /\ Begin(h, [Idle EXCEPT !.op = "cp_read", !.on = i])
  /\ UNCHANGED <<status, rows, application>>

CompleteWrite(h) ==
  /\ req[h].op = "cp_read"
  /\ SetState(req[h].on, "completed")
  /\ Return(h)
  /\ UNCHANGED <<status, application>>

-----------------------------------------------------------------------------
\* Every early return and every exception of the handlers above.
Refuse(h) ==
  /\ \/ /\ req[h].op = "iv_checked"
        /\ \/ Cardinality(Active) >= Headcount
           \/ \E i \in Active : rows[i].worker = req[h].who
     \/ req[h].op \in {"iv_counted", "rv_counted"} /\ SlotTaken(req[h].slot)
     \/ req[h].op = "ap_checked" /\ application[req[h].who] \in {"pending", "approved"}
     \/ req[h].op = "ap_new" /\ application[req[h].who] # "none"
     \/ req[h].op = "rv_task" /\ application[req[h].who] # "pending"
     \/ req[h].op = "rv_app" /\ Cardinality(Active) >= Headcount
  /\ Return(h)
  /\ UNCHANGED <<status, rows, application>>

\* The process restarts: the continuations are gone.
Restart ==
  /\ faults < MaxFaults
  /\ faults' = faults + 1
  /\ req' = [h \in Handlers |-> Idle]
  /\ UNCHANGED <<status, rows, application, calls>>

Handle(h) ==
  \/ InviteCount(h) \/ InviteCreate(h)
  \/ AcceptExpire(h) \/ AcceptWrite(h) \/ AcceptReadTask(h) \/ AcceptStart(h)
  \/ RejectWrite(h)
  \/ ApplyLookup(h) \/ ApplyWrite(h)
  \/ ReviewReadApplication(h) \/ ReviewDecline(h) \/ ReviewCount(h) \/ ReviewCommit(h)
  \/ CancelWrite(h) \/ ApproveTaskWrite(h) \/ CompleteWrite(h)
  \/ Refuse(h)

Next ==
  \/ \E h \in Handlers :
       \/ \E w \in Workers : InviteCheck(h, w) \/ ApplyCheck(h, w) \/ ReviewReadTask(h, w)
       \/ \E i \in DOMAIN rows : AcceptRead(h, i) \/ RejectRead(h, i) \/ CompleteRead(h, i)
       \/ CancelRead(h)
       \/ ApproveTaskRead(h)
       \/ Handle(h)
  \/ \E i \in DOMAIN rows : Lapse(i)
  \/ Restart

Spec == Init /\ [][Next]_vars

\* The event loop runs every continuation that is ready, and time passes.
\* Nothing makes companies and workers call.
Fairness ==
  /\ \A h \in Handlers : WF_vars(Handle(h))
  /\ WF_vars(\E i \in DOMAIN rows : Lapse(i))

FairSpec == Spec /\ Fairness

-----------------------------------------------------------------------------
(* Properties *)

\* The values every variable ranges over; a handler works on rows that exist.
TypeOK ==
  /\ status \in {"published", "in_progress", "cancelled"}
  /\ rows \in Seq(Row)
  /\ application \in [Workers -> {"none", "pending", "approved", "rejected"}]
  /\ req \in [Handlers -> Request]
  /\ \A h \in Handlers : req[h].op \in RowOps => req[h].on \in DOMAIN rows
  /\ calls \in Nat /\ faults \in Nat

\* However invitations and approvals that count the same rows interleave, a role
\* never gets more people than its headcount: those who are invited, at work or
\* done.  The count is stale when the row is made; the unique index catches it.
NeverOverstaffed ==
  Cardinality({i \in DOMAIN rows : rows[i].state \in {"invited", "accepted", "completed"}})
    <= Headcount

\* The slots in use are 1, 2, ... without a gap, in the order the rows were made.
SlotsInOrder == \A i \in DOMAIN rows : rows[i].slot = i

\* An invitation never goes to a worker who already has a row for the role, also
\* when two clients invite the same worker at the same time.
NoSecondInvitation ==
  \A i, j \in DOMAIN rows :
    i < j /\ rows[j].invited => rows[i].worker # rows[j].worker

\* If the process is not restarted, a worker who accepts gets the task going: it
\* does not stay in recruitment (unless a cancellation comes in).
AcceptedStartsTask ==
  (\E i \in DOMAIN rows : rows[i].state = "accepted") ~> status # "published" \/ faults > 0

=============================================================================
