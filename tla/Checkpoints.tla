------------------------------- MODULE Checkpoints -------------------------------
(***************************************************************************)
(* The checkpoints of a task (checkpoint.service.ts), which the worker         *)
(* submits and the reviewer passes or rejects, and the nightly job that marks *)
(* those nobody submitted in time (checkpoint-overdue.cron.ts).              *)
(***************************************************************************)
EXTENDS Integers, FiniteSets

CONSTANTS
  Rows,          \* checkpoints that can be created
  MaxPerTask,    \* MAX_PER_TASK, 20 in the code
  MaxRevisions,  \* MAX_REVISIONS, 3 in the code
  MaxCalls,      \* bound: calls of the handlers
  MaxOpen        \* bound: calls under way

VARIABLES
  status,     \* of each checkpoint; none before it is created, gone when deleted
  revisions,  \* revisionCount
  late,       \* checkpoints whose planned date is past
  run,        \* calls under way, after their reads
  job,        \* checkpoints the job has found and not yet marked
  submits, verdicts,  \* history: how often each was submitted and reviewed
  raced,      \* history: checkpoints on which two calls overlapped, and "new" for creations
  calls

vars == <<status, revisions, late, run, job, submits, verdicts, raced, calls>>

Status == {"none", "pending", "submitted", "passed", "rejected", "overdue", "gone"}
There == {c \in Rows : status[c] \notin {"none", "gone"}}

\* ids that were never used; which of them comes next makes no difference
Unused == {c \in Rows : status[c] = "none"}
NextId == CHOOSE c \in Unused : TRUE

Call == [n: Nat, op: {"create", "submit", "again", "passed", "rejected", "delete"},
         on: Rows \cup {"new"}]

Init ==
  /\ status = [c \in Rows |-> "none"] /\ revisions = [c \in Rows |-> 0] /\ late = {}
  /\ run = {} /\ job = {} /\ calls = 0
  /\ submits = [c \in Rows |-> 0] /\ verdicts = [c \in Rows |-> 0] /\ raced = {}

Begin(op, c) ==
  /\ calls < MaxCalls /\ Cardinality(run) < MaxOpen /\ calls' = calls + 1
  /\ run' = run \cup {[n |-> calls, op |-> op, on |-> c]}
  /\ raced' = IF c \in job \/ \E h \in run : h.on = c THEN raced \cup {c} ELSE raced
  /\ UNCHANGED <<status, revisions, late, job, submits, verdicts>>

-----------------------------------------------------------------------------
CreateRead == Cardinality(There) < MaxPerTask /\ Begin("create", "new")

CreateWrite(h, c) ==
  /\ h \in run /\ h.op = "create" /\ c \in Unused /\ c = NextId
  /\ status' = [status EXCEPT ![c] = "pending"]
  /\ run' = run \ {h}
  /\ UNCHANGED <<revisions, late, job, submits, verdicts, raced, calls>>

\* A rejected checkpoint may be submitted again MaxRevisions times.
SubmitRead(c) ==
  \/ status[c] = "pending" /\ Begin("submit", c)
  \/ status[c] = "rejected" /\ revisions[c] < MaxRevisions /\ Begin("again", c)

ReviewRead(c, verdict) == status[c] = "submitted" /\ Begin(verdict, c)
DeleteRead(c) == status[c] = "pending" /\ Begin("delete", c)

\* submit, review and delete write by id; a row that is gone makes them fail.
Write(h) ==
  /\ h \in run /\ h.op # "create"
  /\ run' = run \ {h}
  /\ LET c == h.on
         to == CASE h.op \in {"submit", "again"} -> "submitted"
                 [] h.op = "delete" -> "gone"
                 [] OTHER -> h.op
     IN IF status[c] = "gone" THEN UNCHANGED <<status, revisions, submits, verdicts>>
        ELSE /\ status' = [status EXCEPT ![c] = to]
             /\ revisions' = [revisions EXCEPT ![c] = IF h.op = "again" THEN @ + 1 ELSE @]
             /\ submits' = [submits EXCEPT ![c] = IF to = "submitted" THEN @ + 1 ELSE @]
             /\ verdicts' = [verdicts EXCEPT ![c] = IF to = h.op THEN @ + 1 ELSE @]
  /\ UNCHANGED <<late, job, raced, calls>>

\* The planned date passes.
Pass(c) ==
  /\ c \in There \ late /\ late' = late \cup {c}
  /\ UNCHANGED <<status, revisions, run, job, submits, verdicts, raced, calls>>

\* runOnce of the job: it looks for pending checkpoints past their date, ...
JobRead ==
  /\ job = {}
  /\ job' = {c \in late : status[c] = "pending"}
  /\ raced' = raced \cup {c \in job' : \E h \in run : h.on = c}
  /\ UNCHANGED <<status, revisions, late, run, submits, verdicts, calls>>

\* ... and marks them one by one, by id.  One that is gone ends the loop.
JobMark(c) ==
  /\ c \in job
  /\ IF status[c] = "gone" THEN job' = {} /\ UNCHANGED status
     ELSE job' = job \ {c} /\ status' = [status EXCEPT ![c] = "overdue"]
  /\ UNCHANGED <<revisions, late, run, submits, verdicts, raced, calls>>

Next ==
  \/ CreateRead \/ JobRead
  \/ \E c \in Rows : \/ SubmitRead(c) \/ DeleteRead(c) \/ Pass(c) \/ JobMark(c)
                     \/ \E verdict \in {"passed", "rejected"} : ReviewRead(c, verdict)
                     \/ \E h \in run : CreateWrite(h, c)
  \/ \E h \in run : Write(h)

Spec == Init /\ [][Next]_vars

-----------------------------------------------------------------------------
(* Properties *)

TypeOK ==
  /\ status \in [Rows -> Status] /\ revisions \in [Rows -> Nat] /\ late \subseteq Rows
  /\ run \subseteq Call /\ job \subseteq Rows
  /\ submits \in [Rows -> Nat] /\ verdicts \in [Rows -> Nat]
  /\ raced \subseteq Rows \cup {"new"} /\ calls \in 0..MaxCalls

\* Submitting and reviewing take turns and end: each verdict is about a submission of its
\* own, nothing submitted is called overdue or deleted, and a worker gets no more than the
\* first attempt and MaxRevisions others; unless calls, or a call and the job, overlapped
\* on the checkpoint.
RoundsUnlessRaced ==
  \A c \in Rows \ raced :
    /\ verdicts[c] = submits[c] - (IF status[c] = "submitted" THEN 1 ELSE 0)
    /\ submits[c] <= MaxRevisions + 1
    /\ status[c] \in {"none", "pending", "overdue", "gone"} <=> submits[c] = 0
=============================================================================
