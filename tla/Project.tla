--------------------------------- MODULE Project ---------------------------------
(***************************************************************************)
(* A project (project.service.ts): its phase, which people set and which      *)
(* follows its tasks, its milestones and the tasks tied to them, and the      *)
(* nightly job on the milestones of a project with a manager                 *)
(* (milestone-remind.cron.ts).                                              *)
(***************************************************************************)
EXTENDS Integers, FiniteSets

CONSTANTS
  Milestones,     \* milestones that can be created
  Tasks,          \* tasks of the company
  None,           \* no milestone
  MaxMilestones,  \* milestones of a project (10 in the code)
  MaxCalls,       \* bound: calls of the handlers
  MaxOpen         \* bound: calls under way

VARIABLES
  project,    \* its status and phase; gone when it is deleted
  milestone,  \* the status of each; none before it is created and after it is deleted
  task,       \* status of each task, whether it is in the project, its milestone
  past,       \* milestones whose planned date is past
  run,        \* calls under way, after their reads
  loose,      \* history: tasks saved as a draft that named a milestone
  job,        \* milestones the job has found and not yet marked
  done,       \* history: milestones that were completed
  raced,      \* history: milestones on which calls overlapped; "new", "phase" likewise
  calls

vars == <<project, milestone, task, past, run, job, done, loose, raced, calls>>

Phases == {"requirement", "execution", "acceptance"}
Rank == [requirement |-> 0, execution |-> 1, acceptance |-> 2]
ProjectStatus == {"planning", "active", "archived", "gone"}
TaskStatus == {"none", "draft", "published", "in_progress", "completed"}
Task == [status: TaskStatus, in: BOOLEAN, of: Milestones \cup {None}]
There == {m \in Milestones : milestone[m] # "none"}

\* ids that were never used; which of them comes next makes no difference
Unused == (Milestones \ There) \ (done \cup past)
NextId == CHOOSE m \in Unused : TRUE

\* on: the milestone, "new" or "phase"; tasks: what is to be tied; to: a phase.
Call == [n: Nat, op: {"status", "accepted", "sync", "create", "link", "rebind", "complete",
                       "drop", "delete"},
         on: Milestones \cup {"new", "phase"}, tasks: SUBSET Tasks, to: Phases \cup ProjectStatus \cup {"none"}]

Init ==
  /\ project = [status |-> "planning", phase |-> "requirement"]
  /\ milestone = [m \in Milestones |-> "none"]
  /\ task = [t \in Tasks |-> [status |-> "none", in |-> FALSE, of |-> None]]
  /\ past = {} /\ run = {} /\ job = {} /\ done = {} /\ calls = 0
  /\ loose = {} /\ raced = {}

rows == <<project, milestone, task, past, job, done, loose>>
Exists == project.status # "gone"

Begin(op, on, tasks, to) ==
  /\ Exists
  /\ calls < MaxCalls /\ Cardinality(run) < MaxOpen /\ calls' = calls + 1
  /\ run' = run \cup {[n |-> calls, op |-> op, on |-> on, tasks |-> tasks, to |-> to]}
  /\ raced' = IF on \in job \/ \E h \in run : h.on = on THEN raced \cup {on} ELSE raced

\* what the tasks of the project say of its phase
Target ==
  LET mine == {t \in Tasks : task[t].in}
  IN IF mine = {} THEN project.phase
     ELSE IF \A t \in mine : task[t].status = "completed" THEN "acceptance"
     ELSE IF \E t \in mine : task[t].status = "in_progress" THEN "execution"
     ELSE project.phase

-----------------------------------------------------------------------------
(* Faulty variants of operators below; not part of the specification.        *)

\* updateProjectStatus and syncPhaseFromTasks with the status and the phase in one column
SetWritePhase(h) ==
  /\ h \in run /\ h.op \in {"status", "sync"}
  /\ run' = run \ {h}
  /\ project' = IF Exists THEN [project EXCEPT !.phase = h.to] ELSE project
  /\ UNCHANGED <<milestone, task, past, job, done, loose, raced, calls>>

\* tasks tied to a milestone without a look at their project
TieOnly(tasks, m) ==
  [t \in Tasks |-> IF t \in tasks THEN [task[t] EXCEPT !.of = m]
                   ELSE IF task[t].of = m THEN [task[t] EXCEPT !.of = None] ELSE task[t]]

-----------------------------------------------------------------------------
(* Status and phase *)

\* updateProjectStatus: any status, any phase.
StatusRead(to) == Begin("status", "phase", {}, to) /\ UNCHANGED rows

\* The first worker accepts an invitation to the task (acceptInvite): it goes from published
\* to in_progress, and the handler goes on to syncPhaseFromTasks, ...
Accept(t) ==
  /\ task[t].status = "published" /\ calls < MaxCalls /\ Cardinality(run) < MaxOpen
  /\ task' = [task EXCEPT ![t].status = "in_progress"]
  /\ IF task[t].in
     THEN /\ calls' = calls + 1
          /\ run' = run \cup {[n |-> calls, op |-> "accepted", on |-> "phase", tasks |-> {},
                              to |-> "none"]}
          /\ raced' = IF \E h \in run : h.on = "phase" THEN raced \cup {"phase"} ELSE raced
     ELSE UNCHANGED <<calls, run, raced>>
  /\ UNCHANGED <<project, milestone, past, job, done, loose>>

\* ... which looks at the phase and at the tasks (two reads, one here), and moves the
\* phase only forward.
SyncRead(h) ==
  /\ h \in run /\ h.op = "accepted"
  /\ run' = (run \ {h}) \cup
       (IF Exists /\ Rank[project.phase] < Rank[Target]
        THEN {[h EXCEPT !.op = "sync", !.to = Target]} ELSE {})
  /\ UNCHANGED rows /\ UNCHANGED <<raced, calls>>

SetWrite(h) ==
  /\ h \in run /\ h.op \in {"status", "sync"}
  /\ run' = run \ {h}
  /\ project' = IF ~Exists THEN project
                ELSE IF h.to \in Phases THEN [project EXCEPT !.phase = h.to]
                ELSE [project EXCEPT !.status = h.to]
  /\ UNCHANGED <<milestone, task, past, job, done, loose, raced, calls>>

\* The task is published, or its work is approved.
TaskGoesOn(t) ==
  /\ task[t].status \in {"draft", "in_progress"}
  /\ task' = [task EXCEPT ![t].status = IF @ = "draft" THEN "published" ELSE "completed"]
  /\ UNCHANGED <<project, milestone, past, run, job, done, loose, raced, calls>>

-----------------------------------------------------------------------------
(* Milestones *)

\* The tasks that are to be a milestone's, and those that were.
Tie(tasks, m) ==
  [t \in Tasks |-> IF t \in tasks THEN [task[t] EXCEPT !.in = TRUE, !.of = m]
                   ELSE IF task[t].of = m THEN [task[t] EXCEPT !.of = None] ELSE task[t]]

CreateRead(tasks) ==
  Cardinality(There) < MaxMilestones /\ Begin("create", "new", tasks, "none") /\ UNCHANGED rows

\* The row is refused when the project is gone; the tasks are tied in a later statement.
CreateWrite(h, m) ==
  /\ h \in run /\ h.op = "create" /\ m \in Unused /\ m = NextId
  /\ IF ~Exists THEN run' = run \ {h} /\ UNCHANGED milestone
     ELSE /\ milestone' = [milestone EXCEPT ![m] = "pending"]
          /\ run' = (run \ {h}) \cup
               (IF h.tasks = {} THEN {} ELSE {[h EXCEPT !.op = "link", !.on = m]})
  /\ UNCHANGED <<project, task, past, job, done, loose, raced, calls>>

\* A milestone that is gone by then fails the foreign key.
LinkWrite(h) ==
  /\ h \in run /\ h.op = "link" /\ run' = run \ {h}
  /\ task' = IF h.on \notin There THEN task
             ELSE [t \in Tasks |-> IF t \in h.tasks THEN [task[t] EXCEPT !.in = TRUE, !.of = h.on]
                                   ELSE task[t]]
  /\ UNCHANGED <<project, milestone, past, job, done, loose, raced, calls>>

\* createTask of task.service.ts: project and milestone are taken as they come.
CreateTask(t, in, m) ==
  /\ task[t].status = "none" /\ m \in There \cup {None} /\ (in => Exists)
  /\ task' = [task EXCEPT ![t] = [status |-> "draft", in |-> in, of |-> m]]
  /\ loose' = loose \cup {u \in {t} : m # None}
  /\ UNCHANGED <<project, milestone, past, run, job, done, raced, calls>>

\* updateDraft: the milestone may change or be cleared, and the project of the task stays
\* what it was.
SaveDraft(t, m) ==
  /\ task[t].status = "draft" /\ m \in There \cup {None}
  /\ task' = [task EXCEPT ![t].of = m]
  /\ loose' = loose \cup {u \in {t} : m # None}
  /\ UNCHANGED <<project, milestone, past, run, job, done, raced, calls>>

\* updateMilestone with a list of tasks
RebindRead(m, tasks) == m \in There /\ Begin("rebind", m, tasks, "none") /\ UNCHANGED rows

RebindWrite(h) ==
  /\ h \in run /\ h.op = "rebind" /\ run' = run \ {h}
  /\ task' = IF h.on \in There THEN Tie(h.tasks, h.on) ELSE task
  /\ UNCHANGED <<project, milestone, past, job, done, loose, raced, calls>>

CompleteRead(m) ==
  m \in There /\ milestone[m] # "completed" /\ Begin("complete", m, {}, "none") /\ UNCHANGED rows

CompleteWrite(h) ==
  /\ h \in run /\ h.op = "complete" /\ run' = run \ {h}
  /\ IF h.on \in There
     THEN milestone' = [milestone EXCEPT ![h.on] = "completed"] /\ done' = done \cup {h.on}
     ELSE UNCHANGED <<milestone, done>>
  /\ UNCHANGED <<project, task, past, job, loose, raced, calls>>

\* deleteMilestone: only pending ones, in one transaction with their ties.
DropRead(m) == milestone[m] = "pending" /\ Begin("drop", m, {}, "none") /\ UNCHANGED rows

DropWrite(h) ==
  /\ h \in run /\ h.op = "drop" /\ run' = run \ {h}
  /\ milestone' = [milestone EXCEPT ![h.on] = "none"]
  /\ task' = IF h.on \in There THEN Tie({}, h.on) ELSE task
  /\ UNCHANGED <<project, past, job, done, loose, raced, calls>>

\* deleteProject: in one transaction it takes its tasks out, with their milestones, and
\* deletes its milestones and itself.  The key of a task from outside that is tied to one
\* of them is set to null by the database.
DeleteRead ==
  /\ project.status \in {"planning", "archived"}
  /\ Begin("delete", "phase", {}, "none") /\ UNCHANGED rows

DeleteWrite(h) ==
  /\ h \in run /\ h.op = "delete" /\ run' = run \ {h}
  /\ IF Exists
     THEN /\ project' = [project EXCEPT !.status = "gone"]
          /\ milestone' = [m \in Milestones |-> "none"]
          /\ task' = [t \in Tasks |-> [task[t] EXCEPT !.in = FALSE, !.of = None]]
     ELSE UNCHANGED <<project, milestone, task>>
  /\ UNCHANGED <<past, job, done, loose, raced, calls>>

\* The planned date passes.
Pass(m) ==
  /\ m \in There \ past /\ past' = past \cup {m}
  /\ UNCHANGED <<project, milestone, task, run, job, done, loose, raced, calls>>

\* runOnce of the job: it looks for pending milestones past their date and marks them one
\* by one, by id.  One that is gone ends the loop.
JobRead ==
  /\ job = {}
  /\ job' = {m \in past : milestone[m] = "pending"}
  /\ raced' = raced \cup {m \in job' : \E h \in run : h.on = m}
  /\ UNCHANGED <<project, milestone, task, past, run, done, loose, calls>>

JobMark(m) ==
  /\ m \in job
  /\ IF m \in There THEN job' = job \ {m} /\ milestone' = [milestone EXCEPT ![m] = "overdue"]
     ELSE job' = {} /\ UNCHANGED milestone
  /\ UNCHANGED <<project, task, past, run, done, loose, raced, calls>>

Next ==
  \/ \E to \in Phases \cup (ProjectStatus \ {"gone"}) : StatusRead(to)
  \/ \E t \in Tasks : Accept(t) \/ TaskGoesOn(t) \/ \E m \in Milestones \cup {None} : SaveDraft(t, m)
  \/ \E t \in Tasks, in \in BOOLEAN, m \in Milestones \cup {None} : CreateTask(t, in, m)
  \/ \E tasks \in SUBSET {t \in Tasks : task[t].status # "none"} :
       CreateRead(tasks) \/ \E m \in Milestones : RebindRead(m, tasks)
  \/ \E m \in Milestones : CompleteRead(m) \/ DropRead(m) \/ Pass(m) \/ JobMark(m)
  \/ \E h \in run : \/ SyncRead(h) \/ SetWrite(h) \/ LinkWrite(h) \/ RebindWrite(h) \/ CompleteWrite(h)
                    \/ DropWrite(h) \/ DeleteWrite(h) \/ \E m \in Milestones : CreateWrite(h, m)
  \/ DeleteRead \/ JobRead

Spec == Init /\ [][Next]_vars

-----------------------------------------------------------------------------
(* Properties *)

TypeOK ==
  /\ project \in [status: ProjectStatus, phase: Phases]
  /\ milestone \in [Milestones -> {"none", "pending", "completed", "overdue"}]
  /\ task \in [Tasks -> Task]
  /\ past \subseteq Milestones /\ job \subseteq Milestones /\ done \subseteq Milestones
  /\ run \subseteq Call /\ loose \subseteq Tasks
  /\ raced \subseteq Milestones \cup {"new", "phase"} /\ calls \in 0..MaxCalls

\* A task tied to a milestone is in its project, whatever creating, rebinding and deleting
\* overlap; unless the task was saved as a draft that names a milestone, which may be one
\* of a project it is not in.
TiedInProjectUnlessDrafted ==
  \A t \in Tasks \ loose : task[t].of # None => task[t].of \in There /\ task[t].in

\* A completed milestone stays completed, unless calls, or a call and the job, overlapped
\* on it or the project was deleted.
CompletedStaysUnlessRaced ==
  \A m \in done \ raced : Exists => milestone[m] = "completed"

\* The comment on syncPhaseFromTasks: it never goes back, and a later phase that people
\* have set is not overwritten.
SyncGoesForward ==
  \A h \in run : h.op = "sync" /\ SetWrite(h) => Rank[project'.phase] >= Rank[project.phase]
=============================================================================
