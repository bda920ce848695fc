-------------------------------- MODULE Issues --------------------------------
(***************************************************************************)
(* Problems a worker reports (issue.service.ts) and the job that marks those  *)
(* nobody has answered within a day and tells the author of the task          *)
(* (sla-monitor.cron.ts).                                                   *)
(***************************************************************************)
EXTENDS Integers, FiniteSets

CONSTANTS
  Reports,    \* issues that can be created
  MaxCalls,   \* bound: calls of update
  MaxFaults   \* bound: restarts

VARIABLES
  issue,   \* rows: status, firstResponseAt, slaBreached, and whether the day is over
  told,    \* the notices of a breach, of each issue
  job,     \* the issues the job has found and not marked yet, ...
  notice,  \* ... and those it has marked and not told of
  run,     \* calls under way: the status they write, and whether they have seen an answer
  raced,   \* history: issues with two calls at once, or with one beside the job
  cut,     \* history: issues the job marked before a restart
  calls, faults

sla == <<issue, told>>
jobVars == <<job, notice>>
vars == <<sla, jobVars, run, raced, cut, calls, faults>>

Status == {"open", "in_progress", "resolved", "closed"}
Row == [status: Status \cup {"none"}, first: {"none", "day", "late"}, breached: BOOLEAN,
        late: BOOLEAN]
Call == [n: Nat, on: Reports, to: Status, seen: BOOLEAN]

Init ==
  /\ issue = [i \in Reports |->
                [status |-> "none", first |-> "none", breached |-> FALSE, late |-> FALSE]]
  /\ told = [i \in Reports |-> 0]
  /\ job = {} /\ notice = {}
  /\ run = {} /\ raced = {} /\ cut = {} /\ calls = 0 /\ faults = 0

There == {i \in Reports : issue[i].status # "none"}
On(i) == {c \in run : c.on = i}

-----------------------------------------------------------------------------
(* Faulty variants of operators below; not part of the specification.        *)

\* the job looks at the date alone
UnansweredByDate(i) == i \in There /\ issue[i].late /\ ~issue[i].breached

-----------------------------------------------------------------------------
\* What the job looks for.
Unanswered(i) ==
  /\ issue[i].status = "open" /\ issue[i].first = "none"
  /\ issue[i].late /\ ~issue[i].breached

Create(i) ==
  /\ issue[i].status = "none" /\ issue' = [issue EXCEPT ![i].status = "open"]
  /\ UNCHANGED <<told, jobVars, run, raced, cut, calls, faults>>

\* The day after the report is over.
Pass(i) ==
  /\ i \in There /\ ~issue[i].late /\ issue' = [issue EXCEPT ![i].late = TRUE]
  /\ UNCHANGED <<told, jobVars, run, raced, cut, calls, faults>>

\* update reads the row and takes any status, ...
UpdateRead(i, to) ==
  /\ i \in There
  /\ calls < MaxCalls /\ calls' = calls + 1
  /\ run' = run \cup {[n |-> calls, on |-> i, to |-> to, seen |-> issue[i].first # "none"]}
  /\ raced' = IF On(i) # {} \/ i \in job THEN raced \cup {i} ELSE raced
  /\ UNCHANGED <<sla, jobVars, cut, faults>>

\* ... and writes it by id.  Only in_progress counts as an answer.
UpdateWrite(c) ==
  /\ c \in run /\ run' = run \ {c}
  /\ issue' = [issue EXCEPT
       ![c.on].status = c.to,
       ![c.on].first = IF c.to = "in_progress" /\ ~c.seen
                       THEN IF issue[c.on].late THEN "late" ELSE "day" ELSE @]
  /\ UNCHANGED <<told, jobVars, raced, cut, calls, faults>>

\* runOnce, every 15 minutes: it finds the issues, marks one by id, and tells of it.
JobRead ==
  /\ job = {} /\ notice = {}
  /\ job' = {i \in Reports : Unanswered(i)}
  /\ raced' = raced \cup {i \in job' : On(i) # {}}
  /\ UNCHANGED <<sla, notice, run, cut, calls, faults>>

JobMark(i) ==
  /\ i \in job /\ notice = {}
  /\ issue' = [issue EXCEPT ![i].breached = TRUE]
  /\ job' = job \ {i} /\ notice' = {i}
  /\ UNCHANGED <<told, run, raced, cut, calls, faults>>

JobTell(i) ==
  /\ i \in notice /\ notice' = {}
  /\ told' = [told EXCEPT ![i] = @ + 1]
  /\ UNCHANGED <<issue, job, run, raced, cut, calls, faults>>

Restart ==
  /\ faults < MaxFaults /\ faults' = faults + 1
  /\ run' = {} /\ job' = {} /\ notice' = {} /\ cut' = cut \cup notice
  /\ UNCHANGED <<sla, raced, calls>>

Job == JobRead \/ \E i \in Reports : JobMark(i) \/ JobTell(i)

Next ==
  \/ \E i \in Reports : Create(i) \/ Pass(i) \/ \E to \in Status : UpdateRead(i, to)
  \/ \E c \in run : UpdateWrite(c)
  \/ Job \/ Restart

Spec == Init /\ [][Next]_vars
FairSpec == Spec /\ WF_vars(Job)

-----------------------------------------------------------------------------
(* Properties *)

TypeOK ==
  /\ issue \in [Reports -> Row] /\ told \in [Reports -> Nat]
  /\ job \subseteq Reports /\ notice \subseteq Reports
  /\ run \subseteq Call /\ raced \subseteq Reports /\ cut \subseteq Reports
  /\ calls \in 0..MaxCalls /\ faults \in 0..MaxFaults

\* An issue that was answered within the day is not marked, and of one that is the author of
\* the task is told once, unless a call overlapped with the job or another call on it, or
\* the job stopped between the two.
MarkedUnlessRaced ==
  \A i \in Reports :
    /\ issue[i].breached /\ issue[i].first = "day" => i \in raced
    /\ told[i] = IF issue[i].breached /\ i \notin notice \cup cut THEN 1 ELSE 0

\* An issue nobody has answered within the day is marked in the end, or answered.
LateIsMarked == \A i \in Reports : (i \in There /\ Unanswered(i)) ~> ~Unanswered(i)
=============================================================================
