--------------------------------- MODULE Watch ---------------------------------
(***************************************************************************)
(* The jobs that look after tasks nobody works on (risk-level.cron.ts,         *)
(* daily-missing.cron.ts) and the one that keeps the notices they write from  *)
(* piling up (notification-cleanup.cron.ts).                                *)
(***************************************************************************)
EXTENDS Integers, FiniteSets

CONSTANTS
  Items,       \* tasks in progress with an end date; of projects the job does the same
  EndDay,      \* the day of that date
  Horizon,     \* bound: the last day
  MaxUnread,   \* MAX_UNREAD, 999 in the code
  KeepDays,    \* days a notice is kept, 90 in the code
  MaxCalls,    \* bound: reports
  MaxFaults    \* bound: restarts

VARIABLES
  day,        \* today
  due,        \* the daily jobs that have not started today
  progress, reported,   \* of each item, and the day of the last report
  closed,     \* items no longer in progress
  level,      \* riskLevel
  said,       \* history: the level the last alert of an item told of
  reminded,   \* history: the day of the last notice that nobody reports
  inbox,      \* notices of the author: when they were created, and whether they are unread
  sent,       \* history: notices so far; they are numbered
  tied,       \* history: notices with the same time of creation as another
  trimmed,    \* history: notices the job has deleted to get down to MaxUnread
  job,        \* what the jobs have found and not dealt with yet
  calls, faults

watch == <<day, due, progress, reported, closed, level, said, reminded, inbox, sent, tied,
           trimmed>>
tasks == <<day, progress, reported, closed>>
notices == <<inbox, sent, tied, trimmed>>
vars == <<watch, job, calls, faults>>

Levels == {"green", "yellow", "red"}
Percent == {0, 75, 100}    \* little (below both thresholds), between them, and done
Never == -3                \* no report; as good as one three days before the first
Found == [kind: {"risk", "quiet", "trim"}, on: Items \cup {"inbox"}, to: Levels \cup {"none"},
          at: {"look", "write", "tell"}, upto: Nat]

Init ==
  /\ day = 0 /\ due = {"missing", "cleanup"}
  /\ progress = [i \in Items |-> 0] /\ reported = [i \in Items |-> Never] /\ closed = {}
  /\ level = [i \in Items |-> "green"] /\ said = [i \in Items |-> "green"]
  /\ reminded = [i \in Items |-> Never]
  /\ inbox = {} /\ sent = 0 /\ tied = {} /\ trimmed = {}
  /\ job = {} /\ calls = 0 /\ faults = 0

Of(kind) == {j \in job : j.kind = kind}
Goes(j, to) == job' = (job \ {j}) \cup {to}
Latest == IF inbox = {} THEN 0 ELSE CHOOSE t \in {n.at : n \in inbox} : \A m \in inbox : m.at <= t
Unread == {m \in inbox : m.unread}

-----------------------------------------------------------------------------
\* computeLevel
ComputeLevel(left, p) ==
  IF left <= 2 /\ p < 80 THEN "red" ELSE IF left <= 5 /\ p < 70 THEN "yellow" ELSE "green"

LevelOf(i) == ComputeLevel(EndDay - day, progress[i])
Quiet(i) == i \notin closed /\ progress[i] < 100 /\ reported[i] <= day - 3

\* A day ends when its jobs are over.
Clock ==
  /\ day < Horizon /\ due = {} /\ job = {}
  /\ day' = day + 1 /\ due' = {"missing", "cleanup"}
  /\ UNCHANGED <<progress, reported, closed, level, said, reminded, notices, job, calls, faults>>

\* updateProgress wants more than the progress it has read and then writes by id: of two
\* calls that overlap the smaller value may be written last, so it may be any.
Report(i, p) ==
  /\ i \notin closed /\ calls < MaxCalls /\ calls' = calls + 1
  /\ progress' = [progress EXCEPT ![i] = p] /\ reported' = [reported EXCEPT ![i] = day]
  /\ UNCHANGED <<day, due, closed, level, said, reminded, notices, job, faults>>

Close(i) ==
  /\ i \notin closed /\ closed' = closed \cup {i}
  /\ UNCHANGED <<day, due, progress, reported, level, said, reminded, notices, job, calls, faults>>

\* The author reads the notices, as markRead with all does.
ReadAll ==
  /\ Unread # {} /\ calls < MaxCalls /\ calls' = calls + 1
  /\ inbox' = {[m EXCEPT !.unread = FALSE] : m \in inbox}
  /\ UNCHANGED <<tasks, due, level, said, reminded, sent, tied, trimmed, job, faults>>

\* notify.create; two notices may get the same time.
Tell ==
  \E t \in {Latest, Latest + 1} :
    /\ t > 0 /\ sent' = sent + 1
    /\ inbox' = inbox \cup {[n |-> sent', at |-> t, day |-> day, unread |-> TRUE]}
    /\ tied' = tied \cup {m.n : m \in {k \in inbox' : k.at = t /\ k.n # sent'}}
                    \cup (IF \E k \in inbox : k.at = t THEN {sent'} ELSE {})

-----------------------------------------------------------------------------
(* Every hour: the level of each item. *)

RiskRead ==
  /\ Of("risk") = {}
  /\ LET changed == {i \in Items \ closed : LevelOf(i) # level[i]}
     IN /\ changed # {}
        /\ job' = job \cup {[kind |-> "risk", on |-> i, to |-> LevelOf(i), at |-> "write",
                             upto |-> 0] : i \in changed}
  /\ UNCHANGED <<watch, calls, faults>>

Alarms(to) == to \in {"yellow", "red"}

\* One item after the other: the row by id, and then the notice.
RiskWrite(j) ==
  /\ j \in Of("risk") /\ j.at = "write" /\ \A k \in Of("risk") : k.at = "write"
  /\ level' = [level EXCEPT ![j.on] = j.to]
  /\ IF Alarms(j.to) THEN Goes(j, [j EXCEPT !.at = "tell"]) ELSE job' = job \ {j}
  /\ UNCHANGED <<tasks, due, said, reminded, notices, calls, faults>>

RiskTell(j) ==
  /\ j \in Of("risk") /\ j.at = "tell" /\ Tell
  /\ said' = [said EXCEPT ![j.on] = j.to] /\ job' = job \ {j}
  /\ UNCHANGED <<tasks, due, level, reminded, trimmed, calls, faults>>

-----------------------------------------------------------------------------
(* Every day at 9: who has not reported for three days. *)

MissingRead ==
  /\ due = {"missing"} /\ due' = {} /\ Of("trim") = {}
  /\ job' = job \cup {[kind |-> "quiet", on |-> i, to |-> "none", at |-> "look", upto |-> 0] :
                        i \in {i \in Items \ closed : progress[i] < 100}}
  /\ UNCHANGED <<tasks, level, said, reminded, notices, calls, faults>>

\* The last reports are fetched in one more query, for all of them.
MissingLook ==
  /\ \E j \in Of("quiet") : j.at = "look"
  /\ job' = (job \ Of("quiet")) \cup {[j EXCEPT !.at = "tell"] :
                                        j \in {k \in Of("quiet") : reported[k.on] <= day - 3}}
  /\ UNCHANGED <<watch, calls, faults>>

MissingTell(j) ==
  /\ j \in Of("quiet") /\ j.at = "tell" /\ Tell
  /\ reminded' = [reminded EXCEPT ![j.on] = day] /\ job' = job \ {j}
  /\ UNCHANGED <<tasks, due, level, said, trimmed, calls, faults>>

-----------------------------------------------------------------------------
(* Every day at 2: what is too old goes, and what is too much. *)

\* cleanup
Expire ==
  /\ "cleanup" \in due /\ due' = due \ {"cleanup"}
  /\ inbox' = {m \in inbox : m.day >= day - KeepDays}
  /\ job' = job \cup {[kind |-> "trim", on |-> "inbox", to |-> "none", at |-> "look", upto |-> 0]}
  /\ UNCHANGED <<tasks, level, said, reminded, sent, tied, trimmed, calls, faults>>

\* The newest unread notice that is not to be kept, newest first, MaxUnread of them skipped;
\* there is one as soon as a user has too many.
Later(n) == {m \in Unread : m.n > n.n}
Boundary == {n \in Unread : Cardinality(Later(n)) = MaxUnread}

TrimLook(j) ==
  /\ j \in Of("trim") /\ j.at = "look"
  /\ IF Boundary = {} THEN job' = job \ {j}
     ELSE \E n \in Boundary : Goes(j, [j EXCEPT !.at = "write", !.upto = n.at])
  /\ UNCHANGED <<watch, calls, faults>>

\* It goes with all that are as old.
Trim(j) ==
  /\ j \in Of("trim") /\ j.at = "write"
  /\ LET gone == {m \in Unread : m.at <= j.upto}
     IN inbox' = inbox \ gone /\ trimmed' = trimmed \cup {m.n : m \in gone}
  /\ job' = job \ {j}
  /\ UNCHANGED <<tasks, due, level, said, reminded, sent, tied, calls, faults>>

-----------------------------------------------------------------------------
\* What the jobs had found is gone, and a daily job whose time passes meanwhile is not made up.
Restart ==
  /\ faults < MaxFaults /\ faults' = faults + 1
  /\ job' = {} /\ (due' = due \/ due' = {})
  /\ UNCHANGED <<tasks, level, said, reminded, notices, calls>>

Jobs ==
  \/ RiskRead \/ MissingRead \/ MissingLook \/ Expire
  \/ \E j \in job : RiskWrite(j) \/ RiskTell(j) \/ MissingTell(j) \/ TrimLook(j) \/ Trim(j)

Next ==
  \/ Clock \/ ReadAll \/ Jobs \/ Restart
  \/ \E i \in Items : Close(i) \/ \E p \in Percent : Report(i, p)

Spec == Init /\ [][Next]_vars

\* The scheduler starts the jobs, and they go on.
FairSpec == Spec /\ WF_vars(Jobs)

-----------------------------------------------------------------------------
(* Properties *)

TypeOK ==
  /\ day \in 0..Horizon /\ due \subseteq {"missing", "cleanup"}
  /\ progress \in [Items -> Percent] /\ closed \subseteq Items
  /\ {reported[i] : i \in Items} \cup {reminded[i] : i \in Items} \subseteq Never..Horizon
  /\ level \in [Items -> Levels] /\ said \in [Items -> Levels]
  /\ inbox \subseteq [n: Nat, at: Nat, day: 0..Horizon, unread: BOOLEAN]
  /\ sent \in Nat /\ tied \cup trimmed \subseteq 1..sent
  /\ job \subseteq Found /\ calls \in 0..MaxCalls /\ faults \in 0..MaxFaults

\* Whoever looks at an item at risk has been told of the level it shows, unless the job
\* stopped between the two: the next run sees no change and says nothing.
AlarmIsTold ==
  faults = 0 => \A i \in Items :
    Alarms(level[i]) => said[i] = level[i] \/ \E j \in Of("risk") : j.on = i /\ j.at = "tell"

\* The clean-up deletes no unread notice that is among the newest MaxUnread, unless it has
\* the time of an older one: of those the newest are not told apart.
NewestKeptUnlessTied == \A n \in trimmed \ tied : sent - n >= MaxUnread

\* A level that no longer says how late an item is is corrected, and of silence the author is
\* told on the same day, unless the job was stopped or the item is closed.
LevelCatchesUp == \A i \in Items : level[i] # LevelOf(i) ~> level[i] = LevelOf(i) \/ i \in closed
SilenceIsTold == \A i \in Items : Quiet(i) ~> reminded[i] = day \/ ~Quiet(i) \/ faults > 0
=============================================================================
