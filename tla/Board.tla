--------------------------------- MODULE Board ---------------------------------
(***************************************************************************)
(* The page with the tasks of a company (TaskListPage.vue): a list with tabs  *)
(* and filters, a drawer with one task and the buttons its status allows, and  *)
(* a drawer with its applications.  Answers come in any order, and the        *)
(* drawers go on with whatever they hold when one comes.                      *)
(***************************************************************************)
EXTENDS Integers, FiniteSets

CONSTANTS
  Posts,       \* tasks
  Filters,     \* tabs, keywords, pages
  None,        \* null
  MaxCalls,    \* bound: clicks
  MaxFaults    \* bound: requests that fail

VARIABLES
  state,     \* status of each task
  filter,    \* what the tab and the fields say
  listed,    \* the filter the list on the screen is for
  wanted,    \* the task whose drawer was opened last
  detail,    \* the task in the drawer, with the status it had
  drawer,    \* the task whose applications were opened last
  apps,      \* the task the applications on the screen are of
  cried,     \* history: buttons whose failure was told, and whose work was done
  run,       \* requests
  raced,     \* history: what was asked for again before it was there
  calls, faults

screen == <<filter, listed, wanted, detail, drawer, apps, cried>>
vars == <<state, screen, run, raced, calls, faults>>

Stages == {"published", "reviewing", "in_progress", "pending_payment", "completed", "cancelled"}
Verbs == {"accept", "refuse", "pay", "cancel"}
Request == [n: Nat, op: {"list", "detail", "again", "reload", "apps"} \cup Verbs,
            of: Posts \cup Filters, got: Stages \cup {"sent", "done", "refused"}]

Init ==
  /\ state = [t \in Posts |-> "published"]
  /\ filter = (CHOOSE f \in Filters : TRUE) /\ listed = filter
  /\ wanted = None /\ detail = None /\ drawer = None /\ apps = None
  /\ cried = {} /\ run = {} /\ raced = {} /\ calls = 0 /\ faults = 0

Kind(op) == IF op \in {"again", "reload"} THEN "detail" ELSE IF op \in Verbs THEN "button" ELSE op
New(op, of) == [n |-> calls, op |-> op, of |-> of, got |-> "sent"]
Open(kind) == \E c \in run : Kind(c.op) = kind
Late(kind) == IF Open(kind) THEN {kind} ELSE {}

\* The buttons and what the server makes of them.
From(verb) ==
  CASE verb = "cancel" -> "published" [] verb = "pay" -> "pending_payment" [] OTHER -> "reviewing"
To(verb) ==
  CASE verb = "cancel" -> "cancelled" [] verb = "pay" -> "completed"
    [] verb = "accept" -> "pending_payment" [] verb = "refuse" -> "in_progress"

Click == calls < MaxCalls /\ calls' = calls + 1 /\ UNCHANGED <<state, faults>>

-----------------------------------------------------------------------------
(* Clicks *)

\* handleTabChange, handleSearch and handleTableChange
Choose(f) ==
  /\ Click /\ filter' = f /\ run' = run \cup {New("list", f)}
  /\ raced' = raced \cup Late("list")
  /\ UNCHANGED <<listed, wanted, detail, drawer, apps, cried>>

\* openTaskDrawer
OpenTask(t) ==
  /\ Click /\ wanted' = t /\ detail' = None /\ run' = run \cup {New("detail", t)}
  /\ raced' = raced \cup Late("detail") \cup Late("button")
  /\ UNCHANGED <<filter, listed, drawer, apps, cried>>

\* openApplicationDrawer keeps the applications of the task before until the new ones come.
OpenApplications(t) ==
  /\ Click /\ drawer' = t /\ run' = run \cup {New("apps", t)}
  /\ raced' = raced \cup Late("apps")
  /\ UNCHANGED <<filter, listed, wanted, detail, apps, cried>>

\* handleAcceptTask, handleRejectAcceptanceConfirm, handlePayTask, handleCancelTask
Press(verb) ==
  /\ Click /\ detail # None /\ detail.stage = From(verb)
  /\ run' = run \cup {New(verb, detail.task)}
  /\ UNCHANGED <<screen, raced>>

-----------------------------------------------------------------------------
(* The server *)

\* The workers recruited deliver, for the first time or again.
Deliver(t) ==
  /\ state[t] \in {"published", "in_progress"}
  /\ state' = [state EXCEPT ![t] = "reviewing"]
  /\ UNCHANGED <<screen, run, raced, calls, faults>>

Gets(c, got) == run' = (run \ {c}) \cup {[c EXCEPT !.got = got]}

Serve(c) ==
  /\ c \in run /\ c.got = "sent"
  /\ IF c.op \in Verbs /\ state[c.of] = From(c.op)
     THEN Gets(c, "done") /\ state' = [state EXCEPT ![c.of] = To(c.op)]
     ELSE /\ Gets(c, IF c.op \in Verbs THEN "refused"
                     ELSE IF Kind(c.op) = "detail" THEN state[c.of] ELSE "done")
          /\ state' = state
  /\ UNCHANGED <<screen, raced, calls, faults>>

-----------------------------------------------------------------------------
(* Answers *)

Answered(c, op) == c \in run /\ c.op = op /\ c.got # "sent" /\ UNCHANGED <<state, calls, faults>>

\* fetchList
ShowList(c) ==
  /\ Answered(c, "list") /\ run' = run \ {c} /\ listed' = c.of
  /\ UNCHANGED <<filter, wanted, detail, drawer, apps, cried, raced>>

ShowDetail(c) ==
  /\ Answered(c, "detail") /\ run' = run \ {c}
  /\ detail' = [task |-> c.of, stage |-> c.got]
  /\ UNCHANGED <<filter, listed, wanted, drawer, apps, cried, raced>>

\* loadApplications
ShowApplications(c) ==
  /\ Answered(c, "apps") /\ run' = run \ {c} /\ apps' = c.of
  /\ UNCHANGED <<filter, listed, wanted, detail, drawer, cried, raced>>

Reload(verb) == IF verb = "cancel" THEN "reload" ELSE "again"

\* After a button the drawer asks for the task it holds by now; when it holds none, that
\* throws, and a button that did its work is said to have failed.  Of cancel nothing is said.
Pressed(c) ==
  /\ c.op \in Verbs /\ Answered(c, c.op)
  /\ IF c.got = "done" /\ detail # None
     THEN /\ run' = (run \ {c}) \cup {[c EXCEPT !.op = Reload(@), !.of = detail.task,
                                               !.got = "sent"]}
          /\ raced' = raced \cup Late("detail") /\ cried' = cried
     ELSE /\ run' = run \ {c} /\ raced' = raced
          /\ cried' = cried \cup {n \in {c.n} : c.got = "done" /\ c.op # "cancel"}
  /\ UNCHANGED <<filter, listed, wanted, detail, drawer, apps>>

\* ... and then the list is fetched, too.
ShowAgain(c) ==
  /\ c.op \in {"again", "reload"} /\ Answered(c, c.op)
  /\ run' = (run \ {c}) \cup {[c EXCEPT !.op = "list", !.of = filter, !.got = "sent"]}
  /\ raced' = raced \cup Late("list")
  /\ detail' = [task |-> c.of, stage |-> c.got]
  /\ UNCHANGED <<filter, listed, wanted, drawer, apps, cried>>

\* A request or its answer is lost.
Fail(c) ==
  /\ c \in run /\ faults < MaxFaults /\ faults' = faults + 1 /\ run' = run \ {c}
  /\ apps' = IF c.op = "apps" THEN None ELSE apps
  /\ cried' = IF c.op = "again" \/ (c.op \in Verbs \ {"cancel"} /\ c.got = "done")
              THEN cried \cup {c.n} ELSE cried
  /\ UNCHANGED <<state, filter, listed, wanted, detail, drawer, raced, calls>>

Next ==
  \/ \E f \in Filters : Choose(f)
  \/ \E t \in Posts : OpenTask(t) \/ OpenApplications(t) \/ Deliver(t)
  \/ \E verb \in Verbs : Press(verb)
  \/ \E c \in run : \/ Serve(c) \/ ShowList(c) \/ ShowDetail(c) \/ ShowApplications(c)
                    \/ Pressed(c) \/ ShowAgain(c) \/ Fail(c)

Spec == Init /\ [][Next]_vars

-----------------------------------------------------------------------------
(* Properties *)

TypeOK ==
  /\ state \in [Posts -> Stages] /\ {filter, listed} \subseteq Filters
  /\ {wanted, drawer, apps} \subseteq Posts \cup {None}
  /\ detail \in [task: Posts, stage: Stages] \cup {None}
  /\ cried \subseteq 0..MaxCalls /\ run \subseteq Request
  /\ raced \subseteq {"list", "detail", "apps", "button"}
  /\ calls \in 0..MaxCalls /\ faults \in 0..MaxFaults

\* What is on the screen is what was asked for last, as soon as nothing more is to come: the
\* list is for the filter, the task is the one that was opened, and the applications are those
\* of the task named above them, unless one was asked for before the other was there.
ShownAsAskedUnlessRaced ==
  /\ detail # None => detail.task = wanted \/ "detail" \in raced
  /\ Open("apps") \/ apps \in {drawer, None} \/ "apps" \in raced
  /\ Open("list") \/ listed = filter \/ "list" \in raced \/ faults > 0

\* A button is not said to have failed when it did its work, unless another task was opened
\* in the meantime or a request was lost.
FailureIsTrueUnlessLeft == cried = {} \/ "button" \in raced \/ faults > 0
=============================================================================
