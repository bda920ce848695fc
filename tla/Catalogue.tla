------------------------------- MODULE Catalogue -------------------------------
(***************************************************************************)
(* What a company sets up for its tasks (task-template.service.ts): roles     *)
(* with the templates kept in the same table, skills, and checkpoints, and    *)
(* the settings page that fills them from a preset (RoleConfigPage.vue,       *)
(* SkillConfigPage.vue, CheckpointConfigPage.vue).  The three lists are in    *)
(* tables of their own and are served alike; a behaviour is about one.        *)
(***************************************************************************)
EXTENDS Integers, FiniteSets

CONSTANTS
  Titles,      \* names
  Offered,     \* those the page offers
  MaxListed,   \* of each kind: 50 roles, 50 checkpoints, 200 skills
  MaxCalls,    \* bound: requests
  MaxOpen,     \* bound: requests at a time
  MaxFaults    \* bound: answers that are lost, calls that stop half way

VARIABLES
  kind,     \* which of the three
  rows,     \* its table
  bare,     \* drafts made from a template whose roles are not there
  list,     \* names the page shows
  adding,   \* names the page still has to send
  stage,    \* of the page
  failed,   \* history: the page was told of a failure it did not reload after
  run, raced, calls, faults

table == <<rows, bare>>
pane == <<list, adding, stage, failed>>
vars == <<kind, table, pane, run, raced, calls, faults>>

Kinds == {"role", "skill", "point"}
\* A template is a role whose description begins with [TEMPLATE].
Texts == {"null", "plain", "template"}
Row == [id: Nat, name: Titles, text: Texts, live: BOOLEAN, preset: BOOLEAN]
Call == [n: Nat, op: {"create", "rename", "delete", "save", "discard", "use"}, id: Nat,
         name: Titles, text: Texts, at: {"count", "name", "find", "write", "back", "roles"},
         page: BOOLEAN]

Init ==
  /\ kind \in Kinds /\ rows = {} /\ bare = {}
  /\ list = {} /\ adding = {} /\ stage = "idle" /\ failed = FALSE
  /\ run = {} /\ raced = {} /\ calls = 0 /\ faults = 0

Named(t) == {r \in rows : r.name = t}
With(id) == {r \in rows : r.id = id}
\* The table after an update by id.
Set(id, news) == (rows \ With(id)) \cup news
\* name and company are unique, but not those of checkpoints.
Free(t) == kind = "point" \/ Named(t) = {}
Added(c, text) == {[id |-> c.n, name |-> c.name, text |-> text, live |-> TRUE, preset |-> c.page]}

-----------------------------------------------------------------------------
(* Requests *)

\* What is counted and listed: NOT LIKE is not true of a description that is null.
Counted == {r \in rows : r.live /\ r.text = "plain"}

Ask(op, id, t, text, at, page) ==
  /\ calls < MaxCalls /\ Cardinality(run) < MaxOpen
  /\ calls' = calls + 1 /\ raced' = raced \cup {kind : h \in run}
  /\ run' = run \cup {[n |-> calls, op |-> op, id |-> id, name |-> t, text |-> text, at |-> at,
                       page |-> page]}

\* A role may come without a description.
Described(text) == IF kind = "role" THEN text \in {"null", "plain"} ELSE text = "plain"

\* From a form, or another page.
Request ==
  /\ \E t \in Titles :
       \/ \E text \in Texts : Described(text) /\ Ask("create", 0, t, text, "count", FALSE)
       \/ kind = "role" /\ Ask("save", 0, t, "template", "find", FALSE)
       \/ \E r \in rows : Ask("rename", r.id, t, r.text, "find", FALSE)
       \/ \E r \in Named(t), op \in {"delete", "discard", "use"} :
            /\ op = "delete" \/ kind = "role"
            /\ Ask(op, r.id, t, r.text, "find", FALSE)
  /\ UNCHANGED <<kind, table, pane, faults>>

\* Answered to the page: checkpoints go one by one and stop at a failure, with the list and
\* the dialog as they were; skills go in one request that skips what it cannot add.
Answer(c, ok) ==
  IF ~c.page THEN UNCHANGED pane
  ELSE /\ IF ok \/ kind = "skill"
          THEN /\ adding' = adding \ {c.name}
               /\ stage' = IF adding' = {} THEN "load" ELSE "idle"
               /\ UNCHANGED failed
          ELSE /\ adding' = {} /\ stage' = "idle" /\ failed' = TRUE
       /\ UNCHANGED list

Ends(c, ok) ==
  /\ run' = run \ {c} /\ Answer(c, ok)
  /\ UNCHANGED <<kind, raced, calls, faults>>
Goes(c, at) ==
  /\ run' = {h \in run : h.n # c.n} \cup {[c EXCEPT !.at = at]}
  /\ UNCHANGED <<kind, pane, raced, calls, faults>>

-----------------------------------------------------------------------------
(* createCustomRole, createCustomSkill, createCheckpointTemplate *)

Count(c) ==
  /\ c \in run /\ c.at = "count"
  /\ IF Cardinality(Counted) >= MaxListed[kind] THEN Ends(c, FALSE)
     ELSE Goes(c, IF kind = "point" THEN "write" ELSE "name")
  /\ UNCHANGED table

\* A skill that was deleted comes back; a role keeps its name for ever.
LookUp(c) ==
  /\ c \in run /\ c.op = "create" /\ c.at = "name"
  /\ LET gone == {r \in Named(c.name) : kind = "skill" /\ ~r.live}
     IN IF Free(c.name) THEN Goes(c, "write")
        ELSE IF gone = {} THEN Ends(c, FALSE)
        ELSE \E r \in gone : Goes([c EXCEPT !.id = r.id], "back")
  /\ UNCHANGED table

Create(c) ==
  /\ c \in run /\ c.op = "create" /\ c.at = "write"
  /\ rows' = rows \cup (IF Free(c.name) THEN Added(c, c.text) ELSE {})
  /\ Ends(c, Free(c.name)) /\ UNCHANGED bare

Restore(c) ==
  /\ c \in run /\ c.at = "back"
  /\ rows' = Set(c.id, {[r EXCEPT !.live = TRUE] : r \in With(c.id)})
  /\ Ends(c, TRUE) /\ UNCHANGED bare

\* updateCustomRole, updateCustomSkill, updateCheckpointTemplate: a role may have been deleted,
\* but must have a description that is not null.
RenameFind(c) ==
  /\ c \in run /\ c.op = "rename" /\ c.at = "find"
  /\ IF /\ \E r \in With(c.id) : r.text = "plain" /\ (r.live \/ kind = "role")
        /\ (Free(c.name) \/ Named(c.name) = With(c.id))
     THEN Goes(c, "write") ELSE Ends(c, FALSE)
  /\ UNCHANGED table

Rename(c) ==
  /\ c \in run /\ c.op = "rename" /\ c.at = "write"
  /\ IF (Free(c.name) \/ Named(c.name) = With(c.id))
     THEN /\ rows' = Set(c.id, {[r EXCEPT !.name = c.name, !.preset = FALSE] : r \in With(c.id)})
          /\ Ends(c, TRUE)
     ELSE rows' = rows /\ Ends(c, FALSE)
  /\ UNCHANGED bare

\* deleteCustomRole, which takes a template for a role, deleteCustomSkill and
\* deleteCheckpointTemplate: the row stays, not active.
Delete(c) ==
  /\ c \in run /\ c.op = "delete"
  /\ rows' = Set(c.id, {[r EXCEPT !.live = FALSE] : r \in With(c.id)})
  /\ Ends(c, With(c.id) # {}) /\ UNCHANGED bare

-----------------------------------------------------------------------------
(* Templates *)

\* saveTemplate looks for a template of the name; the table has the roles' names, too.
Save(c) ==
  /\ c \in run /\ c.op = "save"
  /\ IF Free(c.name) THEN rows' = rows \cup Added(c, "template") /\ Ends(c, TRUE)
     ELSE rows' = rows /\ Ends(c, FALSE)
  /\ UNCHANGED bare

\* deleteTemplate
Discard(c) ==
  /\ c \in run /\ c.op = "discard"
  /\ rows' = rows \ {r \in With(c.id) : r.text = "template"}
  /\ Ends(c, TRUE) /\ UNCHANGED bare

\* createFromTemplate: the task, and then its roles.
Use(c) ==
  /\ c \in run /\ c.op = "use" /\ c.at = "find"
  /\ IF \E r \in With(c.id) : r.text = "template"
     THEN bare' = bare \cup {c.n} /\ Goes(c, "roles")
     ELSE bare' = bare /\ Ends(c, FALSE)
  /\ UNCHANGED rows

UseRoles(c) ==
  /\ c \in run /\ c.op = "use" /\ c.at = "roles"
  /\ bare' = bare \ {c.n} /\ Ends(c, TRUE) /\ UNCHANGED rows

-----------------------------------------------------------------------------
(* The page *)

\* confirmAddPreset, addFromTemplate: what the list does not show; of roles, one.
Press(names) ==
  /\ stage = "idle" /\ adding = {} /\ names # {} /\ names \cap list = {}
  /\ IF kind = "role" THEN Cardinality(names) = 1 ELSE names = Offered \ list
  /\ adding' = names
  /\ UNCHANGED <<kind, table, list, stage, failed, run, raced, calls, faults>>

Post(t) ==
  /\ stage = "idle" /\ t \in adding /\ stage' = "sent"
  /\ \E text \in Texts : Described(text) /\ Ask("create", 0, t, text, "count", TRUE)
  /\ UNCHANGED <<kind, table, list, adding, failed, faults>>

\* loadData
Load ==
  /\ stage = "load" /\ stage' = "idle" /\ list' = {r.name : r \in Counted}
  /\ UNCHANGED <<kind, table, adding, failed, run, raced, calls, faults>>

Fault == faults < MaxFaults /\ faults' = faults + 1 /\ UNCHANGED <<kind, raced, calls>>

LoadFails ==
  /\ stage = "load" /\ stage' = "idle" /\ failed' = TRUE /\ Fault
  /\ UNCHANGED <<table, list, adding, run>>

\* A request is not answered: the page takes it for a failure, and the server goes on.
Lost(c) ==
  /\ c \in run /\ c.page /\ kind # "skill" /\ Fault
  /\ run' = (run \ {c}) \cup {[c EXCEPT !.page = FALSE]}
  /\ adding' = {} /\ stage' = "idle" /\ failed' = TRUE
  /\ UNCHANGED <<table, list>>

\* The server stops half way.
Stop(c) ==
  /\ c \in run /\ ~c.page /\ Fault
  /\ run' = run \ {c} /\ UNCHANGED <<table, pane>>

Next ==
  \/ Request \/ Load \/ LoadFails
  \/ \E names \in SUBSET Offered : Press(names)
  \/ \E t \in adding : Post(t)
  \/ \E c \in run :
       \/ Count(c) \/ LookUp(c) \/ Create(c) \/ Restore(c) \/ RenameFind(c) \/ Rename(c) \/ Delete(c)
       \/ Save(c) \/ Discard(c) \/ Use(c) \/ UseRoles(c) \/ Lost(c) \/ Stop(c)

Spec == Init /\ [][Next]_vars

-----------------------------------------------------------------------------
(* Properties *)

TypeOK ==
  /\ kind \in Kinds /\ rows \subseteq Row /\ bare \subseteq Nat
  /\ list \cup adding \subseteq Titles /\ stage \in {"idle", "sent", "load"}
  /\ failed \in BOOLEAN /\ run \subseteq Call /\ raced \subseteq Kinds
  /\ calls \in 0..MaxCalls /\ faults \in 0..MaxFaults

\* A company has no more roles, skills or checkpoints than it may have, unless calls
\* overlapped; roles without a description are not counted, nor listed.
LimitUnlessRaced == kind \in raced \/ Cardinality(Counted) <= MaxListed[kind]

\* A preset puts no checkpoint into the list twice, however often it is chosen, unless the page
\* was told of a failure: it goes on with the list it had, and the server takes it again.
PresetOnceUnlessFailed ==
  \A r, s \in rows :
    r # s /\ r.name = s.name /\ r.preset /\ s.preset => failed \/ ~r.live \/ ~s.live

\* A draft made from a template has its roles, unless the call stopped half way.
RolesFollowUnlessStopped == faults > 0 \/ bare \subseteq {c.n : c \in {c \in run : c.at = "roles"}}
=============================================================================
