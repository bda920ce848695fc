-------------------------------- MODULE Drafting --------------------------------
(***************************************************************************)
(* The page on which a company writes a task (TaskCreatePage.vue) and the      *)
(* handlers it saves and publishes with (task.service.ts).  A save is a chain  *)
(* of requests: create, or update and roles, and behind them publish.  It     *)
(* goes on when the page is left, and another one may start before it ends.   *)
(*                                                                         *)
(* What is on the form is known by how often it was changed.  A save sends     *)
(* only some of it, and only some of it is watched by the timer:              *)
(*   title  title and budget: watched, in every save;                        *)
(*   extra  description (watched), dates, address: not sent when empty;        *)
(*   kept   mode (watched), priority, acceptance criteria, project and         *)
(*          milestone: sent with create alone;                               *)
(*   role   the role, its headcount and budget: watched, sent if one is chosen; *)
(*   tags   its skills and description: sent with it.                         *)
(***************************************************************************)
EXTENDS Integers, FiniteSets

CONSTANTS
  Drafts,            \* task rows that can be created
  NoDraft,           \* null
  MaxEdits,          \* bound: changes of the form, ...
  MaxAside,          \* ... and those of what not every save sends or the timer watches
  MaxPages,          \* bound: visits to the page
  MaxSaves,          \* bound: saves under way at a time
  MaxCalls, MaxFaults   \* bounds: buttons pressed, requests that go wrong

VARIABLES
  page, shown,   \* the number of visits, and whether the page is on the screen
  form,          \* what is on it
  draft,         \* draftId
  loading,       \* the task that loadDraft asked for
  timer,         \* autoSaveTimer
  stored,        \* rows: status, text, roles, and the visit that created them
  pressed,       \* history: what the form said when publishing the task was pressed
  run,           \* saves under way
  mixed,         \* history: a save overlapped with another, or with a change it would miss
  calls, faults

screen == <<page, shown, form, draft, loading, timer>>
vars == <<screen, stored, pressed, run, mixed, calls, faults>>

Texts == [title: 0..MaxEdits, extra: 0..MaxEdits, kept: 0..MaxEdits]
RoleForms == [role: 0..MaxEdits, tags: 0..MaxEdits]
Form == [text: Texts, roles: RoleForms]
Blank == [text |-> [title |-> 0, extra |-> 0, kept |-> 0], roles |-> [role |-> 0, tags |-> 0]]

Aside(f) == f.text.extra + f.text.kept + f.roles.tags
Changes(f) == f.text.title + f.roles.role + Aside(f)

\* A role is chosen and cleared, and the extra filled and emptied, in turn.
Chosen(r) == r.role % 2 = 1
Filled(n) == n % 2 = 1

Save == [kind: {"auto", "draft", "publish"}, op: {"create", "update", "roles", "publish"},
         done: BOOLEAN, on: Drafts \cup {NoDraft}, text: Texts, roles: RoleForms,
         asked: Form, page: Nat]

Init ==
  /\ page = 0 /\ shown = FALSE /\ form = Blank
  /\ draft = NoDraft /\ loading = NoDraft /\ timer = FALSE
  /\ stored = [d \in Drafts |-> [status |-> "none", text |-> Blank.text, roles |-> Blank.roles,
                                 page |-> 0]]
  /\ pressed = [d \in Drafts |-> Blank]
  /\ run = {} /\ mixed = FALSE /\ calls = 0 /\ faults = 0

Mine(c) == c.page = page /\ shown
Pressed(kind) == \E c \in run : Mine(c) /\ c.kind = kind   \* the button shows that it is busy

\* bound: once saves have mixed, of which nothing is claimed, those under way are followed to
\* their end and nothing else happens.
Followed == ~mixed

-----------------------------------------------------------------------------
(* Faulty variants of operators below; not part of the specification.        *)

\* publishing a draft without saving the roles
NextOpWithoutRoles(c) ==
  IF c.op = "update" /\ c.kind # "publish" THEN "roles"
  ELSE IF c.kind = "publish" /\ c.op # "publish" THEN "publish" ELSE "end"

-----------------------------------------------------------------------------
(* The page *)

\* A new task, or ?id= of a draft, which onMounted loads behind other requests.
Open ==
  /\ Followed /\ ~shown /\ page < MaxPages /\ page' = page + 1 /\ shown' = TRUE
  /\ loading' \in {d \in Drafts : stored[d].status = "draft"} \cup {NoDraft}
  /\ mixed' = (mixed \/ run # {})
  /\ UNCHANGED <<form, draft, timer, stored, pressed, run, calls, faults>>

\* loadDraft: the form becomes what is stored, without the priority and the criteria, and
\* without a role that the company no longer has; that is a change, too.
Load ==
  /\ shown /\ loading # NoDraft
  /\ \E k \in {0, stored[loading].text.kept}, n \in {0, stored[loading].roles.role} :
       form' = [text |-> [stored[loading].text EXCEPT !.kept = k],
                roles |-> [stored[loading].roles EXCEPT !.role = n]]
  /\ draft' = loading /\ loading' = NoDraft /\ timer' = TRUE
  /\ UNCHANGED <<page, shown, stored, pressed, run, mixed, calls, faults>>

\* The page goes, and its timer; the saves r go on with the form as it is left.
Gone(r) ==
  /\ shown' = FALSE /\ timer' = FALSE
  /\ form' = Blank /\ draft' = NoDraft /\ loading' = NoDraft
  /\ run' = {IF Mine(c) THEN [c EXCEPT !.asked = form] ELSE c : c \in r}

Leave ==
  /\ Followed /\ shown /\ Gone(run)
  /\ UNCHANGED <<page, stored, pressed, mixed, calls, faults>>

\* The draft cannot be loaded: the page is left.
LoadFails ==
  /\ Followed /\ shown /\ loading # NoDraft /\ Gone(run)
  /\ faults < MaxFaults /\ faults' = faults + 1
  /\ UNCHANGED <<page, stored, pressed, mixed, calls>>

\* The user changes the form; watch schedules an automatic save, for what it watches.
Edit ==
  /\ Followed /\ shown
  /\ \/ /\ form' \in {[form EXCEPT !.text.title = @ + 1], [form EXCEPT !.roles.role = @ + 1],
                      [form EXCEPT !.roles.role = @ + 2]}
        /\ timer' = TRUE
     \/ /\ form' \in {[form EXCEPT !.text.extra = @ + 1], [form EXCEPT !.text.kept = @ + 1]}
        /\ timer' \in {timer, TRUE}
     \/ form' = [form EXCEPT !.roles.tags = @ + 1] /\ UNCHANGED timer
  /\ form' \in Form /\ Changes(form') <= MaxEdits /\ Aside(form') <= MaxAside
  /\ mixed' = (mixed \/ loading # NoDraft \/ Pressed("publish"))
  /\ UNCHANGED <<page, shown, draft, loading, stored, pressed, run, calls, faults>>

\* The first request of a save: the text is of now, the roles only of a task that is new
\* and with a role chosen.
Begin(kind) ==
  /\ Followed /\ Cardinality(run) < MaxSaves
  /\ run' = run \cup {[kind |-> kind, op |-> IF draft = NoDraft THEN "create" ELSE "update",
                       done |-> FALSE, on |-> draft, text |-> form.text, roles |-> form.roles,
                       asked |-> IF kind = "publish" THEN form ELSE Blank, page |-> page]}
  /\ mixed' = (mixed \/ run # {} \/ loading # NoDraft)

\* doAutoSave, of a task that has a title.
AutoSave ==
  /\ shown /\ timer /\ timer' = FALSE
  /\ IF form.text.title > 0 THEN Begin("auto") ELSE UNCHANGED <<run, mixed>>
  /\ UNCHANGED <<page, shown, form, draft, loading, stored, pressed, calls, faults>>

\* handleSaveDraft, and handlePublish of a form that can be published.  Each button blocks
\* itself alone.
Press(kind) ==
  /\ shown /\ ~Pressed(kind) /\ form.text.title > 0
  /\ kind = "publish" => Chosen(form.roles)
  /\ calls < MaxCalls /\ calls' = calls + 1
  /\ Begin(kind)
  /\ UNCHANGED <<screen, stored, pressed, faults>>

-----------------------------------------------------------------------------
(* The server: createTask is one transaction; updateDraft, setTaskRoles and    *)
(* publishTask look at the status and write by id, which is one step here:    *)
(* what comes between them is a save that overlaps.                         *)

Free == {d \in Drafts : stored[d].status = "none"}

Create(c) ==
  /\ c \in run /\ ~c.done /\ c.op = "create" /\ Free # {}
  /\ LET d == CHOOSE e \in Free : TRUE IN
       /\ stored' = [stored EXCEPT ![d] =
                       [status |-> "draft", text |-> c.text, roles |-> c.roles, page |-> c.page]]
       /\ run' = (run \ {c}) \cup {[c EXCEPT !.done = TRUE, !.on = d, !.text = Blank.text,
                                          !.roles = Blank.roles]}
  /\ UNCHANGED <<screen, pressed, mixed, calls, faults>>

Accepts(c) ==
  /\ stored[c.on].status = "draft"
  /\ c.op = "publish" => Chosen(stored[c.on].roles)

\* What updateDraft makes of a row: what is empty is not sent, and what is kept never is.
Updated(old, new) ==
  [old EXCEPT !.title = new.title, !.extra = IF Filled(new.extra) THEN new.extra ELSE @]

Write(c) ==
  /\ c \in run /\ ~c.done /\ c.op # "create" /\ Accepts(c)
  /\ stored' = CASE c.op = "update"  -> [stored EXCEPT ![c.on].text = Updated(@, c.text)]
                 [] c.op = "roles"   -> [stored EXCEPT ![c.on].roles = c.roles]
                 [] c.op = "publish" -> [stored EXCEPT ![c.on].status = "published"]
  /\ pressed' = IF c.op = "publish" THEN [pressed EXCEPT ![c.on] = c.asked] ELSE pressed
  /\ run' = (run \ {c}) \cup {[c EXCEPT !.done = TRUE, !.text = Blank.text, !.roles = Blank.roles]}
  /\ UNCHANGED <<screen, mixed, calls, faults>>

Refuse(c) ==
  /\ c \in run /\ ~c.done /\ c.op # "create" /\ ~Accepts(c)
  /\ run' = run \ {c}
  /\ UNCHANGED <<screen, stored, pressed, mixed, calls, faults>>

-----------------------------------------------------------------------------
(* Answers *)

\* The end of a save: all but the automatic ones go to the list of tasks, from whatever page
\* is on the screen.
Ends(c) ==
  IF c.kind = "auto" \/ ~shown THEN run' = run \ {c} /\ UNCHANGED <<shown, timer, form, loading>>
  ELSE Gone(run \ {c})

\* create, of a save: its answer is the draft from now on.
Answered(c) ==
  /\ c \in run /\ c.done /\ c.op = "create" /\ c.kind \in {"auto", "draft"}
  /\ Ends(c)
  /\ c.kind = "auto" \/ ~shown => draft' = IF Mine(c) THEN c.on ELSE draft
  /\ UNCHANGED <<page, stored, pressed, mixed, calls, faults>>

\* The roles are those of the form by now.
Roles(c) == IF Mine(c) THEN form.roles ELSE c.asked.roles

\* update, then the roles if one is chosen, then for publishing that; draftId is read again.
NextOp(c) ==
  IF c.op = "update" /\ Chosen(Roles(c)) THEN "roles"
  ELSE IF c.kind = "publish" /\ c.op # "publish" THEN "publish" ELSE "end"

Goes(c) ==
  /\ c \in run /\ c.done
  /\ c.op = "create" => c.kind = "publish"
  /\ IF NextOp(c) = "end"
     THEN Ends(c) /\ (c.kind = "auto" \/ ~shown => UNCHANGED draft)
     ELSE /\ run' = (run \ {c}) \cup
               {[c EXCEPT !.op = NextOp(c), !.done = FALSE, !.roles = Roles(c), !.text = Blank.text,
                          !.on = IF c.kind # "publish" /\ Mine(c) THEN draft ELSE @]}
          /\ UNCHANGED <<shown, timer, form, draft, loading>>
  /\ UNCHANGED <<page, stored, pressed, mixed, calls, faults>>

\* A request or its answer is lost: what the server has of the save is done or not.
Fail(c) ==
  /\ Followed /\ c \in run /\ run' = run \ {c}
  /\ faults < MaxFaults /\ faults' = faults + 1
  /\ UNCHANGED <<screen, stored, pressed, mixed, calls>>

Serve == \E c \in run : Create(c) \/ Write(c) \/ Refuse(c)
                    \/ Answered(c) \/ Goes(c)

Next ==
  \/ Open \/ Load \/ LoadFails \/ Leave \/ Edit \/ AutoSave \/ Serve
  \/ \E kind \in {"draft", "publish"} : Press(kind)
  \/ \E c \in run : Fail(c)

Spec == Init /\ [][Next]_vars

\* The timer fires and requests are answered; nobody has to press anything.
Page == Load \/ AutoSave
FairSpec == Spec /\ WF_vars(Page) /\ WF_vars(Serve)

-----------------------------------------------------------------------------
(* Properties *)

TypeOK ==
  /\ page \in 0..MaxPages /\ {shown, timer, mixed} \subseteq BOOLEAN /\ form \in Form
  /\ {draft, loading} \subseteq Drafts \cup {NoDraft}
  /\ stored \in [Drafts -> [status: {"none", "draft", "published"}, text: Texts,
                            roles: RoleForms, page: 0..MaxPages]]
  /\ pressed \in [Drafts -> Form]
  /\ run \subseteq Save
  /\ calls \in 0..MaxCalls /\ faults \in 0..MaxFaults

\* However often a task is saved by the timer and by hand, one visit makes one task of it,
\* unless saves overlapped or one failed half way.
OneTaskUnlessMixed ==
  ~mixed /\ faults = 0 =>
    \A d, e \in Drafts :
      stored[d].status # "none" /\ stored[e].status # "none" /\ stored[d].page = stored[e].page
        => d = e

\* A published task has the title, the budget and the roles that were on the form when the
\* button was pressed, and no save changes them afterwards, unless saves overlapped or the
\* form was changed meanwhile.  (Of the rest the last save need not have sent anything.)
SentIsPublishedUnlessMixed ==
  ~mixed => \A d \in Drafts : stored[d].status = "published" =>
    stored[d].text.title = pressed[d].text.title /\ stored[d].roles = pressed[d].roles

Saved ==
  /\ draft # NoDraft
  /\ stored[draft].text.title = form.text.title
  /\ Chosen(form.roles) => stored[draft].roles.role = form.roles.role

\* Title, budget and the role chosen are saved in the end without a button, unless the page
\* is left, saves overlapped or one failed: a failed one is not tried again before the next
\* change.
AutosaveCatchesUp ==
  (shown /\ loading = NoDraft /\ form.text.title > 0) ~> (Saved \/ ~shown \/ mixed \/ faults > 0)
=============================================================================
