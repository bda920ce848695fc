-------------------------------- MODULE Services --------------------------------
(***************************************************************************)
(* The smaller services of the backend, some with the page that calls them,   *)
(* each in a module of its own.  They write different tables, so nothing is   *)
(* gained from interleaving them: area says which of them a behaviour is      *)
(* about, and the others stay where they start.  What is counted (calls,      *)
(* faults), the calls under way (run) and what a scheduled job has read (job) *)
(* are those of that service.                                               *)
(***************************************************************************)
EXTENDS Integers, FiniteSets

CONSTANTS
  Calls,                                          \* bound: calls, for each area
  MaxFaults,                                      \* bound: calls that stop half way
  MaxOpen,                                        \* bound: calls under way, of some
  Assignments,                                    \* of Reviews
  MaxSettled,                                     \* of Billing
  LastDay,                                        \* of Attendance
  Rows, MaxPerTask, MaxRevisions,                 \* of Checkpoints
  Milestones, Tasks, MaxMilestones,               \* of Project
  Users, Owner, MaxAccounts, MaxFailures,         \* of Accounts
  People, Cards, Names, MaxRoles, MaxWorks,       \* of Workers
  Phones,                                         \* of both of them
  Reports,                                        \* of Issues
  Notes, Applied,                                 \* of Bell
  Agents, Presets, MaxAgents, MaxHistory, MaxRounds,  \* of Advisor
  Drafts, MaxEdits, MaxAside, MaxPages, MaxSaves, \* of Drafting
  Items, EndDay, Horizon, MaxUnread, KeepDays,    \* of Watch
  Titles, Offered, MaxListed,                     \* of Catalogue
  Posts, Filters,                                 \* of Board
  Firms, MaxLoads,                                \* of Companies
  IdNumbers,                                      \* of IdCard
  Queries, LastPage,                              \* of Market
  None                                            \* null

Areas == {"reviews", "billing", "attendance", "checkpoints", "project", "accounts",
          "workers", "issues", "bell", "advisor", "drafting", "watch", "catalogue",
          "board", "companies", "identity", "market"}

ASSUME BoundsAssumption == Calls \in [Areas -> Nat] /\ MaxFaults \in Nat
ASSUME NamesAssumption ==
  /\ Owner \in Users /\ {"new", "ip"} \cap Users = {} /\ Phones # {} /\ Agents # {}
  /\ Applied \subseteq Notes /\ IsFiniteSet(Notes) /\ Offered \subseteq Titles
  /\ None \notin UNION {Milestones, Phones, Cards, People, Presets, Drafts}
  /\ {"new", "phase"} \cap Milestones = {}
ASSUME LimitsAssumption ==
  /\ {MaxSettled, MaxPerTask, MaxRevisions, MaxMilestones, Horizon, MaxUnread} \subseteq Nat
  /\ {MaxRoles, MaxWorks, MaxAgents, MaxRounds, MaxAside, MaxPages, MaxSaves} \subseteq Nat
  /\ MaxEdits \in Nat
  /\ {MaxAccounts, MaxFailures, LastDay, MaxHistory, LastPage} \subseteq Nat \ {0}
  /\ MaxListed \in [{"role", "skill", "point"} -> Nat]

VARIABLES
  area,                        \* the service at work
  run, raced, calls, faults,   \* as in its module
  job,                         \* of Checkpoints, Project, Issues and Watch
  review, rated,
  settled, invoice,
  today, open, row, out, slept, decided, excused,
  status, revisions, late, submits, verdicts,
  project, milestone, task, past, done, loose,
  account, admin, phone, failures, expires, resigned, leaked,
  worker, wallet, roles, works, proved,
  issue, told, notice, cut,
  note, items, count,
  agent, preset, wish, owner, history, talk, strayed,
  page, shown, form, draft, loading, timer, stored, pressed, mixed,
  day, due, progress, reported, closed, level, said, reminded, inbox, sent, tied, trimmed,
  kind, rows, bare, list, adding, stage, failed,
  state, filter, listed, wanted, detail, drawer, apps, cried,
  firm, approved, logged, seen, loads, clerk, session,
  card, typed, held,
  query, found, pageNo, waiting, timers, clean

reviews == <<review, rated>>
billing == <<settled, invoice>>
attendance == <<today, open, row, out, slept, decided, excused>>
checkpoints == <<status, revisions, late, submits, verdicts>>
projects == <<project, milestone, task, past, done, loose>>
accounts == <<account, admin, phone, failures, expires, resigned, leaked>>
workers == <<worker, wallet, roles, works, proved>>
issues == <<issue, told, notice, cut>>
bell == <<note, items, count>>
advisor == <<agent, preset, wish, owner, history, talk, strayed>>
drafting == <<page, shown, form, draft, loading, timer, stored, pressed, mixed>>
watch == <<day, due, progress, reported, closed, level, said, reminded, inbox, sent, tied,
           trimmed>>
catalogue == <<kind, rows, bare, list, adding, stage, failed>>
board == <<state, filter, listed, wanted, detail, drawer, apps, cried>>
companies == <<firm, approved, logged, seen, loads, clerk, session>>
identity == <<card, typed, held>>
market == <<query, found, pageNo, waiting, timers, clean>>
vars == <<area, run, raced, calls, faults, job, reviews, billing, attendance, checkpoints,
          projects, accounts, workers, issues, bell, advisor, drafting, watch, catalogue, board,
          companies, identity, market>>

Review == INSTANCE Reviews WITH MaxCalls <- Calls["reviews"]
Invoice == INSTANCE Billing WITH MaxCalls <- Calls["billing"]
Checkin == INSTANCE Attendance WITH MaxCalls <- Calls["attendance"]
Checkpoint == INSTANCE Checkpoints WITH MaxCalls <- Calls["checkpoints"]
Plan == INSTANCE Project WITH MaxCalls <- Calls["project"]
Login == INSTANCE Accounts WITH MaxCalls <- Calls["accounts"]
Person == INSTANCE Workers WITH MaxCalls <- Calls["workers"], Unset <- None
Report == INSTANCE Issues WITH MaxCalls <- Calls["issues"]
Notice == INSTANCE Bell WITH MaxCalls <- Calls["bell"]
Aide == INSTANCE Advisor WITH MaxCalls <- Calls["advisor"], NoPreset <- None
Editor == INSTANCE Drafting WITH MaxCalls <- Calls["drafting"], NoDraft <- None
Alarm == INSTANCE Watch WITH MaxCalls <- Calls["watch"]
Setup == INSTANCE Catalogue WITH MaxCalls <- Calls["catalogue"]
List == INSTANCE Board WITH MaxCalls <- Calls["board"]
Firm == INSTANCE Companies WITH MaxCalls <- Calls["companies"]
Identity == INSTANCE IdCard WITH MaxCalls <- Calls["identity"]
Finder == INSTANCE Market WITH MaxCalls <- Calls["market"]

ASSUME DetailAssumption == None \notin [task: Posts, stage: List!Stages] /\ Filters # {}
ASSUME IdNumbersAssumption ==
  IdNumbers \subseteq [1..18 -> 0..10] /\ \A c \in IdNumbers : Identity!Issued(c)

Init ==
  /\ area \in Areas
  /\ Review!Init /\ Invoice!Init /\ Checkin!Init /\ Checkpoint!Init
  /\ Plan!Init /\ Login!Init /\ Person!Init /\ Report!Init
  /\ Notice!Init /\ Aide!Init /\ Editor!Init
  /\ Alarm!Init /\ Setup!Init /\ List!Init
  /\ Firm!Init /\ Identity!Init /\ Finder!Init
  /\ area # "advisor" => talk.place = "drawer"
  /\ area # "catalogue" => kind = "role"
  /\ area # "identity" => card = CHOOSE c \in IdNumbers : TRUE
  /\ area # "market" => query = CHOOSE q \in Queries : TRUE

\* What belongs to another service stays as it is.
Apart ==
  /\ area \notin {"checkpoints", "project", "issues", "watch"} => UNCHANGED job
  /\ area \in {"watch", "identity"} => UNCHANGED run
  /\ area \in {"billing", "checkpoints", "project", "workers", "identity"} => UNCHANGED faults
  /\ area \in {"bell", "drafting", "watch", "identity", "market"} => UNCHANGED raced
  /\ area # "reviews" => UNCHANGED reviews
  /\ area # "billing" => UNCHANGED billing
  /\ area # "attendance" => UNCHANGED attendance
  /\ area # "checkpoints" => UNCHANGED checkpoints
  /\ area # "project" => UNCHANGED projects
  /\ area # "accounts" => UNCHANGED accounts
  /\ area # "workers" => UNCHANGED workers
  /\ area # "issues" => UNCHANGED issues
  /\ area # "bell" => UNCHANGED bell
  /\ area # "advisor" => UNCHANGED advisor
  /\ area # "drafting" => UNCHANGED drafting
  /\ area # "watch" => UNCHANGED watch
  /\ area # "catalogue" => UNCHANGED catalogue
  /\ area # "board" => UNCHANGED board
  /\ area # "companies" => UNCHANGED companies
  /\ area # "identity" => UNCHANGED identity
  /\ area # "market" => UNCHANGED market

Next ==
  /\ UNCHANGED area
  /\ \/ area = "reviews" /\ Review!Next
     \/ area = "billing" /\ Invoice!Next
     \/ area = "attendance" /\ Checkin!Next
     \/ area = "checkpoints" /\ Checkpoint!Next
     \/ area = "project" /\ Plan!Next
     \/ area = "accounts" /\ Login!Next
     \/ area = "workers" /\ Person!Next
     \/ area = "issues" /\ Report!Next
     \/ area = "bell" /\ Notice!Next
     \/ area = "advisor" /\ Aide!Next
     \/ area = "drafting" /\ Editor!Next
     \/ area = "watch" /\ Alarm!Next
     \/ area = "catalogue" /\ Setup!Next
     \/ area = "board" /\ List!Next
     \/ area = "companies" /\ Firm!Next
     \/ area = "identity" /\ Identity!Next
     \/ area = "market" /\ Finder!Next
  /\ Apart

Spec == Init /\ [][Next]_vars

\* Time passes, the jobs and timers run, Redis drops keys that expire, and the requests of
\* the pages that poll or save are answered.
FairSpec ==
  /\ Spec
  /\ WF_<<run, attendance>>(area = "attendance" /\ Checkin!Clock)
  /\ WF_<<run, accounts>>(area = "accounts" /\ Login!Limiter)
  /\ WF_<<job, issues>>(area = "issues" /\ Report!Job)
  /\ WF_<<job, watch>>(area = "watch" /\ Alarm!Jobs)
  /\ WF_<<run, bell>>(area = "bell" /\ Notice!Poll)
  /\ \A op \in {"poll", "list", "mark", "all"} :
       WF_<<run, bell>>(area = "bell" /\ Notice!Goes(op))
  /\ WF_<<run, drafting>>(area = "drafting" /\ Editor!Page)
  /\ WF_<<run, drafting>>(area = "drafting" /\ Editor!Serve)
  /\ \A f \in Firms : WF_<<run, companies>>(area = "companies" /\ Firm!Ages(f))

-----------------------------------------------------------------------------
(* Properties; each is stated and explained in the module it is about.       *)

\* What every variable of the service at work ranges over.
TypeOK ==
  /\ area = "reviews" => Review!TypeOK
  /\ area = "billing" => Invoice!TypeOK
  /\ area = "attendance" => Checkin!TypeOK
  /\ area = "checkpoints" => Checkpoint!TypeOK
  /\ area = "project" => Plan!TypeOK
  /\ area = "accounts" => Login!TypeOK
  /\ area = "workers" => Person!TypeOK
  /\ area = "issues" => Report!TypeOK
  /\ area = "bell" => Notice!TypeOK
  /\ area = "advisor" => Aide!TypeOK
  /\ area = "drafting" => Editor!TypeOK
  /\ area = "watch" => Alarm!TypeOK
  /\ area = "catalogue" => Setup!TypeOK
  /\ area = "board" => List!TypeOK
  /\ area = "companies" => Firm!TypeOK
  /\ area = "identity" => Identity!TypeOK
  /\ area = "market" => Finder!TypeOK

\* review.service.ts: no review is on the public page before both sides have given theirs,
\* and the worker's rating counts every one by a company.
ReviewsHold == area = "reviews" => Review!VisibleAfterBoth /\ Review!RatingCountsAll

\* invoice.service.ts: no more is invoiced than was settled.
BilledWithinSettled == area = "billing" => Invoice!BilledWithinSettled

\* checkin.service.ts: a day is decided once, by the company or by the nightly job.
\* checkpoint.service.ts: submissions and reviews take turns, a limited number of times.
\* issue.service.ts, sla-monitor.cron.ts: what was answered in time is not marked.
\* risk-level.cron.ts, notification-cleanup.cron.ts: the author of a task is told of the risk it
\* shows, and of the newest notices none is deleted.
SubmissionsHold ==
  /\ area = "attendance" => Checkin!DecidedOnceUnlessRaced
  /\ area = "checkpoints" => Checkpoint!RoundsUnlessRaced
  /\ area = "issues" => Report!MarkedUnlessRaced
  /\ area = "watch" => Alarm!AlarmIsTold /\ Alarm!NewestKeptUnlessTied

\* project.service.ts: what is tied to a milestone is in the project, and a completed
\* milestone stays completed.
MilestonesHold ==
  area = "project" =>
    Plan!TiedInProjectUnlessDrafted /\ Plan!CompletedStaysUnlessRaced

\* subaccount.service.ts: the company keeps a super admin, and its accounts are told apart
\* by their numbers.
\* auth.service.ts: a worker has one wallet, and a number, a card and a profile of their own.
\* A number with a mistake in it verifies nobody.
\* platform.service.ts: a company at work was approved, and the log tells what became of it.
\* task-template.service.ts: a company's settings keep to their limits and have nothing twice.
AccountsHold ==
  /\ area = "accounts" =>
       Login!AdminRemainsUnlessRaced /\ Login!OneNumberEachUnlessRaced
  /\ area = "workers" =>
       Person!OneWalletEach /\ Person!OneOwnerUnlessRaced /\ Person!ProfileUnlessRaced
  /\ area = "catalogue" =>
       /\ Setup!LimitUnlessRaced /\ Setup!PresetOnceUnlessFailed
       /\ Setup!RolesFollowUnlessStopped
  /\ area = "companies" => Firm!ActiveWasApproved /\ Firm!LogTellsStatusUnlessRaced
  /\ area = "identity" =>
       Identity!MistakeIsRefused /\ Identity!CardPasses /\ Identity!OneAccountUnlessX

\* ai.service.ts: a model is given the conversation the user sees, and an agent keeps the
\* model that was saved for it.
AdviceHolds ==
  area = "advisor" => Aide!ContextUnlessStrayed /\ Aide!KeepsPresetUnlessRaced

\* TaskCreatePage.vue: one visit makes one task, and what every save sends is published as it
\* was shown: the title, the budget and the roles.
\* TaskListPage.vue: what is shown is what was asked for, and what is said to fail has failed.
\* pages/marketplace/index.tsx: the list is of one query, without repetitions.
DraftsHold ==
  /\ area = "drafting" => Editor!OneTaskUnlessMixed /\ Editor!SentIsPublishedUnlessMixed
  /\ area = "board" => List!ShownAsAskedUnlessRaced /\ List!FailureIsTrueUnlessLeft
  /\ area = "market" => Finder!OneQueryOnceClean

\* Nothing waits for ever: a day for its decision, an address for being let in again, an
\* issue for an answer or the job, the bell for its number, a draft for being saved, a level
\* of risk for being put right, silence for being told of, a disabled clerk for the end.
WaitingEnds ==
  /\ area = "attendance" => Checkin!PendingIsDecided
  /\ area = "accounts" => Login!BlockEnds
  /\ area = "issues" => Report!LateIsMarked
  /\ area = "bell" => Notice!BadgeSettles
  /\ area = "drafting" => Editor!AutosaveCatchesUp
  /\ area = "watch" => Alarm!LevelCatchesUp /\ Alarm!SilenceIsTold
  /\ area = "companies" => Firm!DisabledIsLoggedOut

\* The comment on syncPhaseFromTasks of project.service.ts: the phase does not go back.
SyncNeverGoesBack == [][area = "project" => Plan!SyncGoesForward]_vars
=============================================================================
