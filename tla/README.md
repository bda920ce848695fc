# WeCreator: a TLA+ model

WeCreator is a platform on which companies publish tasks, hire gig workers for
the roles of a task, accept their work and pay for it. The logic is in one NestJS
service, `src/apps/backend/src` (TypeScript, Prisma on MySQL, Redis, MongoDB for
messages). Two web consoles and a mini program are clients of its REST interface; most of
their pages fetch, show and submit, and a few keep something between requests: a
session, a conversation, a draft, a counter.

This directory holds a formal model of the service and of those pages: TLA+ modules, TLC
configurations that model-check them on small instances, and TLAPS proofs of the
main safety properties for instances of every size. `PROJECT.json` lists the runs,
the lines every definition stands for, the hazards, and the theorems.

Paths below are relative to `src/apps/backend/src/modules/` unless they start with
`src/` or name a file of a client.

## 1. How the program runs, and how the model does

* One Node process runs many asynchronous handlers. Between two `await`s of a
  handler nothing else runs; at an `await` any other handler may. In the modules a
  handler is cut into the steps between the awaits that matter. What it has read
  before an `await` and uses after it is its *continuation*: a record `req[h]` in the
  larger modules, where a free handler is `Idle`, and a member of the set `run` in the
  smaller ones.
* One SQL statement is atomic. `prisma.$transaction(async tx => ...)` reads a
  snapshot and commits all or nothing. An `updateMany({ where: { version } })` looks
  at the current row, so it counts 0 when another transaction has been faster.
  Transactions with such an update are two steps, *read* and *commit*.
* Columns are checked *before* a transaction or another statement in most handlers
  (`getTaskOrThrow`, then `task.update({ where: { id } })`). This is where stale reads
  come from, and the models keep the two apart everywhere.
* A restart loses continuations and timers and keeps rows and Redis keys.
* A client is one thread of callbacks as well. Its requests are answered in any order, may
  be lost on the way there or back, and are not cancelled when a page is left or a user
  logs out; an answer writes to the variables there are by then.
* Amounts are integers, in fen (1/100 yuan). Rounding is modelled as the code does it, with
  what double arithmetic does to it: `LockAmount` is one fen more for the budgets whose product
  overshoots a whole number of fen (`RoundsUp`), and `NetAmounts` holds both values `Math.floor` can
  give where the exact product is a whole number of fen.

## 2. Inventory

| component | code | state | operations | hard because | model |
|---|---|---|---|---|---|
| Company funds | finance/finance.service.ts | company balance, lockedBalance, version; recharge and settlement rows | createRecharge, handlePayCallback, lockFund, payForTask | repeated callbacks, stale status, optimistic versions | `CompanyFunds` |
| Settlement | finance/settlement.service.ts | assignment status, wallet, locked balance | triggerSettlement, unlockAfterSettlement, dailyReconciliation | three writes without a transaction, repeated calls | `CompanyFunds`, `Wallet`, `Dispute` |
| Worker wallet | wallet/wallet.service.ts | availableBalance, frozenBalance, version; withdraw rows; timers | withdraw, completeWithdraw, settleToWorker, getWallet | expiring lock, in-memory timer, ignored counts | `Wallet` |
| Redis lock | ../common/redis-lock.service.ts | key with owner token and TTL | acquire, release, withLock | expiry while the owner still works | `Wallet` |
| Recruitment | assignment/assignment.service.ts, task/marketplace.controller.ts | role_assignments, task_applications, task status | inviteWorker, acceptInvite, rejectInvite, apply, reviewApplication | count, await, insert; expiry; races with cancelTask | `Recruitment` |
| Task life cycle | task/task.service.ts, task/task-status.machine.ts | task status, budget, roles; assignments; deliverables | create, updateDraft, setTaskRoles, publish, cancel, delete, progress, deliverables, acceptance | status read before an await and written by id | `TaskLifecycle` |
| Disputes | dispute/dispute.service.ts, platform/ | dispute status, evidence list, money | create, addEvidence, accept, resolve, cancel | check outside the transaction, money moved twice | `Dispute` |
| Check-ins | checkin/checkin.service.ts | a row per assignment and day | checkin, checkout, confirm, auto-confirm | job against people, missed nights | `Attendance` |
| Invoices | finance/invoice.service.ts | invoices against settled amounts | apply, issue, reject | check then insert; decisions by id | `Billing` |
| Checkpoints | task/checkpoint.service.ts | status, revision count | create, submit, review, delete; overdue job | the job overwrites people; limits compared first | `Checkpoints` |
| Issues | task/issue.service.ts | status, first response, SLA mark | create, update; SLA job | the job marks what has been answered since | `Issues` |
| Projects, milestones | project/project.service.ts | status, phase, milestones, the tasks tied to them | create, rebind, complete, delete, sync from tasks; overdue job | derived phase, half-done creation | `Project` |
| Reviews | review/review.service.ts | two reviews per assignment, their visibility, the worker's average | submit | each of the two has to see the other | `Reviews` |
| Company accounts | auth/subaccount.service.ts, auth/auth.service.ts | users, roles, phones; a Redis counter per address | create, update, setStatus, remove, login | limits counted first; INCR and EXPIRE | `Accounts` |
| Companies | auth/auth.service.ts, platform/platform.service.ts, CompanyListPage.vue | status and approval, audit log, the list of the staff; a clerk's tokens | register, approve, reject, freeze, unfreeze, login, renewal | decisions from an old list; three places that check a status, each its own | `Companies` |
| Identity cards | auth/auth.service.ts, the page verify | numbers by which accounts are verified | type, check, hash | two tables of constants; x and X | `IdCard` |
| Workers | auth/auth.service.ts | worker, wallet, roles, works | login, bindPhone, verifyIdentity, roles, portfolio | uniqueness by look-up | `Workers` |
| Messaging | message/, the chat panel and message page | Mongo messages, two screens | list, send, read | answers out of order over one screen | `Chat` |
| Sessions | both request layers, user stores, router guard, launch check, unread poller | tokens, a refresh, a queue, a badge | login, logout, refresh, retry, tick | many requests behind one refresh, late answers | `ClientSession` |
| Notifications | notification/company-notification.service.ts, NotificationBell.vue | rows with a read flag, a counter | create, list, markRead, poll | two counts of the same thing | `Bell` |
| Assistants | ai/ai.service.ts, TaskCreatePage.vue, AgentListPage.vue | agents, presets, histories in memory, a conversation | agents and presets, chat | slow answers, time-outs, restarts, change of agent | `Advisor` |
| Writing a task | TaskCreatePage.vue with task/task.service.ts | form, draftId, timer, draft rows | autosave, save, publish, load | chains of requests that overlap | `Drafting` |
| Watching tasks | scheduler/risk-level.cron.ts, daily-missing.cron.ts, notification-cleanup.cron.ts | risk level, notices | compute, remind, tell, delete | two steps per task, a restart between them, ties | `Watch` |
| Settings of a company | task/task-template.service.ts, RoleConfigPage.vue, SkillConfigPage.vue, CheckpointConfigPage.vue | roles and templates, skills, checkpoints; a list and a preset | create, rename, delete, restore, presets | limits counted first, presets that stop half way | `Catalogue` |
| List of tasks | TaskListPage.vue | list, two drawers | filter, open, accept, refuse, pay, cancel | answers out of order, drawers left during a request | `Board` |
| Market of tasks | marketplace/index.tsx | filters, keyword, a list that grows by pages | choose, search, scroll | timers that call what an earlier rendering has captured | `Market` |
| Other jobs | scheduler/ | the rows above | overdue, SLA, milestones, auto-confirm | overlap with handlers, missed runs | with their rows |
| Weekly settlement, contracts, numbers, analytics, recommendation, files, wiring | checkin/weekly-settlement.service.ts, contract/, ../common/, analytics/, task/, file/ | - | - | see section 7 | - |

What has to be right, by component: the money of a company is never reserved twice and
its rows explain its balance; a worker cannot take out more than there is and does get
what was asked for; a role never holds more people than seats; a task goes through
its stages in order; a dispute moves money once; a day of work is decided by one
side; invoices never exceed what was settled; a checkpoint that was handed in is not
overdue; what is tied to a milestone is in the project; reviews appear together on the public page; a company
keeps a super admin; a company at work has been approved, and who was disabled is out in the end; a
card belongs to one worker, and none is mistaken for another; a message is shown once and under its
title; an expired token costs nobody the session; the bell shows how many are
unread; a model is given the conversation the user sees; one visit to the page makes one
task, and the title, the budget and the roles that are published are those that were shown; who owns a task at risk has been told; a
company keeps to its limits and gets nothing twice; a list shows what was asked for, and each of it once.

Interactions: `acceptTask` and `payForTask` hand the task from its life cycle to the
company's funds; `triggerSettlement` pays the wallet and unlocks the funds; `acceptInvite`
and `reviewApplication` move the task's status; a verdict credits the wallet, or refunds
the company, by statements that bypass the version, and completes the assignment;
`acceptInvite` moves the phase of the project, `createTask` and `updateDraft` tie tasks to
milestones; the settlement rows limit the invoices. All of it goes through database rows.
The clients meet the service in the requests of `Chat`, `ClientSession`, `Bell`, `Advisor`,
`Drafting`, `Catalogue`, `Board` and `Companies`, in which both ends are modelled, and those of
`Market`, in which the service only reads.

## 3. Modules

| module | what it is |
|---|---|
| `CompanyAccount` | abstract: a deposit account with reservations, which `CompanyFunds` and `Wallet` implement |
| `CompanyFunds` | the handlers on a company's money; `ImplementsAccount` is the refinement |
| `Wallet` | the handlers, the lock and the timer on a worker's wallet |
| `Recruitment` | filling one role of a task |
| `TaskLifecycle` | the status of one task and the work on it |
| `Dispute` | the disputes about the assignments of one task, the verdicts and the settlement |
| `Chat` | the message store and the two clients that poll it |
| `ClientSession` | tokens, requests, refresh and badge of a client |
| `Reviews`, `Billing`, `Attendance`, `Checkpoints`, `Issues`, `Project`, `Accounts`, `Workers`, `IdCard`, `Watch` | the smaller services and jobs |
| `Bell`, `Advisor`, `Drafting`, `Catalogue`, `Board`, `Companies`, `Market` | a service and the page that calls it |
| `Services` | the seventeen of the last two lines, put together |
| `MC<module>` | instances for TLC |
| `<module>_proofs` | theorems; those about the seventeen areas of `Services` are in `Services_proofs`. The three modules with amounts (`CompanyFunds_proofs`, `Wallet_proofs`, `Services_proofs`) begin with the same few lemmas about the sum of a function over a finite set |
| `Services_invariants` | the inductive invariant of each area of `Services`, and the kinds its steps are sorted into |

### CompanyFunds

`balance`, `locked`, `version` are the company row, `recharge` the recharge rows by
number, `task` the status and `lockedAmount` of each task, `ledger` the sums of the
completed transaction rows by type. `credits` is history.

| action | code |
|---|---|
| CreateRecharge | createRecharge |
| CallbackCheck, CallbackRead, CallbackCommit | handlePayCallback: status check outside, versioned update inside the transaction |
| LockFundRead, LockFundCommit | lockFund: amount compared with what is free, versioned update |
| AcceptTaskRead, AcceptTaskWrite | acceptTask, which opens a task for payment |
| PayCheck, PayRead, PayCommit | payForTask |
| UnlockRead, UnlockUpdate, UnlockRecord | unlockAfterSettlement, no transaction |
| VerdictRead, VerdictRefund | a verdict for the company, or a split (dispute.service.ts:316); any amount up to what is locked |
| Conflict, Fail | the update counts 0 and the handler throws; a restart or database error |

`CompanyAccount` has no handlers and no versions: Deposit, Reserve (only of what is
free), PayReserved, PayUnreserved, Release. The refinement maps `balance`, `locked` and
the unsecured settlements, and says that every interleaving of the handlers is one
of atomic account operations. The wallet of a worker implements the same account, with
`avail + frozen` on it and `frozen` reserved: a withdraw is a Reserve, its completion a PayReserved
(or nothing, when the versioned update counts 0), a settlement and a verdict a Deposit, and nothing
is ever paid without a reservation.

### Wallet

`avail`, `frozen`, `version`, `earned` are the wallet row (`version = NoWallet` while it does
not exist), `withdrawal` the withdraw rows, `timer` the pending `setTimeout`s, `lock` and
`lapsed` the Redis key and the handlers whose lease has run out.

withdraw is WithdrawAcquire, WithdrawRead, WithdrawCommit, WithdrawSchedule (or
WithdrawReject), WithdrawRelease; its completion CompleteRead, CompleteCommit or
CompleteError; settleToWorker is SettleRead, SettleCommit or SettleConflict; a verdict
credits by UpsertCredit; getWallet creates the row by GetWalletRead, GetWalletCreate.
LockExpire and Restart happen at any time.

### Recruitment

`rows` is the table role_assignments of one role, in the order of ids, `application` the
row of each worker in task_applications, `status` the task. Each handler is two to five
steps: check, count or look up, write. SlotTaken is the unique index on
(task_role_id, slot_index): an insert that meets it throws (Refuse). Lapse is the moment an
invitation's `expiredAt` passes.

### TaskLifecycle

`status`, `total`, `roles` (a generation, because setTaskRoles deletes and makes the rows
anew, whether there are any, and the sum of their budgets, each of which may be 0), `seat` (an application
or an invitation, and the assignment it becomes), `work` (deliverables), `was` (history of statuses),
`settled` and `ruled` (history: the assignments that were paid for, and those with a verdict).
cancelTask, approveTask, rejectAcceptance, acceptTask, forceCloseTask, requestAcceptance,
payForTask and publishTask all end in `task.update({ where: { id }, data: { status } })`:
MoveWrite, with the reads apart. reviewApplication moves the task in its own
transaction (HireWrite); acceptInvite writes the assignment, reads the task and moves it
(AcceptWrite, AcceptStart, MoveWrite). Three handlers complete an assignment: reviewDeliverable
(ReviewMark, ReviewComplete), triggerSettlement, which asks for an accepted or completed assignment and for
nothing handed in (SettleRead, SettlePay, SettleComplete), and resolveDispute (VerdictRead,
VerdictWrite); what they do to money and to the dispute is in `Wallet`, `CompanyFunds` and `Dispute`.
updateProgress writes by id the percentage it compared with an older one (ProgressRead, ProgressWrite).
Foreign keys keep roles somebody has applied for
or is invited to (`Claimed`). Which seat goes to whom is left to Recruitment.

### Dispute

`dispute`, `about`, `by` and `files` are the columns of the table disputes, `taskStatus` and
`locked` those of the task the verdicts read, `assignment` the status of each assignment.
`moved` (what verdicts paid to either side), `accepted` and `raced` are ghosts: no
guard reads them.

| action | code |
|---|---|
| CreateReadTask, CreateLookup, CreateWrite, CreateRefuse | createDispute: the task's status, the look-up of an open dispute, the insert |
| EvidenceRead, EvidenceWrite | addEvidence: the merged list is made from the list read and written by id |
| AcceptRead, AcceptWrite | acceptDispute, in dispute.service.ts and in platform.service.ts |
| ResolveRead, ResolveReadTask, ResolveCommit | resolveDispute of dispute.service.ts: status, task and amount are read before the transaction |
| PlatformResolveRead, PlatformResolveWrite | resolveDispute of platform.service.ts: pending disputes too, and no money |
| CancelRead, CancelWrite | cancelDispute |
| SettleRead, SettlePay, SettleComplete | triggerSettlement up to unlockAfterSettlement |
| ReviewRead, ReviewWrite, TaskAdvance, PayRead, PayCommit | what reviewDeliverable, the task's life cycle and payForTask do to the rows that disputes read |

Every write of a dispute is by id, so two handlers of one assignment that overlap can do
nearly anything: open two disputes, decide one twice, decide one that was just withdrawn, lose
a file. `raced` is the set of assignments of which that can be said, and the properties with
*UnlessRaced* speak of the others, for which any sequence of calls at either console, in
any order and with other handlers (settlement, review, payment, other assignments)
interleaved, has to be right. That only disputes that have been under investigation move money
(part of MovedOnceUnlessRaced) has no such condition.

### Chat

`log` and `readBy` are the stored messages of each conversation and who has read them,
`scr` the screen of each side, `net` the reading requests under way, `sent` the messages
with what came back of them. Of a screen `title` is the conversation the user sees,
`target` the one the panel has opened on the server, `timer` what the five-second timer
fetches, `shown` the list, in which a message that is being sent is a bubble.

| action | code |
|---|---|
| OpenPanel, AnswerOpen | bootstrap of ImChatPanel.vue: openConversation, then the history |
| OpenPage, ClosePage, ShowAgain | openConversation, closeConversation, useDidShow of the message page |
| Tick | the timers of both |
| Serve | listMessages: marks as read, then answers |
| AnswerList | loadHistory: the panel merges the list with its bubbles, the page overwrites |
| FailRead | a list that fails |
| Send, Store, SendOk, SendFail | sendMessage: the bubble, the store, and the two ends; a failed one may be stored |

The filters of the panel are `Kept`: what is left of a list at the places that pass, in their order.

### ClientSession

`app` says whether a behaviour is of the console or of the mini program: the two have the
same design with different details, and each disjunct names the side it is about. `store`
holds the tokens and the user, `req` the requests, `refresh` the account whose refresh token
is being exchanged, `badge`, `last` and `running` what the poller of the mini program keeps.

| action | code |
|---|---|
| LoginSend, LoginOk, LoginFail | login and its 401; the console clears the storage for it |
| Logout, Navigate, Restart | logout, beforeEach of the router, a launch of the app with its check of the profile |
| Ask, Tick, TickOut, ShowOrHide | a request, a tick of the poller with or without a token, front and background |
| Served, Unauthorized | an answer, and a 401: refresh, queue behind the refresh, or retry |
| Refreshed, RefreshFails | the end of the exchange, with all that waits for it |
| Expire, Disable | tokens run out, an account is disabled |
| Lost | a request without an answer |

### Services and its seventeen modules

These write different tables, and none of their handlers calls one of another module, so an
interleaving of two of them shows nothing that each alone does not. `Services` therefore lets
`area` pick one of them for a behaviour and leaves the others where they start (`Apart`).
The modules have the calls under way in `run`, each with what it has read; `raced` collects the
rows on which two calls, or a call and a job, were under way together. A call that fails
its check is not started, one that is refused later ends.

| module | state | actions and code |
|---|---|---|
| `Reviews` | visibility of the review of each side; who is counted in avgRating | _submitReview: Begin, LookOther, Create, Show, and updateWorkerAvgRating: Sum, Rate; Stop is a failure between two of them |
| `Billing` | sum of settlements, invoices | Settle (payForTask); ApplyRead, ApplyWrite; DecideRead, DecideWrite (issue, reject) |
| `Attendance` | the row of each day, `today` | CheckinRead/Write, CheckoutRead/Write, ConfirmRead/Write; NightRead/Write (autoConfirmCheckins at 02:30, which looks at yesterday), NightFail, Tomorrow; Close (the assignment completes) |
| `Checkpoints` | status, revisionCount, `late` | Create, Submit, Review, Delete, each read and write; JobRead, JobMark (checkpoint-overdue.cron.ts) |
| `Issues` | status, firstResponseAt, slaBreached, notices | Create; UpdateRead, UpdateWrite; JobRead, JobMark, JobTell (sla-monitor.cron.ts); Restart |
| `Project` | project, milestones, tasks tied to them | updateProjectStatus, syncPhaseFromTasks (Accept, SyncRead, SetWrite), createMilestone (CreateRead, CreateWrite, LinkWrite), updateMilestone (Rebind), complete, delete (Drop), deleteProject; CreateTask, SaveDraft; JobRead, JobMark (milestone-remind.cron.ts) |
| `Accounts` | status, role, phone of each account; the Redis counter | Create, Role, Status (setStatus, remove), each read and Write; LoginRead, LoginGood, Count, SetExpiry (recordLoginFailure), KeyExpires, Stop |
| `Workers` | worker, wallet, roles, works of each person | LoginRead, Register (loginWorker); BindRead, Bind (bindPhone); VerifyRead, Compare, Refuse, Verify (verifyIdentity); RoleRead, AddRole; WorkRead, AddWork; DeleteRole, DeleteWork |
| `Bell` | rows and their isRead; `items` and `count` of the bell | Create; Poll, Open, Click, MarkAll (the page); Serve (list, markRead, unreadCount, the parts of a list in any order); Answer, Fail |
| `Advisor` | agents, presets; `history` of each session; `talk` | Choose, Ask, Answer, Refused, GiveUp (the pages); Look, NotFound, ModelAnswers, Fail (chat), Restart; Save, Toggle, Delete, Drop (agents and presets), each read and Write |
| `Drafting` | `form`, `draft`, `timer`; the rows; saves under way | Open, Load, LoadFails, Leave, Edit, AutoSave, Press (the page); Create, Write, Refuse (createTask, updateDraft, setTaskRoles, publishTask); Answered, Goes (what the page does next), Fail |
| `Watch` | progress, last report and level of each item; notices of its author | Report, Close (people); RiskRead, RiskWrite, RiskTell (every hour); MissingRead, MissingLook, MissingTell (at 9); Expire, TrimLook, Trim (at 2); ReadAll (markRead), Clock, Restart |
| `Catalogue` | one of three tables; the list and the preset of its page | Request, Count, LookUp, Create, Restore, RenameFind, Rename, Delete; Save, Discard, Use, UseRoles (templates); Press, Post, Load, LoadFails (the page); Lost, Stop |
| `Board` | status of each task; filter, list and both drawers | Choose, OpenTask, OpenApplications, Press (the page), Serve, Deliver; ShowList, ShowDetail, ShowApplications, Pressed, ShowAgain, Fail |
| `Companies` | status, approvedAt and last line of the audit log of each company; its row in a list; a clerk and the session | RegisterRead, RegisterWrite; Load, ShowList (the page); RulingRead, RulingWrite, Log (approveCompany, rejectCompany, freezeCompany), Stop; SetStatus; LoginRead, LoginWrite; RenewRead, RenewAnswer (refreshToken), Expire |
| `IdCard` | a card, what is typed, what the verified accounts were verified with | TypeRight, TypeWrong, TypeSwapped (the worker), verifyIdentity with validateIdCard |
| `Market` | filters, the list, its last page, whether one is awaited; timers with what they have captured | Show, Scroll, Type, Choose (the worker), Fire, Answer, Fail |

In `Drafting` the fields of the form are told apart by what becomes of them. Title and budget
are in every save and watched by the timer; description, dates and address are not sent when
empty (`extra`); mode, priority, acceptance criteria, project and milestone are sent when the task is
created and never again (`kept`); role, headcount and budget of the role are watched, and sent when a role is
chosen; its skills and description go with them (`tags`). Of the fields that are not in every save only the
description and the mode are watched, so a change of `extra` or `kept` may start the timer or not, and one
of `tags` does not. A save reads the text of the form when it starts, the roles when
their request goes out, and `draftId` again between its requests, as the code does; after the page is left
its variables stay those of that visit, while navigation and messages act on the page that is
open. In `Project` the deletion of a project sets to null what points to its milestones (the
foreign key of tasks is ON DELETE SET NULL, migration 20260427050000, line 9), so it succeeds also when a task
of no or another project is tied to one. In `Advisor` a request carries the session the page had when it was sent, while its
answer writes the session, the answers shown and aiLoading of the page as it is by then; of the lines of
a conversation the page is asked for two things, how many questions there are (`rounds`) and which were
answered (`answered`). In `Watch`
the hourly job reads all tasks in one query and then writes and tells one after the other; a
day ends when its jobs are over, and a restart loses what they had found. In `Catalogue` the
three tables are served by handlers of the same shape, and a behaviour is about one of
them (`kind`); where they differ, the action says so: roles share their table and their names with
templates, deleted skills come back, checkpoints have no unique name.

## 4. Runs

Passing runs check everything they list in every reachable state of the instance.

| run | instance | shows |
|---|---|---|
| funds | 2 handlers, 1 task, 1 recharge, budgets 1.00 and 2.25, 6 calls (1.0 M states) | TypeOK, NeverOverReserved, LedgerExplainsBalance, CreditsBoundedByOverlap (which includes: completed iff credited), and the refinement ImplementsAccount |
| wallet | 2 handlers, 2 withdrawals of 1.00, settlements of 2.00, 5 calls, 1 fault (0.5 M) | TypeOK, RowsExplainAvailable (available, which is never negative, and frozen), LeaseIsExclusive, and the refinement ImplementsAccount; live: WithdrawalCompletes |
| recruitment | 2 handlers, 2 workers, headcount 2, 5 calls, 1 restart (0.2 M) | TypeOK, NeverOverstaffed, NoSecondInvitation; live: AcceptedStartsTask |
| task | 2 handlers, 1 seat, budgets 0, 1 and 2, 8 calls (1.6 M) | TypeOK, NoStageSkipped, CompletedHasReason, ClaimedHasRoles |
| dispute | 2 handlers, 2 disputes, 2 assignments, 2 files of which 1 fits, 5 calls, 1 restart (2.0 M) | TypeOK, OneOpenUnlessRaced, MovedOnceUnlessRaced, EvidenceKeptUnlessRaced |
| chat | 2 conversations, pages of 1 message, 2 openings, 2 messages, 1 fault (0.5 M) | TypeOK, ShownOnceAndRead, UnderTitleUnlessRaced; live: Settles |
| session | 2 accounts, 2 requests at a time, 3 actions of the user, 1 expiry, 1 loss (0.4 M) | TypeOK, OneAccountUnlessRaced, ExpiryKeepsSession; live: RequestsSettle, BadgeGoesOut |
| services | below (1.3 M) | TypeOK, ReviewsHold, BilledWithinSettled, SubmissionsHold, MilestonesHold, AccountsHold, AdviceHolds, DraftsHold; live: WaitingEnds |

The properties of `services` are conjunctions over the areas; each part is stated and
explained in its module:

* ReviewsHold: VisibleAfterBoth, RatingCountsAll. BilledWithinSettled: that of `Billing`.
* SubmissionsHold: DecidedOnceUnlessRaced (`Attendance`), RoundsUnlessRaced (`Checkpoints`),
  MarkedUnlessRaced (`Issues`), AlarmIsTold, NewestKeptUnlessTied (`Watch`).
* MilestonesHold: TiedInProjectUnlessDrafted, CompletedStaysUnlessRaced (`Project`).
* AccountsHold: AdminRemainsUnlessRaced, OneNumberEachUnlessRaced (`Accounts`), OneWalletEach,
  OneOwnerUnlessRaced, ProfileUnlessRaced (`Workers`), LimitUnlessRaced, PresetOnceUnlessFailed,
  RolesFollowUnlessStopped (`Catalogue`), ActiveWasApproved, LogTellsStatusUnlessRaced (`Companies`),
  MistakeIsRefused, CardPasses, OneAccountUnlessX (`IdCard`).
* AdviceHolds: ContextUnlessStrayed, KeepsPresetUnlessRaced (`Advisor`).
* DraftsHold: OneTaskUnlessMixed, SentIsPublishedUnlessMixed (`Drafting`), ShownAsAskedUnlessRaced,
  FailureIsTrueUnlessLeft (`Board`), OneQueryOnceClean (`Market`).
* WaitingEnds: PendingIsDecided (`Attendance`), BlockEnds (`Accounts`), LateIsMarked (`Issues`),
  BadgeSettles (`Bell`), AutosaveCatchesUp (`Drafting`), LevelCatchesUp, SilenceIsTold (`Watch`),
  DisabledIsLoggedOut (`Companies`).

Runs that end in a violation check a sentence of the repository's documents or comments which
the code does not keep; each is a finding.

| run | sentence | what happens |
|---|---|---|
| funds_refund | a verdict for the company unlocks the money and gives it back | _unlockToCompany adds to a balance that locking never took from, and leaves it locked |
| dispute_ruling | after a ruling the money moves by itself | the platform's console writes the status only, and nothing moves money for a closed dispute |
| session_launch | on a network error the token is kept for the next attempt (wx-login.ts:158) | the check at launch clears the storage whenever the profile could not be fetched (app.tsx:24) |
| project_phase | the phase never goes back, and a later one set by people is not overwritten (project.service.ts:505) | syncPhaseFromTasks writes by id what it compared with an older phase (:535) |

Further disagreements of the same kinds were met and are not runs of their own.

* Funds and wallet: a repeated callback that passes the status check before the first
  commits credits twice (test/payment-flow.e2e-spec.ts:94 expects once); two payForTask calls
  that overlap pay twice (finance.service.ts:231); unlockAfterSettlement that loses the
  version race, or fails half-way, leaves lock and unlock rows that do not explain
  lockedBalance (settlement.service.ts:65); a withdrawal stays in processing after a restart
  (PRD, line 2761, wants it rolled back); completeWithdraw that loses the race marks the
  row completed and leaves the amount frozen (wallet.service.ts:118); dailyReconciliation
  subtracts lock and unlock rows, which do not change the balance it compares with
  (settlement.service.ts:119).
* Recruitment and tasks: after a refusal the next slot number is taken by the refused row and
  the seat cannot be filled (assignment.service.ts:116; PRD, line 3170); an unanswered invitation
  never expires (assignment.service.ts:210); acceptInvite can bring a cancelled task back
  to life (:231); a worker who is invited and whose application is approved has two seats
  (marketplace.controller.ts:526); a handler that read the status before the payment takes a
  completed task back (task-status.machine.ts:30); requestAcceptance needs an accepted
  assignment when all are completed (task.service.ts:645); of two reports that compare with the same
  older progress the smaller one may be written last (:534, where the comment at :509 has progress only
  grow); triggerSettlement pays for and completes an accepted assignment of which nothing was handed
  in (settlement.service.ts:27; the comment at :23 says it is called after acceptance); setTaskRoles and deleteTask can act on a task that was published
  in between (:127, :458).
* Disputes and platform: two verdicts that overlap both move the amount, and so do
  verdicts on two disputes of one task one after the other, because lockedAmount stays
  (dispute.service.ts:183); a company cannot withdraw its dispute, which is filed under its
  companyId and compared with the caller's userId (dispute.controller.ts:29, :52; SameId in the
  model); withdrawals are not stopped during an arbitration (dispute.service.ts:10); the
  platform's refund, freezeTaskFund and rejectCompany write an audit row and nothing else, and
  its reviewWithdrawal moves no frozen money.
* Check-ins, projects: checkout overwrites the reason of a rejection; syncPhaseFromTasks is
  called by acceptInvite alone, though the comment at project.service.ts:504 names the
  acceptance of work, too; createMilestone leaves the milestone behind when one of the tasks is not the
  company's; createTask and updateDraft take a milestone of any project, and when that one is deleted the
  task loses it.
* Accounts and workers: a deleted user with the same phone is found first by the login's
  findFirst; refreshToken issues the old role again; a super admin may give the role up;
  loginWorker does not look at the worker's status; idCardHash is not unique and the phones of
  workers are compared by decrypting all of them, so that two calls together give one card
  or number to two workers; sortOrder is the count of works and repeats after a deletion.
* Sessions: a refresh that is under way at logout writes its tokens afterwards; one that
  fails late, or a late 401, ends a session that has begun since; after a new login with the
  same count the badge is missing; a disabled account keeps its access token for up to
  two hours; the 401 of a wrong password clears the storage.
* Messages: a late answer puts another conversation on the screen, and the panel can send
  under the wrong title; messages beyond the page of 50 are never marked read; a message whose
  sending failed may be stored; the gateway reads `type` from a token that has `userType` and so
  refuses everybody, and no client opens a socket, though
  src/docs/mp-devtools-test-guide.md:124 speaks of one; rooms and readBy use the bare ids
  of company users and workers, which overlap.
* Issues, notifications: any status may follow any other, though the header of
  issue.service.ts gives an order; only in_progress counts as a response; a restart between mark
  and notice loses the notice; notifications of type task_application are counted and
  never listed; a click counts down even if it failed, until the next poll.
* Assistants: after a change of agent a late answer brings the session of the first agent to
  the second, and chat does not compare the session's agent with the one it is asked for;
  the page gives up after 15 seconds while the server goes on for 30; an agent with
  sessions cannot be deleted; a preset deleted while an agent is saved with it leaves that
  agent without one; monthlyCallCount of an agent is never counted.
* Reviews: getReviews gives rating and comment of every review of an assignment to whoever asks,
  whatever isVisible says (review.service.ts:227), though reviews are to be visible when both sides have
  rated (schema.prisma:509; PRD, line 2333): VisibleAfterBoth is about the public page. Two reviews at a
  time do not find each other and stay hidden for ever (:155).
* Writing a task: what is filled in is to be saved as a draft by itself (PRD, line 631). An update is sent
  without taskMode, priority, acceptanceCriteria, project and milestone, and a description that was cleared
  is not sent, so what is published of these is what the task was created with. A role that was cleared
  stays, because setTaskRoles is not called without one. Dates, address, priority, criteria, and the tags and
  description of a role do not start the timer (TaskCreatePage.vue:689). loadDraft does not restore priority and
  criteria. When publishing is refused
  after create, draftId stays empty and the next attempt creates a second draft; the end
  of a save leaves whatever page is open by then.
* The list of tasks: the drawer of applications sends `approve` and `reject`
  (TaskListPage.vue:773, :836) where ReviewDto takes `approved` and `rejected`
  (marketplace.controller.ts:51), and its batch review has no endpoint, so that these buttons always
  fail (they are not modelled); a button whose drawer was left says it has failed; a
  cancellation that is refused says nothing; getTaskList filters by pending applications
  after it has taken the page (task.service.ts:202).
* Settings: a role without a description is neither listed nor counted, because NOT LIKE of
  a null is not true, so the limit of 50 (task-template.service.ts:346) does not bind it; a
  deleted role keeps its name for ever; a template shares its table and its unique
  names with the roles, and deleteCustomRole takes it for one; a preset chosen again after a
  failure posts checkpoints a second time.
* Cards: the hash that finds a card again, `用于快速查找去重` (auth.service.ts:345), is of the number as
  it was typed, and idCardHash is not unique in the schema; the check takes x for X, so a card that
  ends in X verifies two accounts. OneAccountUnlessX says what is left, and does not hold
  without its condition.
* Companies: freezeCompany takes a company that is pending, and unfreezing makes it active without
  an approval (platform.service.ts:150): ActiveWasApproved holds because the page offers to freeze
  what it shows as active alone. refreshToken does not look at the company (auth.service.ts:383), so
  whoever works for a frozen one keeps the session by renewing it, though loginEnterprise refuses them.
  reject leaves a company pending, and has no link.
* The market: the timer of a filter calls the loadTasks of the rendering before
  (marketplace/index.tsx:87), so the list is of the filter chosen before until it is searched
  or shown again, and two requests may be under way in spite of `loading`, so that a page of one query
  is appended to those of another. OneQueryOnceClean is what is left.
* Watching tasks: a job stopped between the level and the notice never tells; the clean-up
  deletes notices that are as old as the one at the limit, too.

### Bounds

Every bound is a constant. In the larger modules `MaxCalls` limits the handlers started in a
behaviour, and two
handlers are in flight at a time: every property is about what one handler has read and
another has written since, so two are enough for a race, and the calls for the races
that need a history (recharge, lock, accept, pay twice; publish, apply, hire, request,
accept, pay and a late writer). `MaxFaults` is 1: a fault loses everything in flight, so a
second one meets states of the same kind. A settlement of 2.00 pays out 1.84 or 1.83, enough for
one withdrawal of the minimum and not for two, so that overdrawing is possible if a guard
is missing. Budgets 1.00 and 2.25 are one for which `Math.ceil` is exact and one where the
double product overshoots. Headcount 2 with two workers lets a role be full, half full
and wrongly full. Two assignments let a race on one be told from calm on the other; two
disputes are the first and the next of an assignment; with room for one file of two, a list
is full or not; a locked amount of 2 can be split. Five calls are a whole dispute (create,
evidence, accept, resolve) and one more.

In `Chat` two conversations are the right and the wrong one, a page of one message lets the
second push the first out, two openings change the title once under a request. In
`ClientSession` two requests are the one that refreshes and the one that queues, two accounts
the old and the new one; three actions are login, request or logout, and login again.

In `Services` each area has the calls for two handlers to overlap and for a third to see
what they did (`MCCalls`), in `Checkpoints`, `Project` and `Catalogue` with no more than two under
way (`MaxOpen`): reviews 3, billing 4, attendance 3, checkpoints 6 (create, hand in,
send back, hand in, send back, and one more than the limit of 1 revision allows), project 3,
accounts 4, workers 4, issues 2, bell 2 (open, and a click or all read), advisor 3 (two
questions in one session and a third that is given their answers; a history of 1 round lets the
older go), drafting 1 button besides the timer, with 3 changes of the form, of which 1 of what not
every save sends or the timer does not watch (`MaxAside`), 2 visits and 2 saves at a
time: a title, a role and its tags, or a title and a role cleared again. Once saves have mixed, those
under way are followed to their end and nothing else happens (`Followed`): OneTaskUnlessMixed,
SentIsPublishedUnlessMixed and AutosaveCatchesUp say nothing of those behaviours. Days 1 to 3 are a day before
the job, its night and the next; three accounts are the limit and a fourth person meets it;
two wrong passwords block an address.

`Watch` has one item that is due on day 4 and three days, in which its level goes through
all three values and silence is long enough to be told of on each; one unread notice is kept, and one day; one
call; one restart. `Catalogue` has two names, both in the preset; limits of 1 role, 2 skills
and 3 checkpoints, so that a list can be full or hold something twice; three requests, two at a time. `Board` has two tasks
and two filters (the right and the wrong one), three clicks, one failure. `Companies` has one company, four
calls (register, approve, freeze, and one that overlaps), one list on its way. `IdCard` has four cards, of
which one ends in X, and every mistake of the two kinds in each; two numbers are sent, the right one
and another. `Market` has two queries of three pages, four actions and one failure: choose, search and
two scrolls.

Rows that a handler creates take the ids in one fixed order (`NextId`), as an autoincrement column
gives them: behaviours that differ in the names of new rows alone are not told apart.

That the bounds are large enough to matter is shown by a mutant for
every property: a plausible slip in one action (its *faulty variant* in the module) makes
the property fail under the same configuration. Deadlock is not checked: a bounded
behaviour ends, and in the program nothing forces users to call.

Symmetry is used where only safety is checked (invariants, step properties and the refinement;
handlers are interchangeable); runs with liveness properties have none.

### Fairness

`FairSpec` adds weak fairness for continuations (the event loop runs what is ready, and
database and Redis answer), for the timer of completeWithdraw, for the expiry of
the Redis key, and in Recruitment for time passing. In `Chat` the server answers and the timers
go on; in `ClientSession` requests are answered or time out (both request layers set a
time-out), a refresh ends, and the poller ticks. In `Services` days pass and the nightly
job runs, Redis drops keys that have an expiry, the SLA job and the jobs of `Watch` run, the bell polls and its
requests end, the timer of the page fires, the draft that was asked for arrives and requests end; tokens grow old, and a renewal has an answer or none. Nothing is assumed of users, faults or
calls: no start of a handler by a person is fair. WithdrawalCompletes and AcceptedStartsTask hold of
behaviours without a fault, and say so (`\/ faults > 0`), AutosaveCatchesUp of saves that
did not fail; SilenceIsTold of those without a restart; PendingIsDecided excuses a night the job missed, BlockEnds a stop between INCR and
EXPIRE.

## 5. What is proved

The proofs hold for any sets of handlers, workers, tasks, budgets, and any bounds. The
assumptions are the named ASSUMEs of the modules: amounts and limits are natural numbers (withdrawals
at least 100 fen, which withdraw enforces; a page, a day, a history has at least one), a headcount is
positive, percentages are at most 100, model values for "nobody" are not members of the sets, the
notifications are finitely many, and there is a filter, a phone and an assistant to begin with. No
theorem assumes fairness.

| theorem | by |
|---|---|
| CompanyFunds: TypeCorrect | one case per action |
| NoOverReservation, CheckSurvivesToCommit | `ReservationInv`: while the version a lockFund has read is current, the amount it compared is still free. Every write that takes from the row raises the version, so an old version refers to the past; the refund, which does not raise it, only adds. NeverOverReserved alone is not inductive: LockFundCommit needs the check that was made two steps ago |
| FundsImplementAccount | each step is one account operation or leaves the mapped variables alone; Reserve's guard is what CheckSurvivesToCommit says |
| CreditsBounded | credits plus deliveries in flight never exceed the number of handlers, and a completed row lets no new delivery in |
| LedgerAgrees | `CallbackInv`: a callback under way holds the amount of its recharge, which exists; so what it credits is what the sum over the recharges grows by (`SumAfterChange`). Every other write of the balance writes the ledger by the same amount |
| Wallet: TypeCorrect | one case per action |
| NeverOverdrawn, CheckSurvivesToCommit | `WithdrawInv`, as above: the version protects the balance, and credits that bypass it only add. The Redis lock is not needed for safety |
| WalletImplementsAccount | each step is one account operation or leaves `avail` and `frozen` alone; the guard of Reserve is what CheckSurvivesToCommit says |
| BooksAgree | `TimerInv`: a timer, or the withdraw that is about to start it, belongs to a row in processing and to no other row's, so what a completion takes off `frozen` was frozen for that row. A step that writes a row's status moves its amount from one sum to another or leaves both (`SumAfterChange`) |
| LeaseExclusive | the key's owner is the only withdraw whose lease runs, because release compares the token |
| Recruitment: TypeCorrect | one case per action |
| SlotsFillInOrder, NoOverstaffing, InvitedOnce | `SlotInv`: row i has slot i. A handler inserts at a slot computed from an older count; the index lets it through only when no row was added since, so its count and its look-up are still current |
| TaskLifecycle: TypeCorrect | a lemma for the steps that read, one for continuations |
| StagesInOrder | `StageInv`: what a handler will write has its predecessor in the history. Stale reads cannot break this, because the history only grows |
| StaffedTasksHaveRoles | `StaffInv`: a claim whose generation is current refers to roles of a task that is there; their budgets may be 0, because publishTask asks only that there are roles and that their sum is not above the total |
| CompletedIsExplained | `WorkInv`: the deliverable a review has marked stays judged until the review completes the assignment, and a settlement that is about to complete one has paid for it |
| Dispute: TypeCorrect | a lemma per kind of step |
| OnlyAcceptedMove | what a verdict in flight works on was under investigation when it looked, and the ghost only grows |
| OneOpen, MovedOnce, EvidenceKept | `Calm`: of an assignment that was not raced at most one handler is in flight (`OneContinuation`), so what its continuation knows of the rows (`Knows`: no dispute is open, the status is what it was, the files are among those it will write) still holds when it writes. None of the properties is inductive without what the continuation knows |
| ClientSession: TypeCorrect | `Queue`: requests wait only behind a refresh, and one request has started it. The types alone are not inductive: the step that ends a refresh answers all who wait |
| OneAccount, ExpiryIsHarmless | `SessionInv`: while nothing was raced, a refresh under way is for the account in the storage; who should still be logged in is not disabled; and a request that is repeated carries a token that has not run out |
| Chat: ChatTypes, ChatShownOnceAndRead | `ReadInv`. A stored message stands once, in the conversation it was sent to, and its sender has read it (`Written`); the list in an answer under way is marked as read already (`Marked`); so every list that a side may show (`Good`) has each message once, as a bubble of its own or as a stored one it has read. Neither the types nor the property is inductive alone: the answer shown now was cut from the log some steps ago, and the merge drops a bubble only because the list it meets holds that message or one with the same text |
| ChatUnderTitle | `TitleInv`: of a side whose title never changed during a request, all that is under way, the target, the timer and the list are of the conversation under the title (`Settled`), so an answer can only bring what belongs there |
| Services: TypeCorrect | one invariant for each of the seventeen areas, of which the types are the first conjunct; most types are not inductive alone, because a handler writes what it holds since an earlier step |
| MilestonesKept | a tie that no draft has named is to a milestone that is there, until the milestone or the project is deleted with its ties. `MilestoneInv`: of a milestone that was not raced at most one call is under way (`MilestoneCalm`), and what that call or the job has seen of it still holds |
| ReviewsKept | a review is made visible only by a call that has found the other side's row, which stays. `ReviewCalm`, `RatingCalm`: what a call on an assignment has seen of the other side's row, and a call on a worker of the rows it sums, while none overlaps |
| BilledAtMostSettled | `BillingCalm`: while nothing overlapped, the invoices and the amount the one application holds are within what was settled, and a decision under way finds its invoice pending; settlements only grow, and the sum over the invoices changes by the row that was written (`SumAfterChange`) |
| SubmissionsKept | five areas. `DayCalm`: a decision under way finds its day pending, and the day was not decided. `CheckpointCalm`: the checkpoint is as the call or the job has found it, and was handed in once and once for every revision. `MarkTold`, `IssueCalm`: a marked issue is told of once, or its notice is due; what the job has found has not been answered. `AlarmsTold`: a level that alarms was told, or is what the job is about to tell. `TrimSound`: enough notices are younger than the boundary the clean-up has found, which stays so because notices are numbered in the order of their times (`Ordered`) and new ones are younger |
| AccountsKeptApart | five areas. `OwnerStays`: the account made with the company stays active and an admin unless its owner gave that up, and no call can take it away; `AccountsApart`: there is room and a free number for an account about to be made. `Looked`, `CallsApart`: a person, a number and a card have one call each, so what it has seen of them is so. `NamesApart`, `RoomLeft`, `PageKnows`: what was counted leaves room for the row, and a preset sends no name that its list has. `Approval`: what was ever shown as active had been approved, so a freeze, and the unfreezing after it, are of approved companies. `FirmCalm`: the log lags behind by the one ruling under way |
| IdentityHolds | `Refused` and `Accepted`. Modulo 11 the weights of the program are those of the standard (`StandardSum`), so an issued number passes; a mistake in one character changes the sum by a weight times a difference, and neither is a multiple of 11 (`Slip`); two neighbours that changed places change it by the difference of their weights times theirs; so the sum leaves another remainder, and the table of check digits is one to one (`OneWay`) |
| AdviceKept | two halves. The conversation (`TalkKept`): unless it was strayed from, one question is open (`OneAsked`), it carries the session of the page (`Carried`), the session is of the agent chosen and its history is the end of what the page shows answered (`PageHas`, `Fits`), so that is what the model was given. The rows (`AgentsKept`): of an agent or a preset that was not raced one call is under way (`OfficeApart`), and a preset to be dropped is used by no agent (`DroppedUnused`) |
| PagesKept | three areas. `Unmixed`, while saves did not mix: one save is under way, and it is of the page that is open (`OneSave`); one that publishes has written, or still holds, the title, budget and roles that were on the screen (`Publishes`); and until a request failed the tasks are of different visits, and the page that has made one knows it (`TaskEach`). `DetailAsked`, `AppsAsked`, `ListAsked`, `HeldByDrawer`: of each part of the screen one request is open, for what was asked for last, or the answer is shown. `FinderCalm`: from the time the list is clean what is under way is the first page of its query or the next |

`ReadInv` and `TitleInv` were checked by TLC before they were proved, on the instance of the run and on
one with two openings, three messages and a page of two (10 M states). The proof of the first goes by
variables: a list on a screen is emptied, fetched anew, appended to, marked or filtered (`ListChanges`),
and each leaves one that is `Good`; messages, marks and calls only grow (`Grown`), so the lists that are
not touched stay so. That what a filter leaves stood in the list, each at a place of its own, is shown by
counting the places kept (`NthPlace`, `KeptFrom`).

The theorems about `Services` say of its properties, which are conjunctions over areas, what each area
keeps; that the other areas leave its variables alone (`Apart`) is part of the proofs. In the larger
areas the proof begins with a lemma that sorts the actions into a few kinds of steps by what they do to
requests and rows (`AdvisorMoves`, `DraftingMoves`, `RowMade` and its neighbours), and the conjuncts of the
invariant are then kept by kinds, not by actions. Every one of these invariants says the same in
the end: where nothing overlapped, what a handler has read before an `await` is still so when it
writes. None of the properties is inductive without it.

SlotsFillInOrder, OnlyAcceptedMove, NeverOverdrawn (a part of RowsExplainAvailable) and the two
CheckSurvivesToCommit are no properties of a run of their own: they are the facts the others rest on.
IdentityHolds is that part of AccountsHold which is about cards.

The library's induction theorems take an operator as a parameter, which the provers cannot instantiate.
`SubsetInduction` does without them, in the form of a set: what holds of a subset of a finite set as
soon as it holds of its proper subsets holds of all of them, for a counterexample would have a least one
(strict inclusion is well-founded there). So
SumFunctionOnSet, which is defined by choosing one element after the other, is shown to be a sum: it is
the empty set's zero, a set's sum is an element's value and the rest's, in whatever order, and so it
changes by the difference where the function changes.

Only model-checked is liveness, which is beyond the prover: WithdrawalCompletes, AcceptedStartsTask,
Settles, RequestsSettle, BadgeGoesOut and WaitingEnds. Every other property of the passing runs is one of
the theorems.

## 6. Abstractions

* One company, one worker's wallet, one role, one task at a time: no handler modelled writes
  two of a kind, so races are per row. Recruitment and TaskLifecycle meet in the
  status column; TaskLifecycle has the hiring handlers in the form in which they move it.
* Authorisation, ownership checks, validation of forms, logs, notifications and the worker pool
  are left out: they do not depend on the modelled state or change it.
* Ownership matters in one place, which is why it is named in section 4: getReviews is open to whoever asks.
* The transaction table is a sum per type: only sums are compared with balances.
* Rejected and expired invitations keep their seat claimed in TaskLifecycle, as their rows
  do in the database; answers other than accepting are in Recruitment.
* Overlapping approvals of one application are two seats in TaskLifecycle; in Recruitment they
  are two rows.
* A split verdict divides the amount anyhow: the ratio is the arbitrator's, and the DTO does not
  bound it. (A ratio above 100 would credit nothing to the worker and more than the amount to
  the company; the model has ratios from 0 to 100.)
* Dispute starts with accepted assignments of a published or running task. createDispute takes
  any assignment; those that were refused have no settlement and no review, and are fewer
  behaviours of the same handlers.
* In the smaller modules a transaction that has no versioned update is one step, and so are a
  check and a write between which every other write makes the row count as raced. In
  `Drafting` the look at the status and the write of updateDraft, setTaskRoles and publishTask are
  one step, because whatever comes between them is a save that overlaps; `TaskLifecycle` has
  them apart.
* The fields of a task, in the five groups of section 3, are how often they were changed, a role chosen and
  cleared and an optional field filled and emptied in turn; a notification, a card, a
  phone, a preset is a model value. A decrypted value is the value.
* What only the one page shows is left out of `Bell` (the order of notifications, the page
  size of ten), and of `Advisor` the suggestion that is cut out of an answer.

## 7. Not modelled

* Read-only queries, dashboards and lists; formatting of numbers, files and contracts; analytics
  events, comments, logs and operation records, which are append-only: no shared state that
  anything else goes by.
* Weekly settlement: settleWeek reads a daily rate from a field that no task has
  (weekly-settlement.service.ts:106) and always fails, and settleOnTaskComplete has no
  caller. There is no behaviour to model.
* The socket gateway: no client opens a socket, and a token of this service is refused there.
* Number generator: INCR with EXPIRE in a second command, which `Accounts` has in the login
  limit.
* The job that writes daily snapshots for the dashboards: nothing else reads them.
* Withdrawals, frozen workers, settings and lists on the platform's console: single columns
  written by id; section 4 names those that do less than their name says.
* The pages that only fetch, show and submit, uploads, and the platform's console but
  for its list of companies. What they submit is modelled where it arrives.
* Token signing, passwords, encryption, the protocol with WeChat and with model providers:
  external; what they decide is a nondeterministic choice.

## 8. Plan

1. A composition of `Wallet` with `CompanyFunds` under `triggerSettlement`: what a worker is paid is
   covered by what the company locked as long as settlements are not repeated.
2. Abstract specifications: a ledger of verdicts that Dispute implements for calm assignments, and a
   sealed box that Reviews implements.
