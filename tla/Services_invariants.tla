-------------------------- MODULE Services_invariants --------------------------
(***************************************************************************)
(* The inductive invariants of Services, one part for each service, and the   *)
(* few forms its steps are sorted into: what Services_proofs is about.       *)
(* An invariant says what the service needs of the types, and what a row on    *)
(* which no calls overlapped is to the one call on it.                      *)
(***************************************************************************)
EXTENDS Services, Sequences, Functions

-----------------------------------------------------------------------------
(* Sums.  SumFunctionOnSet is defined by recursion over the subsets, an       *)
(* element chosen at each step: such a function exists and is one, and the    *)
(* choice does not matter.                                                  *)

\* One element of a set and the others; whether g adds up f over the sets in D; and
\* the function that the definition takes.
One(s) == CHOOSE x \in s : TRUE
Rest(s) == s \ {One(s)}
Adds(f, D, g) == g = [s \in D |-> IF s = {} THEN 0 ELSE f[One(s)] + g[Rest(s)]]
Adder(f, s) == CHOOSE g : Adds(f, SUBSET s, g)

-----------------------------------------------------------------------------
(* Projects *)

Project == <<project, milestone, task, past, run, job, loose, done, raced, calls>>

\* What the milestones need of the types.
ProjectTyped ==
  /\ project \in [status: Plan!ProjectStatus, phase: Plan!Phases]
  /\ milestone \in [Milestones -> {"none", "pending", "completed", "overdue"}]
  /\ task \in [Tasks -> Plan!Task]
  /\ run \subseteq Plan!Call /\ calls \in Nat
  /\ \A h \in run : h.op \in {"status", "sync"} => h.to # "none"
  /\ job \subseteq past /\ done \subseteq Milestones

\* A milestone on which no calls overlapped is what the one call on it, or the job, has
\* seen of it.
MilestoneCalm(m) ==
  /\ \A h, g \in run : h.on = m /\ g.on = m => h = g
  /\ \A h \in run : h.on = m =>
       /\ project.status # "gone" => milestone[m] # "none"
       /\ m \notin job
       /\ h.op = "drop" => m \notin done
  /\ project.status # "gone" =>
       /\ m \in job => m \notin done
       /\ m \in done => milestone[m] = "completed"

MilestoneInv ==
  /\ ProjectTyped
  /\ \A m \in Milestones \ raced : MilestoneCalm(m)
  /\ Plan!TiedInProjectUnlessDrafted

-----------------------------------------------------------------------------
(* Reviews *)

Both(a) == \A s \in Review!Sides : review[a][s] # "none"
BothShown(a) == \A s \in Review!Sides : review[a][s] = "shown"

\* What a call has seen of the other side's review is still there, and so is its own.
ReviewTyped ==
  /\ review \in [Assignments -> [Review!Sides -> {"none", "hidden", "shown"}]]
  /\ run \subseteq Review!Call /\ calls \in Nat
  /\ \A h \in run :
       /\ h.at # "other" /\ h.other # "none" => review[h.of][Review!Other(h.side)] # "none"
       /\ h.at = "show" => review[h.of][h.side] # "none" /\ h.other # "none"
       /\ h.at \in {"sum", "rate"} => h.side = "company"

\* An assignment on which no calls overlapped or stopped is what the one call has seen.
ReviewCalm(a) ==
  /\ \A h, g \in run : h.of = a /\ g.of = a => h = g
  /\ \A h \in run : h.of = a =>
       /\ h.at \in {"other", "create"} => review[a][h.side] = "none"
       /\ h.at = "create" => h.other = review[a][Review!Other(h.side)]
       /\ h.at = "show" => review[a][h.side] = "shown"
  /\ (\A h \in run : h.of = a => h.at # "show") /\ Both(a) => BothShown(a)

\* While no calls of companies overlap, at most one has stored a review that the rating
\* does not count.
RatingCalm ==
  /\ \A h, g \in run : h.side = "company" /\ g.side = "company" => h = g
  /\ (\A h \in run : h.side = "company" => h.at \in {"other", "create"})
       => rated = Review!ByCompany
  /\ \A h \in run : h.at = "rate" => h.sum = Review!ByCompany

ReviewInv ==
  /\ ReviewTyped
  /\ \A a \in Assignments : (\E s \in Review!Sides : review[a][s] = "shown") => Both(a)
  /\ \A a \in Assignments \ raced : ReviewCalm(a)
  /\ raced = {} => RatingCalm

ReviewVars == <<review, rated, run, raced, calls, faults>>

\* A call that starts.
Starts(a, s) ==
  /\ review[a][s] = "none" /\ calls' = calls + 1
  /\ run' = run \cup {[n |-> calls, of |-> a, side |-> s, at |-> "other", other |-> "none",
                       sum |-> {}]}
  /\ UNCHANGED <<review, rated>>

-----------------------------------------------------------------------------
(* Identity cards: the sums *)

Numerals == [1..18 -> 0..10]

\* The values of a number, one by one.
Spells(c, a1, a2, a3, a4, a5, a6, a7, a8, a9, a10, a11, a12, a13, a14, a15, a16, a17, a18) ==
  /\ c[1] = a1 /\ c[2] = a2 /\ c[3] = a3 /\ c[4] = a4 /\ c[5] = a5
  /\ c[6] = a6 /\ c[7] = a7 /\ c[8] = a8 /\ c[9] = a9 /\ c[10] = a10
  /\ c[11] = a11 /\ c[12] = a12 /\ c[13] = a13 /\ c[14] = a14 /\ c[15] = a15
  /\ c[16] = a16 /\ c[17] = a17 /\ c[18] = a18

-----------------------------------------------------------------------------
(* The check *)

\* The values of what was typed.
Read(t) == [j \in 1..18 |-> Identity!Upper(t[j])]

\* A number was typed with at most one mistake.
Slipped(t) ==
  \E c \in Identity!Right :
    \/ t = c
    \/ \E i \in 1..18, d \in 0..Identity!SmallX : t = [c EXCEPT ![i] = d]
    \/ \E i \in 1..17 : t = [c EXCEPT ![i] = c[i + 1], ![i + 1] = c[i]]

IdentityInv ==
  /\ card \in IdNumbers
  /\ typed = << >> \/ (typed \in Identity!Numbers /\ Slipped(typed))
  /\ held \in Seq(Identity!Numbers) /\ \A i \in DOMAIN held : Identity!Same(held[i], card)
  /\ card[18] # 10 => Len(held) <= 1

-----------------------------------------------------------------------------
(* Invoices *)

Billing == <<settled, invoice, run, raced, calls>>

\* A call that decides is about an invoice there is.
BillingTyped ==
  /\ Invoice!TypeOK
  /\ \A h \in run : IF h.op = "apply" THEN h.i = 0 /\ h.amount > 0 ELSE h.i \in DOMAIN invoice

\* What applications may add up to before they exceed what was settled.
Billed == Invoice!Total({"pending", "issued"})

\* While no calls overlapped: the one application has room for its amount, and the one call
\* that decides on an invoice finds it pending.
BillingCalm ==
  /\ \A h, g \in run : h.i = g.i => h = g
  /\ \A h \in run : IF h.op = "apply" THEN Billed + h.amount <= settled
                                      ELSE invoice[h.i].status = "pending"
  /\ Billed <= settled

BillingInv == BillingTyped /\ (raced = {} => BillingCalm)

\* What is summed up over the invoices.
BilledOf == [i \in DOMAIN invoice |->
               IF invoice[i].status \in {"pending", "issued"} THEN invoice[i].amount ELSE 0]

\* That it is a sum, of natural numbers.
BilledAdds ==
  /\ Billed = SumFunctionOnSet(BilledOf, 1..Len(invoice))
  /\ IsFiniteSet(1..Len(invoice)) /\ Len(invoice) \in Nat /\ DOMAIN invoice = 1..Len(invoice)
  /\ \A i \in 1..Len(invoice) : BilledOf[i] \in Nat
  /\ Billed \in Nat

-----------------------------------------------------------------------------
(* Companies *)

Companies == <<firm, approved, logged, seen, loads, clerk, session, run, raced, calls, faults>>

\* A company has its line in the log from the ruling alone, and a rejection is only that.
FirmTyped ==
  /\ Firm!TypeOK
  /\ \A h \in run : /\ h.step = "log" => h.op \in Firm!Rulings
                    /\ h.op = "reject" => h.step = "log"

LogAgrees(f) ==
  /\ firm[f] = "active" <=> logged[f] \in {"approve", "unfreeze"}
  /\ firm[f] = "suspended" <=> logged[f] = "freeze"

\* A company no rulings overlapped on is what the one ruling under way has read, or written;
\* the log tells what it was before.
FirmCalm(f) ==
  /\ \A h, g \in run : {h.op, g.op} \subseteq Firm!Rulings /\ h.on = f /\ g.on = f => h = g
  /\ \A h \in run : h.op \in Firm!Rulings /\ h.on = f =>
       IF h.step = "write"
         THEN LogAgrees(f) /\ Firm!Possible(h.op, firm[f])
         ELSE firm[f] = CASE h.op = "reject" -> "pending" [] h.op = "freeze" -> "suspended"
                          [] OTHER -> "active"
  /\ (\A h \in run : h.on = f => h.op \notin Firm!Rulings) => LogAgrees(f)

\* What was ever shown as active, or suspended, had been approved, and so has been what
\* is about to be frozen, or unfrozen.
Approval ==
  /\ \A f \in Firms : \/ firm[f] \in {"active", "suspended"}
                      \/ seen[f] \in {"active", "suspended"}
                      \/ \E t \in loads : t[f] \in {"active", "suspended"}
                      => approved[f]
  /\ \A h \in run : h.op \in {"freeze", "unfreeze"} => approved[h.on]

FirmInv == FirmTyped /\ Approval /\ \A f \in Firms \ raced : FirmCalm(f)

-----------------------------------------------------------------------------
(* Check-ins *)

Attendance == <<today, open, row, out, slept, run, decided, excused, raced, calls, faults>>

\* A day no decisions overlapped on is pending for the one decision under way, and was not
\* decided before.
DayCalm(d) ==
  /\ \A h, g \in run : Checkin!Decision(h) /\ Checkin!Decision(g) /\ d \in h.days /\ d \in g.days
                         => h = g
  /\ \A h \in run : Checkin!Decision(h) /\ d \in h.days => row[d] = "pending"
  /\ row[d] \in {"none", "pending"} => decided[d] = 0
  /\ decided[d] <= 1

DaysInv == Checkin!TypeOK /\ \A d \in Checkin!Days \ raced : DayCalm(d)

-----------------------------------------------------------------------------
(* Checkpoints *)

Checkpoints == <<status, revisions, late, run, job, submits, verdicts, raced, calls>>

\* Whatever is not creating is about a checkpoint that can be created.
CheckpointTyped ==
  /\ Checkpoint!TypeOK
  /\ \A h \in run : h.op # "create" => h.on \in Rows

\* What a call has found of the status, before it writes.
Found(h) ==
  LET c == h.on
  IN /\ h.op \in {"submit", "delete"} => status[c] = "pending"
     /\ h.op = "again" => status[c] = "rejected" /\ revisions[c] < MaxRevisions
     /\ h.op \in {"passed", "rejected"} => status[c] = "submitted"

\* A checkpoint no calls overlapped on is what the call, or the job, has found; it was
\* submitted once, and once for every revision, when it was submitted at all.
CheckpointCalm(c) ==
  /\ \A h, g \in run : h.on = c /\ g.on = c => h = g
  /\ \A h \in run : h.on = c => c \notin job /\ Found(h)
  /\ c \in job => status[c] = "pending"
  /\ revisions[c] <= MaxRevisions
  /\ verdicts[c] = submits[c] - (IF status[c] = "submitted" THEN 1 ELSE 0)
  /\ IF status[c] \in {"none", "pending", "overdue", "gone"}
       THEN submits[c] = 0 /\ revisions[c] = 0
       ELSE submits[c] = revisions[c] + 1

CheckpointInv == CheckpointTyped /\ \A c \in Rows \ raced : CheckpointCalm(c)

-----------------------------------------------------------------------------
(* Issues *)

Issues == <<issue, told, job, notice, run, raced, cut, calls, faults>>

\* An issue the job has found is late and not marked; one it has marked is told of at most
\* once, by the notice that is due or was sent.
MarkTold ==
  /\ \A i \in job : issue[i].late /\ ~ issue[i].breached
  /\ \A i, j \in notice : i = j
  /\ notice \cap cut = {}
  /\ \A i \in Reports :
       /\ issue[i].breached => issue[i].late
       /\ i \in notice \cup cut => issue[i].breached
       /\ told[i] = IF issue[i].breached /\ i \notin notice \cup cut THEN 1 ELSE 0

\* An issue on which no call overlapped is as the call, or the job, has found it.
IssueCalm(i) ==
  /\ \A c, d \in run : c.on = i /\ d.on = i => c = d
  /\ i \in job => issue[i].first = "none" /\ \A c \in run : c.on # i
  /\ issue[i].breached => issue[i].first # "day"

IssueInv == Report!TypeOK /\ MarkTold /\ \A i \in Reports \ raced : IssueCalm(i)

\* The row a call leaves.
Updated(r, c) ==
  [r EXCEPT !.status = c.to,
            !.first = IF c.to = "in_progress" /\ ~c.seen
                      THEN IF r.late THEN "late" ELSE "day" ELSE @]

-----------------------------------------------------------------------------
(* The jobs that watch tasks *)

Watch == <<day, due, progress, reported, closed, level, said, reminded, inbox, sent, tied,
           trimmed, job, calls, faults>>

Entry(j) == /\ j \in Alarm!Found /\ (j.kind # "trim" => j.on \in Items)
            /\ j.kind = "risk" => j.to \in Alarm!Levels

WatchTyped ==
  /\ Alarm!TypeOK
  /\ reported \in [Items -> Alarm!Never..Horizon] /\ reminded \in [Items -> Alarm!Never..Horizon]
  /\ \A j \in job : Entry(j)

\* As long as no job was stopped: what it is about to tell of an item is the level the item
\* shows, and it has told of every other level that alarms.
AlarmsTold ==
  /\ \A j \in Alarm!Of("risk") : j.at = "tell" => j.to = level[j.on]
  /\ \A i \in Items : Alarm!Alarms(level[i]) =>
       said[i] = level[i] \/ \E j \in Alarm!Of("risk") : j.on = i /\ j.at = "tell"

\* The notices are numbered in the order of their times, and of two with the same time both
\* are noted.
Ordered ==
  /\ \A m \in inbox : m.n \in 1..sent /\ m.at <= sent
  /\ \A m, k \in inbox :
       /\ m.n = k.n => m = k
       /\ m.n < k.n => m.at <= k.at /\ (m.at = k.at => {m.n, k.n} \subseteq tied)

\* The clean-up is one job, and what it has found as the boundary is a notice with enough
\* others after it.
TrimSound ==
  /\ \A j, k \in Alarm!Of("trim") : j = k
  /\ Alarm!Of("trim") # {} => "cleanup" \notin due
  /\ \A j \in Alarm!Of("trim") : j.at = "write" =>
       \E k \in inbox : k.at = j.upto /\ sent - k.n >= MaxUnread
  /\ \A n \in trimmed \ tied : sent - n >= MaxUnread

WatchInv == WatchTyped /\ (faults = 0 => AlarmsTold) /\ Ordered /\ TrimSound

-----------------------------------------------------------------------------
(* The accounts of a company *)

AccountVars == <<account, admin, phone, failures, expires, resigned, leaked, run, raced, calls,
                 faults>>

\* What a call is about.
AccountCall(h) ==
  /\ h.on = "new" <=> h.op = "create"
  /\ h.on = "ip" <=> h.op \in {"password", "expire"}

AccountTyped == Login!TypeOK /\ \A h \in run : AccountCall(h)

\* On an account no calls overlapped on there is one call at most.
OneCallEach == \A h, g \in run : h.on = g.on /\ h.on \notin raced => h = g

\* The account made with the company stays what it was.
OwnerStays ==
  ~resigned /\ raced \cap Users = {} =>
    /\ account[Owner] = "active" /\ admin[Owner]
    /\ \A h \in run : h.on = Owner => h.op = "role" /\ h.admin

\* What calls have seen is still so when they write.
AccountsApart ==
  raced \subseteq {"ip"} =>
    /\ Cardinality(Login!There) <= MaxAccounts
    /\ \A u, v \in Login!There : phone[u] = phone[v] => u = v
    /\ \A h \in run : h.on \in Users => h.on \in Login!There
    /\ \A h \in run : h.op = "create" =>
         Cardinality(Login!There) < MaxAccounts /\ ~ Login!Taken(h.phone)

AccountInv == AccountTyped /\ IsFiniteSet(Login!There) /\ OneCallEach /\ OwnerStays /\ AccountsApart

\* The steps: a call begins, a row is made or written, or only the limit on passwords changes.
AccountBegins(new) ==
  /\ run' = run \cup {new} /\ AccountCall(new) /\ new.on \in Users \cup {"new", "ip"}
  /\ raced' = IF \E h \in run : h.on = new.on THEN raced \cup {new.on} ELSE raced
  /\ UNCHANGED <<account, admin, phone>>
  /\ resigned => resigned'
  /\ new.on \in Users => new.on \in Login!There
  /\ new.on = Owner /\ admin[Owner] => new.op = "role" /\ (new.admin \/ resigned')
  /\ new.op = "create" =>
       Cardinality(Login!There) < MaxAccounts /\ ~ Login!Taken(new.phone)

AccountMade(h, u) ==
  /\ h \in run /\ run' = run \ {h} /\ h.op = "create" /\ account[u] = "none" /\ u \in Users
  /\ account' = [account EXCEPT ![u] = "active"] /\ phone' = [phone EXCEPT ![u] = h.phone]
  /\ admin' = [admin EXCEPT ![u] = h.admin] /\ UNCHANGED <<resigned, raced>>

AccountWritten(h) ==
  /\ h \in run /\ run' = run \ {h} /\ h.on \in Users /\ UNCHANGED <<phone, resigned, raced>>
  /\ account' = IF h.op = "role" THEN account ELSE [account EXCEPT ![h.on] = h.op]
  /\ admin' = IF h.op = "role" THEN [admin EXCEPT ![h.on] = h.admin] ELSE admin

AccountIdle ==
  /\ UNCHANGED <<account, admin, phone, resigned, raced>>
  /\ \A h \in run' : h \in run \/ (h.op = "expire" /\ h.on = "ip")
  /\ \A h, g \in run' : h.on = "ip" /\ g.on = "ip" /\ "ip" \notin raced /\ h # g => {h, g} \subseteq run

-----------------------------------------------------------------------------
(* The records of workers *)

WorkerVars == <<worker, wallet, roles, works, proved, run, raced, calls>>

\* What a call carries.
WorkerCall(h) ==
  /\ h \in Person!Call
  /\ h.op = "bind" => h.value \in Phones
  /\ h.op \in {"compare", "verify"} => h.value \in Cards
  /\ h.op = "role" => h.value \in Names

Has(s, e) == \E i \in 1..Len(s) : s[i] = e

\* What a call has seen is still so.
Looked(h) ==
  /\ h.op = "bind" /\ h.value \notin raced =>
       \A q \in People \ {h.of} : worker[q].phone # h.value
  /\ h.op = "verify" /\ h.value \notin raced =>
       \A q \in People \ {h.of} : worker[q].card # h.value
  /\ h.op \in {"compare", "verify"} /\ h.of \notin raced => worker[h.of].card = None
  /\ h.op = "role" /\ h.of \notin raced =>
       Len(roles[h.of]) < MaxRoles /\ ~ Has(roles[h.of], h.value)
  /\ h.op = "work" /\ h.of \notin raced => Len(works[h.of]) < MaxWorks

\* No more roles and works than there may be, and no role twice.
Profile(q) == /\ Person!IsInjective(roles[q]) /\ Len(roles[q]) <= MaxRoles
              /\ Len(works[q]) <= MaxWorks

\* Where nothing overlapped, a person and a value have one call each.
CallsApart ==
  \A h, g \in run :
    /\ h.of = g.of /\ h.of \notin raced => h = g
    /\ h.value = g.value /\ h.value # None /\ h.value \notin raced => h = g

WorkerTyped == Person!TypeOK /\ \A h \in run : WorkerCall(h)

WorkerInv ==
  /\ WorkerTyped /\ CallsApart /\ \A h \in run : Looked(h)
  /\ Person!OneWalletEach /\ Person!OneOwnerUnlessRaced /\ Person!ProfileUnlessRaced

\* A call begins where it meets no other one, or the meeting is noted.
WorkerBegins(new) ==
  /\ run' = run \cup {new} /\ raced \subseteq raced'
  /\ \A h \in run : /\ h.of = new.of => h.of \in raced'
                    /\ h.value = new.value /\ h.value # None => h.value \in raced'
  /\ UNCHANGED <<worker, wallet, roles, works, proved>>

-----------------------------------------------------------------------------
(* What a company sets up for its tasks *)

SettingsVars == <<kind, rows, bare, list, adding, stage, failed, run, raced, calls, faults>>

\* Where a request can be, and what the page sends.
SettingsCall(c) ==
  /\ c \in Setup!Call /\ c.n < calls
  /\ c.op = "create" => c.at \in {"count", "name", "write", "back"}
  /\ c.op = "rename" => c.at \in {"find", "write"}
  /\ c.op = "use" => c.at \in {"find", "roles"}
  /\ c.op \in {"delete", "save", "discard"} => c.at = "find"
  /\ c.at = "back" => kind = "skill"
  /\ c.page => c.op = "create" /\ (kind = "point" => c.text = "plain")

\* Requests and rows are told apart by their numbers.
Numbered ==
  /\ \A c, d \in run : c.n = d.n => c = d
  /\ \A r \in rows : r.id < calls /\ \A c \in run : r.id # c.n
  /\ \A r, s \in rows : r.id = s.id => r = s

SettingsTyped ==
  /\ Setup!TypeOK /\ IsFiniteSet(rows) /\ Numbered
  /\ \A c \in run : SettingsCall(c)

\* The unique indexes.
NamesApart == kind # "point" => \A r, s \in rows : r.name = s.name => r = s

\* What has been counted is still so when the row is made.
RoomLeft ==
  kind \notin raced =>
    /\ \A c, d \in run : c = d
    /\ Cardinality(Setup!Counted) <= MaxListed[kind]
    /\ \A c \in run : c.op = "create" /\ c.at # "count" =>
         Cardinality(Setup!Counted) < MaxListed[kind]

\* The checkpoints that came from the page are in its list, or the list is about to come, and
\* none has a name still to be sent.
FromPage(rs) == {r \in rs : r.preset /\ r.live}
PageKnows ==
  kind = "point" /\ ~failed =>
    /\ \A r \in FromPage(rows) : r.text = "plain" /\ r.name \notin adding
    /\ \A r, s \in FromPage(rows) : r.name = s.name => r = s
    /\ stage = "idle" /\ adding = {} => \A r \in FromPage(rows) : r.name \in list
    /\ stage = "load" => adding = {}
    /\ \A c \in run : c.page => stage = "sent" /\ c.name \in adding
    /\ \A c, d \in run : c.page /\ d.page => c = d

RolesFollow == faults = 0 => \A n \in bare : \E c \in run : c.at = "roles" /\ c.n = n

SettingsInv == SettingsTyped /\ NamesApart /\ RoomLeft /\ PageKnows /\ RolesFollow

\* The steps. A request comes, from elsewhere or from the page;
Asked(new) ==
  /\ run' = run \cup {new} /\ new.n = calls /\ calls' = calls + 1
  /\ calls < Calls["catalogue"] /\ raced' = raced \cup {kind : h \in run}
  /\ SettingsCall(new)' /\ new.at \in {"count", "find"}
  /\ UNCHANGED <<kind, rows, bare, list, adding, failed, faults>>
  /\ IF new.page THEN stage = "idle" /\ stage' = "sent" /\ new.name \in adding
                 ELSE UNCHANGED stage

\* it goes on;
Moved(c, new) ==
  /\ c \in run /\ run' = (run \ {c}) \cup {new}
  /\ new.n = c.n /\ new.page = c.page /\ new.name = c.name /\ new.op = c.op
  /\ SettingsCall(new) /\ c.at # "roles"
  /\ new.op = "create" => Cardinality(Setup!Counted) < MaxListed[kind] \/ c.at # "count"
  /\ UNCHANGED <<kind, rows, list, adding, stage, failed, raced, calls, faults>>
  /\ bare' = bare \/ (new.at = "roles" /\ bare' = bare \cup {c.n})

\* it ends,
Ended(c, ok) ==
  /\ c \in run /\ run' = run \ {c} /\ UNCHANGED <<kind, raced, calls, faults>>
  /\ IF c.at = "roles" THEN bare' = bare \ {c.n} ELSE UNCHANGED bare
  /\ Setup!Answer(c, ok)

\* with a row more,
RowMade(c) ==
  \E new \in Setup!Row :
    /\ rows' = rows \cup {new} /\ new.id = c.n /\ new.name = c.name /\ new.preset = c.page
    /\ Setup!Free(c.name)
    /\ \/ c.op = "create" /\ c.at = "write" /\ new.text = c.text
       \/ c.op = "save" /\ new.text = "template"

\* or another row in the place of one,
RowSet(c) ==
  \E r \in rows, s \in Setup!Row :
    /\ rows' = (rows \ {r}) \cup {s} /\ s.id = r.id /\ s.text = r.text
    /\ \/ c.op = "rename" /\ s.live = r.live /\ ~ s.preset /\ s.name = c.name
          /\ (kind = "point" \/ Setup!Named(c.name) \subseteq {r})
       \/ c.op = "delete" /\ ~ s.live /\ s.name = r.name
       \/ c.op = "create" /\ c.at = "back" /\ s.name = r.name

RowsLess(c) == c.op = "discard" /\ rows' \subseteq rows

\* or with the rows as they are.
RowsStay(c, ok) == rows' = rows /\ (ok => ~ c.page \/ kind = "skill")

\* The page makes a list of what to send, or shows what there is,
PageGoes ==
  /\ UNCHANGED <<kind, rows, bare, run, raced, calls>>
  /\ \/ /\ stage = "idle" /\ adding = {} /\ adding' # {} /\ adding' \cap list = {}
        /\ adding' \subseteq Offered /\ UNCHANGED <<list, stage, failed, faults>>
     \/ /\ stage = "load" /\ stage' = "idle" /\ list' = {r.name : r \in Setup!Counted}
        /\ UNCHANGED <<adding, failed, faults>>
     \/ /\ stage = "load" /\ stage' = "idle" /\ failed' = TRUE /\ UNCHANGED <<list, adding>>
        /\ faults < MaxFaults /\ faults' = faults + 1

\* and a request or its answer can be lost.
Broken(c) ==
  /\ UNCHANGED <<kind, rows, bare, list, raced, calls>>
  /\ c \in run /\ faults < MaxFaults /\ faults' = faults + 1
  /\ \/ run' = run \ {c} /\ ~ c.page /\ UNCHANGED <<adding, stage, failed>>
     \/ /\ \E new : /\ run' = (run \ {c}) \cup {new} /\ SettingsCall(new) /\ new.n = c.n
                    /\ new.op = c.op /\ new.at = c.at
        /\ adding' = {} /\ stage' = "idle" /\ failed' = TRUE

-----------------------------------------------------------------------------
(* The market of the mini-program *)

MarketVars == <<market, run, calls, faults>>

OnePage == [of: Queries, page: 1..LastPage]
MarketTyped ==
  /\ Finder!TypeOK /\ \A r \in run : r.page \in 1..LastPage
  /\ calls \in Nat /\ faults \in Nat

\* From the time it is clean, what is under way is one page of the query, the first or the next.
FinderCalm ==
  clean =>
    /\ timers = {} /\ (run # {} => waiting)
    /\ \A r, s \in run : r = s
    /\ \A r \in run : r.of = query /\ r.page \in {1, pageNo + 1}
    /\ Len(found) = pageNo /\ \A i \in 1..pageNo : found[i] = [of |-> query, page |-> i]

MarketInv == MarketTyped /\ FinderCalm

-----------------------------------------------------------------------------
(* The page with the tasks *)

BoardVars == <<board, run, raced, calls, faults>>

\* What a request is about, and what it can have been answered.
BoardCall(c) ==
  /\ c \in List!Request /\ c.n <= Calls["board"]
  /\ c.of \in IF c.op = "list" THEN Filters ELSE Posts
  /\ List!Kind(c.op) = "detail" => c.got \in List!Stages \cup {"sent"}

BoardTyped ==
  /\ List!TypeOK /\ (\A c \in run : BoardCall(c)) /\ calls \in Nat /\ faults \in Nat
  /\ (detail # None => detail \in [task: Posts, stage: List!Stages])

Requests(what) == {c \in run : List!Kind(c.op) = what}

\* What is under way is what was asked for last, and when it has come it is on the screen.
OnlyOne(what, of) ==
  (\A c, d \in Requests(what) : c = d) /\ (\A c \in Requests(what) : c.of = of)
DetailAsked == "detail" \notin raced => OnlyOne("detail", wanted) /\ (detail # None => detail.task = wanted)
AppsAsked ==
  "apps" \notin raced => OnlyOne("apps", drawer) /\ (Requests("apps") # {} \/ apps \in {drawer, None})
ListAsked ==
  "list" \notin raced /\ faults = 0 =>
    OnlyOne("list", filter) /\ (Requests("list") # {} \/ listed = filter)

\* A button that was pressed finds its task in the drawer.
HeldByDrawer ==
  "button" \notin raced /\ faults = 0 => cried = {} /\ (Requests("button") # {} => detail # None)

BoardInv == BoardTyped /\ DetailAsked /\ AppsAsked /\ ListAsked /\ HeldByDrawer

\* What a step does to the requests of a what: one comes, one is served or becomes one of
\* another what, one goes.
Came(new) == run' = run \cup {new}
Became(c, new) == c \in run /\ run' = (run \ {c}) \cup {new}
Went(c) == c \in run /\ run' = run \ {c}
\* The kinds of steps, with what each changes of the screen.
Clicked(new) ==
  /\ Came(new) /\ UNCHANGED <<listed, apps, cried, faults>>
  /\ \/ /\ new.op = "list" /\ new.of = filter' /\ raced' = raced \cup List!Late("list")
        /\ UNCHANGED <<wanted, detail, drawer>>
     \/ /\ new.op = "detail" /\ new.of = wanted' /\ detail' = None
        /\ raced' = raced \cup List!Late("detail") \cup List!Late("button")
        /\ UNCHANGED <<filter, drawer>>
     \/ /\ new.op = "apps" /\ new.of = drawer' /\ raced' = raced \cup List!Late("apps")
        /\ UNCHANGED <<filter, wanted, detail>>
     \/ /\ new.op \in List!Verbs /\ detail # None /\ UNCHANGED <<filter, wanted, detail, drawer, raced>>

Served(c, new) ==
  /\ Became(c, new) /\ new.op = c.op /\ new.of = c.of
  /\ UNCHANGED <<List!screen, raced, faults>>

\* An answer comes, and another request with it.
Shown(c) ==
  /\ Went(c) /\ UNCHANGED <<filter, wanted, drawer, cried, raced, faults>>
  /\ \/ c.op = "list" /\ listed' = c.of /\ UNCHANGED <<detail, apps>>
     \/ /\ c.op = "detail" /\ detail' \in [task: Posts, stage: List!Stages] /\ detail'.task = c.of
        /\ UNCHANGED <<listed, apps>>
     \/ c.op = "apps" /\ apps' = c.of /\ UNCHANGED <<listed, detail>>

Followed(c, new) ==
  /\ Became(c, new) /\ UNCHANGED <<filter, listed, wanted, drawer, apps, cried, faults>>
  /\ \/ /\ c.op \in List!Verbs /\ detail # None /\ new.op \in {"again", "reload"}
        /\ new.of = detail.task /\ raced' = raced \cup List!Late("detail") /\ UNCHANGED detail
     \/ /\ c.op \in {"again", "reload"} /\ new.op = "list" /\ new.of = filter
        /\ raced' = raced \cup List!Late("list")
        /\ detail' \in [task: Posts, stage: List!Stages] /\ detail'.task = c.of

\* Or nothing more, or it is lost.
Dropped(c) ==
  /\ Went(c) /\ c.op \in List!Verbs /\ (cried' = cried \/ detail = None)
  /\ UNCHANGED <<filter, listed, wanted, detail, drawer, apps, raced, faults>>
LostOne(c) ==
  /\ Went(c) /\ faults' = faults + 1 /\ apps' = (IF c.op = "apps" THEN None ELSE apps)
  /\ UNCHANGED <<filter, listed, wanted, detail, drawer, raced>>

-----------------------------------------------------------------------------
(* The assistants *)

AdvisorVars == <<advisor, run, raced, calls, faults>>

AgentRow == [there: BOOLEAN, on: BOOLEAN, preset: Presets \cup {None}]
AgentRows ==
  agent \in [Agents -> AgentRow] /\ preset \subseteq Presets /\ wish \in [Agents -> Presets \cup {None}]
AgentMemory ==
  /\ owner \in Seq(Agents) /\ history \in Seq(Seq(Nat)) /\ Len(owner) = Len(history)
  /\ \A s \in 1..Len(history) : Len(history[s]) <= MaxHistory
AgentTalk == talk \in Aide!Talk /\ talk.session \in 0..Len(owner)

\* What a request carries, with m sessions.
AgentCall(c, m) ==
  /\ c \in Aide!Request
  /\ c.op = "chat" /\ c.at = "sent" => c.session \in 0..m /\ c.given = << >>
  /\ c.op = "chat" /\ c.at \in {"asked", "answered"} => c.session \in 1..m
  /\ c.op = "drop" => c.preset \in Presets
AgentCalls == \A c \in run : AgentCall(c, Len(owner))
AgentRest ==
  /\ raced \subseteq Agents \cup Presets /\ strayed \in BOOLEAN
  /\ calls \in 0..Calls["advisor"] /\ faults \in 0..MaxFaults

AdvisorTyped == AgentRows /\ AgentMemory /\ AgentTalk /\ AgentCalls /\ AgentRest

\* What a step does to the requests and to the memory: Ask or Begin, ...
Entered(new) ==
  /\ run' = run \cup {new} /\ new \in Aide!Request /\ new.n = calls
  /\ calls < Calls["advisor"] /\ calls' = calls + 1
  /\ UNCHANGED <<agent, preset, wish, owner, history, strayed, faults>>

EnteredChat(new) ==
  /\ Entered(new) /\ new.op = "chat" /\ new.at = "sent" /\ new.agent = talk.agent
  /\ new.session = talk.session /\ new.given = << >> /\ new.waits /\ ~ talk.busy
  /\ raced' = raced /\ talk' \in Aide!Talk /\ talk'.session = talk.session
  /\ talk'.agent = talk.agent /\ talk'.answered = talk.answered /\ talk'.busy

Met(c) == {d \in run : d.op # "chat" /\ Aide!Touches(d) \cap Aide!Touches(c) # {}}
EnteredOffice(new) ==
  /\ Entered(new) /\ new.op # "chat" /\ UNCHANGED talk
  /\ raced' = raced \cup UNION {Aide!Touches(new) \cup Aide!Touches(d) : d \in Met(new)}
  /\ new.op = "drop" => new.preset \in Presets
                        /\ \A a \in Aide!There : agent[a].preset # new.preset

\* the choice of an agent, ...
Turned ==
  /\ UNCHANGED <<agent, preset, wish, owner, history, run, raced, calls, faults>>
  /\ talk' \in Aide!Talk /\ talk'.session = 0 /\ talk'.answered = << >>
  /\ strayed' = (strayed \/ Aide!Waiting # {})

\* an answer that the page shows, an excuse, or what it does not wait for, ...
Heard(c) ==
  /\ c \in run /\ c.op = "chat" /\ run' = run \ {c}
  /\ UNCHANGED <<agent, preset, wish, owner, history, raced, strayed, calls, faults>>
  /\ talk' \in Aide!Talk
  /\ \/ /\ c.waits /\ c.at = "answered" /\ talk'.session = c.session /\ talk'.agent = talk.agent
        /\ talk'.answered = Append(talk.answered, c.n)
     \/ /\ c.at = "refused" \/ ~ c.waits
        /\ talk'.session = talk.session /\ talk'.agent = talk.agent /\ talk'.answered = talk.answered
        /\ c.waits \/ talk' = talk

\* the steps of a chat on the server, ...
Moved1(c, new) ==
  /\ c \in run /\ c.op = "chat" /\ run' = (run \ {c}) \cup {new} /\ new \in Aide!Request
  /\ new.op = "chat" /\ new.n = c.n /\ new.agent = c.agent /\ new.preset = c.preset
  /\ UNCHANGED <<agent, preset, wish, raced, strayed, calls>>

Looked1(c, new) ==
  /\ Moved1(c, new) /\ UNCHANGED <<talk, faults>> /\ (new.waits <=> c.waits)
  /\ c.at = "sent" /\ new.at = "asked"
  /\ IF c.session = 0
     THEN /\ owner' = Append(owner, c.agent) /\ history' = Append(history, << >>)
          /\ new.session = Len(owner) + 1 /\ new.given = c.given
     ELSE /\ UNCHANGED <<owner, history>> /\ new.session = c.session
          /\ new.given = history[c.session]

Told1(c, new) ==
  /\ Moved1(c, new) /\ UNCHANGED <<talk, owner, faults>> /\ (new.waits <=> c.waits)
  /\ c.at = "asked" /\ new.at = "answered" /\ new.session = c.session
  /\ history' = [history EXCEPT ![c.session] = Aide!Remember(history[c.session], c.n)]

NoAnswer(c, new) ==
  /\ Moved1(c, new) /\ UNCHANGED <<talk, owner, history>> /\ (new.waits <=> c.waits)
  /\ new.at = "refused"
  /\ \/ faults' = faults /\ c.at = "sent"
     \/ faults < MaxFaults /\ faults' = faults + 1

Tired(c, new) ==
  /\ Moved1(c, new) /\ UNCHANGED <<owner, history>> /\ c.waits /\ ~ new.waits
  /\ new.at = c.at /\ new.session = c.session /\ new.given = c.given
  /\ faults < MaxFaults /\ faults' = faults + 1
  /\ talk' \in Aide!Talk /\ talk'.session = talk.session
  /\ talk'.agent = talk.agent /\ talk'.answered = talk.answered

\* a restart, and the end of a call about an agent or a preset.
Restarted ==
  /\ UNCHANGED <<agent, preset, wish, owner, talk, raced, calls>>
  /\ history' = [s \in DOMAIN history |-> << >>]
  /\ \A c \in run' : c \in Aide!Request /\ c.op = "chat" /\ c.at = "refused"
  /\ strayed' /\ strayed' \in BOOLEAN /\ faults < MaxFaults /\ faults' = faults + 1

Closed(c) ==
  /\ c \in run /\ c.op # "chat" /\ run' = run \ {c}
  /\ UNCHANGED <<owner, history, talk, raced, strayed, calls, faults>>
  /\ \/ UNCHANGED <<agent, preset, wish>>
     \/ /\ c.op = "drop" /\ UNCHANGED wish /\ preset' \subseteq preset
        /\ agent' = [a \in Agents |->
             IF agent[a].preset = c.preset THEN [agent[a] EXCEPT !.preset = None] ELSE agent[a]]
     \/ /\ c.op # "drop" /\ UNCHANGED preset
        /\ \E r \in AgentRow :
             /\ agent' = [agent EXCEPT ![c.agent] = r]
             /\ wish' = [wish EXCEPT ![c.agent] = r.preset]
             /\ r.there => r.preset = c.preset \/ (c.op = "toggle" /\ r.preset = agent[c.agent].preset
                                                    /\ c.agent \in Aide!There)

\* A history may have more than the page shows, and lacks an answer only if it is full; where
\* nothing went wrong it is the end of what the page shows.
Recalls(h, heard) == Len(h) < MaxHistory => Aide!Range(heard) \subseteq Aide!Range(h)
Fits(h, heard, wrong) == Recalls(h, heard) /\ (wrong = 0 => h = Aide!Suffix(heard, MaxHistory))

\* Two calls about the same agent or preset were seen to overlap; a preset that is being
\* dropped is used by no agent, unless they did.
OfficeApart ==
  \A c, d \in run : c # d /\ c.op # "chat" /\ d.op # "chat" /\ Aide!Touches(c) \cap Aide!Touches(d) # {}
    => Aide!Touches(c) \cup Aide!Touches(d) \subseteq raced
DroppedUnused ==
  \A c \in run : c.op = "drop" /\ c.preset \notin raced => \A a \in Aide!There : agent[a].preset # c.preset
AgentsKept == OfficeApart /\ DroppedUnused /\ Aide!KeepsPresetUnlessRaced

\* The page waits for one question at most, which it asked its agent; what it shows is in the
\* history of its session and in what the model was given.
OneAsked ==
  /\ \A c, d \in Aide!Waiting : c = d
  /\ Aide!Waiting # {} => talk.busy
  /\ faults = 0 => \A c \in run : c.op = "chat" => c.waits
Carried(c) ==
  /\ c.agent = talk.agent
  /\ c.at = "sent" => c.session = talk.session
  /\ c.at \in {"asked", "answered"} => owner[c.session] = talk.agent /\ talk.session \in {0, c.session}
  /\ c.at = "asked" => /\ Fits(c.given, talk.answered, faults)
                       /\ Fits(history[c.session], talk.answered, faults)
  /\ c.at = "answered" => Fits(history[c.session], Append(talk.answered, c.n), faults)
PageHas ==
  IF talk.session = 0
  THEN talk.answered = << >>
  ELSE /\ owner[talk.session] = talk.agent /\ Recalls(history[talk.session], talk.answered)
       /\ (\A c \in Aide!Waiting : c.at # "answered")
            => Fits(history[talk.session], talk.answered, faults)
TalkKept == ~ strayed => OneAsked /\ PageHas /\ \A c \in Aide!Waiting : Carried(c)

AdvisorInv == AdvisorTyped /\ AgentsKept /\ TalkKept

-----------------------------------------------------------------------------
(* Drafting *)

DraftVars == <<drafting, run, calls, faults>>

FormType == [text: Editor!Texts, roles: Editor!RoleForms]
DraftRow == [status: {"none", "draft", "published"}, text: Editor!Texts, roles: Editor!RoleForms,
             page: 0..MaxPages]

\* What a save carries, with the page and the draft that are on the screen.
SaveCall(c) ==
  /\ c \in Editor!Save /\ c.page <= page
  /\ c.op # "create" \/ c.done => c.on \in Drafts
  /\ c.op = "publish" => c.kind = "publish"
  /\ Editor!Mine(c) /\ c.op # "create" /\ c.kind # "publish" => draft # None
DraftTyped == Editor!TypeOK /\ \A c \in run : SaveCall(c)

\* What the steps do: the page is opened, a draft is loaded, the form is changed, ...
DraftOpened ==
  /\ ~ shown /\ page < MaxPages /\ page' = page + 1 /\ shown' = TRUE
  /\ loading' \in Drafts \cup {None} /\ mixed' = (mixed \/ run # {})
  /\ UNCHANGED <<form, draft, timer, stored, pressed, run, calls, faults>>
DraftLoaded ==
  /\ shown /\ loading \in Drafts /\ draft' = loading /\ loading' = None
  /\ form' \in FormType /\ timer' = TRUE
  /\ UNCHANGED <<page, shown, stored, pressed, run, mixed, calls, faults>>
DraftEdited ==
  /\ shown /\ form' \in FormType /\ timer' \in BOOLEAN
  /\ mixed' = (mixed \/ loading # None \/ Editor!Pressed("publish"))
  /\ UNCHANGED <<page, shown, draft, loading, stored, pressed, run, calls, faults>>

\* the page is left, and the saves in r go on, ...
PageLeft(r) ==
  /\ shown /\ shown' = FALSE /\ timer' = FALSE /\ form' \in FormType /\ draft' = None /\ loading' = None
  /\ r \subseteq run
  /\ run' = {IF Editor!Mine(c) THEN [c EXCEPT !.asked = form] ELSE c : c \in r}
  /\ faults' \in {faults, faults + 1} /\ faults' \in 0..MaxFaults
  /\ UNCHANGED <<page, stored, pressed, mixed, calls>>

\* a save begins, ...
SaveBegan(new) ==
  /\ shown /\ run' = run \cup {new} /\ new \in Editor!Save /\ new.page = page /\ ~ new.done
  /\ IF draft = None THEN new.op = "create" ELSE new.op = "update" /\ new.on = draft
  /\ new.text = form.text /\ new.roles = form.roles
  /\ new.kind = "publish" => new.asked = form /\ Editor!Chosen(form.roles)
  /\ mixed' = (mixed \/ run # {} \/ loading # None)
  /\ timer' \in BOOLEAN /\ calls' \in 0..Calls["drafting"]
  /\ UNCHANGED <<page, shown, form, draft, loading, stored, pressed, faults>>
TimerGone ==
  /\ timer' = FALSE /\ UNCHANGED <<page, shown, form, draft, loading, stored, pressed, run, mixed, calls, faults>>

\* goes on, ...
SaveMoved(c, new) ==
  /\ c \in run /\ run' = (run \ {c}) \cup {new} /\ new \in Editor!Save
  /\ new.kind = c.kind /\ new.page = c.page /\ new.asked = c.asked
  /\ UNCHANGED <<page, shown, form, draft, loading, timer, mixed, calls, faults>>
SaveCreated(c, new, d) ==
  /\ SaveMoved(c, new) /\ ~ c.done /\ c.op = "create" /\ new.done /\ new.op = "create" /\ new.on = d
  /\ d \in Drafts /\ stored[d].status = "none" /\ UNCHANGED pressed
  /\ stored' = [stored EXCEPT ![d] =
                  [status |-> "draft", text |-> c.text, roles |-> c.roles, page |-> c.page]]
SaveWrote(c, new) ==
  /\ SaveMoved(c, new) /\ ~ c.done /\ c.op # "create" /\ new.done /\ new.op = c.op /\ new.on = c.on
  /\ stored[c.on].status = "draft"
  /\ \E r \in DraftRow :
       /\ stored' = [stored EXCEPT ![c.on] = r] /\ r.page = stored[c.on].page
       /\ r.text.title = IF c.op = "update" THEN c.text.title ELSE stored[c.on].text.title
       /\ r.roles = IF c.op = "roles" THEN c.roles ELSE stored[c.on].roles
       /\ r.status = IF c.op = "publish" THEN "published" ELSE "draft"
  /\ pressed' = IF c.op = "publish" THEN [pressed EXCEPT ![c.on] = c.asked] ELSE pressed
SaveWent(c, new) ==
  /\ SaveMoved(c, new) /\ c.done /\ ~ new.done /\ UNCHANGED <<stored, pressed>>
  /\ new.op = Editor!NextOp(c) /\ new.op # "end" /\ new.roles = Editor!Roles(c)
  /\ c.op = "create" => c.kind = "publish"
  /\ new.on = IF c.kind # "publish" /\ Editor!Mine(c) THEN draft ELSE c.on

\* and ends: it failed, was refused, or is done.
SaveEnded(c) ==
  /\ c \in run /\ run' = run \ {c} /\ faults' \in 0..MaxFaults /\ draft' \in Drafts \cup {None}
  /\ UNCHANGED <<page, shown, form, loading, timer, stored, pressed, mixed, calls>>
  /\ \/ faults' = faults + 1 /\ draft' = draft
     \/ /\ faults' = faults /\ draft' = draft /\ ~ c.done /\ c.op # "create"
        /\ stored[c.on].status = "draft" => c.op = "publish" /\ ~ Editor!Chosen(stored[c.on].roles)
     \/ faults' = faults /\ ~ shown /\ draft' = draft
     \/ /\ faults' = faults /\ shown /\ c.kind = "auto" /\ c.done
        /\ IF c.op = "create" /\ Editor!Mine(c) THEN draft' = c.on ELSE draft' = draft

DraftTypes ==
  /\ page \in 0..MaxPages /\ shown \in BOOLEAN /\ timer \in BOOLEAN /\ mixed \in BOOLEAN
  /\ form \in FormType /\ draft \in Drafts \cup {None} /\ loading \in Drafts \cup {None}
  /\ stored \in [Drafts -> DraftRow] /\ pressed \in [Drafts -> FormType]
  /\ calls \in 0..Calls["drafting"] /\ faults \in 0..MaxFaults

\* As long as saves have not mixed there is one at a time, of the page that is open, ...
OneSave ==
  /\ \A c, d \in run : c = d
  /\ \A c \in run : c.page = page
  /\ loading # None => run = {}

\* what it publishes has become, step by step, what was on the form, ...
HasText(c) == c.done \/ c.op \in {"roles", "publish"}
HasRoles(c) == c.op = "publish" \/ (c.done /\ c.op \in {"create", "roles"})
Publishes(c) ==
  /\ Editor!Chosen(c.asked.roles) /\ (shown => c.asked = form)
  /\ c.op \in {"create", "update"} /\ ~ c.done => c.text = c.asked.text
  /\ c.op \in {"create", "roles"} /\ ~ c.done => c.roles = c.asked.roles
  /\ HasText(c) => stored[c.on].text.title = c.asked.text.title
  /\ HasRoles(c) => stored[c.on].roles = c.asked.roles
PublishedIs ==
  \A d \in Drafts : stored[d].status = "published" =>
    stored[d].text.title = pressed[d].text.title /\ stored[d].roles = pressed[d].roles

\* and where nothing failed, the page has a task only after it was created.
Fresh == \A d \in Drafts : stored[d].status # "none" => stored[d].page # page
TaskEach ==
  /\ \A d \in Drafts : stored[d].status # "none" => stored[d].page <= page
  /\ \A d, e \in Drafts :
       stored[d].status # "none" /\ stored[e].status # "none" /\ stored[d].page = stored[e].page => d = e
  /\ shown /\ draft = None /\ run = {} => Fresh
  /\ \A c \in run : c.op = "create" /\ ~ c.done => Fresh
  /\ \A c \in run : c.op = "create" /\ c.done => stored[c.on].status = "draft"
  /\ \A c \in run : shown /\ draft = None /\ c.kind = "publish" /\ c.op # "create"
       => c.op = "publish" /\ (~ c.done => stored[c.on].status = "draft")
Unmixed ==
  /\ OneSave /\ (\A c \in run : c.kind = "publish" => Publishes(c)) /\ PublishedIs
  /\ faults = 0 => TaskEach
DraftInv == DraftTyped /\ (~ mixed => Unmixed)

-----------------------------------------------------------------------------
(* The bell *)

BellVars == <<note, items, count, run, calls, faults>>

BellRequest(h) ==
  /\ h \in Notice!Request /\ h.count \in 0..Cardinality(Notes)
  /\ h.items \cap Applied = {}

\* What requests have counted and listed, the bell can show.
BellTyped ==
  /\ note \in [Notes -> {"none", "unread", "read"}]
  /\ items \subseteq Notes \ Applied /\ count \in 0..Cardinality(Notes)
  /\ \A h \in run : BellRequest(h)
  /\ calls \in 0..Calls["bell"] /\ faults \in 0..MaxFaults

-----------------------------------------------------------------------------
(* Types *)

\* What the invariants of projects, reviews and cards leave open.
ProjectRest ==
  /\ past \subseteq Milestones /\ loose \subseteq Tasks
  /\ raced \subseteq Milestones \cup {"new", "phase"} /\ calls \in 0..Calls["project"]
ReviewRest ==
  /\ rated \subseteq Assignments /\ raced \subseteq Assignments
  /\ calls \in 0..Calls["reviews"] /\ faults \in 0..MaxFaults
IdentityRest ==
  calls \in 0..Calls["identity"] /\ (typed # << >> => calls < Calls["identity"])

Rests ==
  /\ area = "project" => ProjectRest
  /\ area = "reviews" => ReviewRest
  /\ area = "identity" => IdentityInv /\ IdentityRest

=============================================================================
