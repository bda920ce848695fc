---------------------------------- MODULE Bell ----------------------------------
(***************************************************************************)
(* The notifications of one user of a company                                *)
(* (company-notification.service.ts) and the bell that shows them             *)
(* (NotificationBell.vue).  It polls for the number of unread ones, and also  *)
(* counts on its own.                                                       *)
(***************************************************************************)
EXTENDS Integers, FiniteSets

CONSTANTS
  Notes,      \* notifications that can be created
  Applied,    \* those of type task_application, which no list shows
  MaxCalls,   \* bound: requests of the user
  MaxFaults   \* bound: requests that fail

VARIABLES
  note,     \* rows: none, unread (isRead = false) or read
  items, count,   \* of the bell: the ones it shows, and unreadCount
  run,      \* requests under way
  calls, faults

bell == <<items, count>>
vars == <<note, bell, run, calls, faults>>

\* What a request still has to do in the database, and what it has read there.
Request == [n: 0..MaxCalls, op: {"poll", "list", "mark", "all"},
            left: SUBSET {"rows", "unread", "mark", "all"}, items: SUBSET Notes, count: Nat,
            on: SUBSET Notes]

Init ==
  /\ note = [i \in Notes |-> "none"]
  /\ items = {} /\ count = 0
  /\ run = {} /\ calls = 0 /\ faults = 0

Unread == {i \in Notes : note[i] = "unread"}

\* A click counts down here, too.
Clicked(on) == items' = items \ on /\ count' = IF count > 0 THEN count - 1 ELSE 0

-----------------------------------------------------------------------------
(* Faulty variants of operators below; not part of the specification.        *)

\* only while there is a number to correct
PollIfLit ==
  /\ \A h \in run : h.op # "poll"
  /\ count > 0
  /\ run' = run \cup {[n |-> 0, op |-> "poll", left |-> {"unread"}, items |-> {}, count |-> 0,
                      on |-> {}]}
  /\ UNCHANGED <<note, bell, calls, faults>>

-----------------------------------------------------------------------------
\* create and createMany, by the services the notification is about
Create(i) ==
  /\ note[i] = "none" /\ note' = [note EXCEPT ![i] = "unread"]
  /\ UNCHANGED <<bell, run, calls, faults>>

Send(n, op, todo, on) ==
  run' = run \cup {[n |-> n, op |-> op, left |-> todo, items |-> {}, count |-> 0, on |-> on]}

\* refreshUnread, every 30 seconds
Poll ==
  /\ \A h \in run : h.op # "poll"
  /\ Send(0, "poll", {"unread"}, {})
  /\ UNCHANGED <<note, bell, calls, faults>>

Call == calls < MaxCalls /\ calls' = calls + 1 /\ UNCHANGED <<note, bell, faults>>

\* loadRecent when it is opened, handleClick of one that is shown, which can be clicked again
\* before the answer, and handleMarkAll
Open == Call /\ Send(calls', "list", {"rows", "unread"}, {})
Click(i) == Call /\ i \in items /\ Send(calls', "mark", {"mark"}, {i})
MarkAll == Call /\ Send(calls', "all", {"all"}, {})

-----------------------------------------------------------------------------
\* A request does what is left in any order: list reads rows and counts side by side.
Serve(h, q) ==
  /\ h \in run /\ q \in h.left
  /\ LET d == [h EXCEPT !.left = @ \ {q}]
     IN run' = (run \ {h}) \cup
          {CASE q = "rows"   -> [d EXCEPT !.items = Unread \ Applied]
             [] q = "unread" -> [d EXCEPT !.count = Cardinality(Unread)]
             [] OTHER        -> d}
  /\ note' = CASE q = "mark" -> [i \in Notes |-> IF i \in h.on THEN "read" ELSE note[i]]
               [] q = "all"  -> [i \in Notes |-> IF i \in Unread THEN "read" ELSE note[i]]
               [] OTHER      -> note
  /\ UNCHANGED <<bell, calls, faults>>

Answer(h) ==
  /\ h \in run /\ h.left = {} /\ run' = run \ {h}
  /\ CASE h.op = "poll" -> count' = h.count /\ UNCHANGED items
       [] h.op = "list" -> items' = h.items /\ count' = h.count
       [] h.op = "mark" -> Clicked(h.on)
       [] h.op = "all"  -> items' = {} /\ count' = 0
  /\ UNCHANGED <<note, calls, faults>>

\* It fails, before or after the server has done it.  A click counts all the same.
Fail(h) ==
  /\ h \in run /\ run' = run \ {h}
  /\ CASE h.op = "list" -> items' = {} /\ UNCHANGED count
       [] h.op = "mark" -> Clicked(h.on)
       [] OTHER         -> UNCHANGED bell
  /\ faults < MaxFaults /\ faults' = faults + 1
  /\ UNCHANGED <<note, calls>>

Goes(op) == \E h \in run : h.op = op /\ (Answer(h) \/ \E q \in h.left : Serve(h, q))

Next ==
  \/ \E i \in Notes : Create(i) \/ Click(i)
  \/ Poll \/ Open \/ MarkAll
  \/ Goes("poll") \/ Goes("list") \/ Goes("mark") \/ Goes("all")
  \/ \E h \in run : Fail(h)

Spec == Init /\ [][Next]_vars

\* The timer of the bell goes on, and requests are answered.
FairSpec ==
  /\ Spec /\ WF_vars(Poll)
  /\ WF_vars(Goes("poll")) /\ WF_vars(Goes("list"))
  /\ WF_vars(Goes("mark")) /\ WF_vars(Goes("all"))

-----------------------------------------------------------------------------
(* Properties *)

TypeOK ==
  /\ note \in [Notes -> {"none", "unread", "read"}]
  /\ items \subseteq Notes \ Applied /\ count \in 0..Cardinality(Notes)
  /\ run \subseteq Request
  /\ calls \in 0..MaxCalls /\ faults \in 0..MaxFaults

\* The bell counts down at every click, twice for two clicks on one notification and also
\* when the request failed, and shows the answers of polls that are older than that.  When
\* nothing more happens it comes to show the number of unread notifications, and stays so.
BadgeSettles == <>[](count = Cardinality(Unread))
=============================================================================
