------------------------------- MODULE Attendance -------------------------------
(***************************************************************************)
(* The days a worker on a daily rate checks in, what the company says of      *)
(* them, and the nightly job that confirms what nobody looked at              *)
(* (checkin.service.ts).                                                    *)
(***************************************************************************)
EXTENDS Integers, FiniteSets

CONSTANTS
  LastDay,     \* bound: the last day looked at
  MaxCalls,    \* bound: calls of the handlers
  MaxFaults    \* bound: nights the job does not get through

VARIABLES
  today,
  open,      \* the assignment is accepted, not yet completed
  row,       \* the check-in of each day
  out,       \* days with a checkoutTime
  slept,     \* the nights whose job is over
  run,       \* calls and the job, after their reads
  decided,   \* history: how often a day was confirmed, rejected or auto-confirmed
  excused,   \* history: days whose job failed, or that were checked in on another day
  raced,     \* history: days on which two decisions overlapped
  calls, faults

dayVars == <<open, row, out>>
vars == <<today, dayVars, slept, run, decided, excused, raced, calls, faults>>

Days == 1..LastDay
Status == {"none", "pending", "confirmed", "rejected", "auto_confirmed"}

\* days: the days a call is about, one for the handlers, those found by the job.
Call == [n: Int, op: {"checkin", "checkout", "confirmed", "rejected", "auto_confirmed"},
         days: SUBSET Days]
Decision(h) == h.op \in {"confirmed", "rejected", "auto_confirmed"}

Init ==
  /\ today = 1 /\ open = TRUE
  /\ row = [d \in Days |-> "none"] /\ out = {} /\ slept = {}
  /\ run = {} /\ calls = 0 /\ faults = 0
  /\ decided = [d \in Days |-> 0] /\ excused = {} /\ raced = {}

\* History: a decision on days begins while another on one of them is under way.
NoteRace(days) == raced' = raced \cup UNION {h.days \cap days : h \in {g \in run : Decision(g)}}

Decide(days, to) ==
  /\ row' = [d \in Days |-> IF d \in days THEN to ELSE row[d]]
  /\ decided' = [d \in Days |-> IF d \in days THEN decided[d] + 1 ELSE decided[d]]

Begin(op, d) ==
  /\ calls < MaxCalls /\ calls' = calls + 1
  /\ run' = run \cup {[n |-> calls, op |-> op, days |-> {d}]}
  /\ UNCHANGED <<today, dayVars, slept, decided, excused, faults>>

-----------------------------------------------------------------------------
\* checkin: the day is what the worker says it is.
CheckinRead(d) == open /\ row[d] = "none" /\ Begin("checkin", d) /\ UNCHANGED raced

\* A second row for the day is refused by the unique index.
CheckinWrite(h) ==
  /\ h \in run /\ h.op = "checkin"
  /\ run' = run \ {h}
  /\ LET new == {d \in h.days : row[d] = "none"}
     IN /\ row' = [d \in Days |-> IF d \in new THEN "pending" ELSE row[d]]
        /\ excused' = excused \cup {d \in new : d # today}
  /\ UNCHANGED <<today, open, out, slept, decided, raced, calls, faults>>

CheckoutRead(d) ==
  row[d] # "none" /\ d \notin out /\ Begin("checkout", d) /\ UNCHANGED raced

CheckoutWrite(h) ==
  /\ h \in run /\ h.op = "checkout"
  /\ run' = run \ {h} /\ out' = out \cup h.days
  /\ UNCHANGED <<today, open, row, slept, decided, excused, raced, calls, faults>>

ConfirmRead(d, verdict) ==
  /\ row[d] = "pending"
  /\ NoteRace({d})
  /\ Begin(verdict, d)

ConfirmWrite(h) ==
  /\ h \in run /\ h.op \in {"confirmed", "rejected"}
  /\ run' = run \ {h} /\ Decide(h.days, h.op)
  /\ UNCHANGED <<today, open, out, slept, excused, raced, calls, faults>>

\* autoConfirmCheckins, at 02:30: the pending rows of yesterday, and no other day.
NightRead ==
  /\ today \notin slept /\ ~\E h \in run : h.op = "auto_confirmed"
  /\ LET found == {d \in Days : d = today - 1 /\ row[d] = "pending"}
     IN /\ NoteRace(found)
        /\ IF found = {} THEN slept' = slept \cup {today} /\ UNCHANGED run
           ELSE /\ run' = run \cup {[n |-> -1, op |-> "auto_confirmed", days |-> found]}
                /\ UNCHANGED slept
  /\ UNCHANGED <<today, dayVars, decided, excused, calls, faults>>

\* By id: a row decided since is decided again.
NightWrite(h) ==
  /\ h \in run /\ h.op = "auto_confirmed"
  /\ run' = run \ {h} /\ Decide(h.days, h.op)
  /\ slept' = slept \cup {today}
  /\ UNCHANGED <<today, open, out, excused, raced, calls, faults>>

\* The server is down at 02:30, or the database fails.
NightFail ==
  /\ today \notin slept /\ faults < MaxFaults /\ faults' = faults + 1
  /\ run' = {h \in run : h.op # "auto_confirmed"}
  /\ slept' = slept \cup {today}
  /\ excused' = excused \cup {d \in Days : d = today - 1}
  /\ UNCHANGED <<today, dayVars, decided, raced, calls>>

Tomorrow ==
  /\ today < LastDay /\ today \in slept
  /\ today' = today + 1
  /\ UNCHANGED <<dayVars, slept, run, decided, excused, raced, calls, faults>>

\* The assignment is completed.
Close ==
  /\ open /\ open' = FALSE
  /\ UNCHANGED <<today, row, out, slept, run, decided, excused, raced, calls, faults>>

Next ==
  \/ \E d \in Days : CheckinRead(d) \/ CheckoutRead(d)
  \/ \E d \in Days, verdict \in {"confirmed", "rejected"} : ConfirmRead(d, verdict)
  \/ \E h \in run : CheckinWrite(h) \/ CheckoutWrite(h) \/ ConfirmWrite(h) \/ NightWrite(h)
  \/ NightRead \/ NightFail \/ Tomorrow \/ Close

Spec == Init /\ [][Next]_vars

\* The clock goes on, and the job with it.
Clock == NightRead \/ (\E h \in run : NightWrite(h)) \/ Tomorrow

-----------------------------------------------------------------------------
(* Properties *)

TypeOK ==
  /\ today \in Days /\ open \in BOOLEAN
  /\ row \in [Days -> Status] /\ out \subseteq Days /\ slept \subseteq Days
  /\ run \subseteq Call
  /\ decided \in [Days -> Nat]
  /\ excused \subseteq Days /\ raced \subseteq Days
  /\ calls \in 0..MaxCalls /\ faults \in 0..MaxFaults

\* A day is decided once: what the company said is not said again by the job, nor the
\* other way round, unless two decisions on it overlapped.
DecidedOnceUnlessRaced == \A d \in Days \ raced : decided[d] <= 1

\* No day stays pending once its night is over, except one whose night the job missed
\* (it never looks further back than yesterday) and one that was not checked in on the
\* day itself.
PendingIsDecided ==
  <>[](\A d \in Days : d < LastDay /\ row[d] = "pending" => d \in excused)
=============================================================================
