-------------------------------- MODULE Reviews --------------------------------
(***************************************************************************)
(* The reviews two sides give each other after an assignment                 *)
(* (review.service.ts): isVisible says whether a review is on the worker's    *)
(* public page, and the rating of the worker is recomputed after every        *)
(* review by a company.                                                     *)
(***************************************************************************)
EXTENDS Integers, FiniteSets

CONSTANTS
  Assignments,  \* completed assignments of one worker
  MaxCalls,     \* bound: calls of _submitReview
  MaxFaults     \* bound: calls that stop half way

VARIABLES
  review,   \* of each assignment and side: none, hidden or shown on the page (isVisible)
  rated,    \* the assignments whose review by the company is in the worker's avgRating
  run,      \* calls under way
  raced,    \* history: assignments whose calls overlapped or stopped half way
  calls, faults

reviewVars == <<review, rated>>
vars == <<reviewVars, run, raced, calls, faults>>

Sides == {"company", "worker"}
Other(s) == IF s = "company" THEN "worker" ELSE "company"

\* A call: other is the review of the other side as it was read, sum the company's
\* reviews the average is taken over.
Call == [n: Nat, of: Assignments, side: Sides, at: {"other", "create", "show", "sum", "rate"},
         other: {"none", "hidden", "shown"}, sum: SUBSET Assignments]

Init ==
  /\ review = [a \in Assignments |-> [s \in Sides |-> "none"]]
  /\ rated = {}
  /\ run = {} /\ raced = {} /\ calls = 0 /\ faults = 0

Goes(h, to) == run' = (run \ {h}) \cup {to}
Ends(h) == run' = run \ {h}
BothRated(a) == \A s \in Sides : review[a][s] # "none"
ByCompany == {a \in Assignments : review[a]["company"] # "none"}

\* A worker's review ends the call; a company's goes on to the rating.
Then(h) == IF h.side = "company" THEN Goes(h, [h EXCEPT !.at = "sum"]) ELSE Ends(h)

-----------------------------------------------------------------------------
(* Faulty variants of operators below; not part of the specification.        *)

\* a second review that leaves the first one hidden
ShowForgets(h) ==
  /\ h \in run /\ h.at = "show"
  /\ Then(h)
  /\ UNCHANGED <<reviewVars, raced, calls, faults>>

-----------------------------------------------------------------------------
\* The assignment is completed, and this side has not reviewed it.
Begin(a, s) ==
  /\ calls < MaxCalls /\ calls' = calls + 1
  /\ review[a][s] = "none"
  /\ run' = run \cup {[n |-> calls, of |-> a, side |-> s, at |-> "other", other |-> "none",
                       sum |-> {}]}
  \* two companies' calls for the worker meet in the rating
  /\ LET meets(h) == h.of = a \/ (s = "company" /\ h.side = s)
     IN raced' = raced \cup UNION {{a, h.of} : h \in {g \in run : meets(g)}}
  /\ UNCHANGED <<reviewVars, faults>>

LookOther(h) ==
  /\ h \in run /\ h.at = "other"
  /\ Goes(h, [h EXCEPT !.at = "create", !.other = review[h.of][Other(h.side)]])
  /\ UNCHANGED <<reviewVars, raced, calls, faults>>

\* A second review of one side is refused by the unique index.
Create(h) ==
  /\ h \in run /\ h.at = "create"
  /\ IF review[h.of][h.side] # "none" THEN Ends(h) /\ UNCHANGED review
     ELSE /\ review' = [review EXCEPT ![h.of][h.side] =
                          IF h.other = "none" THEN "hidden" ELSE "shown"]
          /\ IF h.other = "hidden" THEN Goes(h, [h EXCEPT !.at = "show"]) ELSE Then(h)
  /\ UNCHANGED <<rated, raced, calls, faults>>

Show(h) ==
  /\ h \in run /\ h.at = "show"
  /\ review' = [review EXCEPT ![h.of][Other(h.side)] = "shown"]
  /\ Then(h)
  /\ UNCHANGED <<rated, raced, calls, faults>>

\* updateWorkerAvgRating: the average is read in one statement and written in another.
Sum(h) ==
  /\ h \in run /\ h.at = "sum"
  /\ Goes(h, [h EXCEPT !.at = "rate", !.sum = ByCompany])
  /\ UNCHANGED <<reviewVars, raced, calls, faults>>

Rate(h) ==
  /\ h \in run /\ h.at = "rate"
  /\ rated' = h.sum
  /\ Ends(h)
  /\ UNCHANGED <<review, raced, calls, faults>>

\* A restart or a database error; the call cannot be repeated once the review is stored.
Stop(h) ==
  /\ h \in run /\ faults < MaxFaults
  /\ faults' = faults + 1
  /\ Ends(h) /\ raced' = raced \cup {h.of}
  /\ UNCHANGED <<reviewVars, calls>>

Next ==
  \/ \E a \in Assignments, s \in Sides : Begin(a, s)
  \/ \E h \in run : LookOther(h) \/ Create(h) \/ Show(h) \/ Sum(h) \/ Rate(h) \/ Stop(h)

Spec == Init /\ [][Next]_vars

-----------------------------------------------------------------------------
(* Properties *)

TypeOK ==
  /\ review \in [Assignments -> [Sides -> {"none", "hidden", "shown"}]]
  /\ rated \subseteq Assignments /\ raced \subseteq Assignments
  /\ run \subseteq Call
  /\ calls \in 0..MaxCalls /\ faults \in 0..MaxFaults

\* No review is on the worker's public page (getWorkerReviews) before both sides have given
\* theirs, whatever overlaps and wherever a call stops; and when nothing overlapped or
\* stopped, both are visible as soon as the calls are over.
VisibleAfterBoth ==
  \A a \in Assignments :
    /\ \A s \in Sides : review[a][s] = "shown" => BothRated(a)
    /\ BothRated(a) /\ a \notin raced /\ ~(\E h \in run : h.of = a)
         => \A s \in Sides : review[a][s] = "shown"

\* The worker's rating counts every review by a company, unless two of them overlapped
\* or one stopped half way.
RatingCountsAll ==
  raced = {} /\ run = {} => rated = ByCompany
=============================================================================
