--------------------------------- MODULE Market ---------------------------------
(***************************************************************************)
(* The page of the mini-program on which workers look for tasks                *)
(* (pages/marketplace/index.tsx): filters, a keyword, and a list that grows by *)
(* a page when it is scrolled to its end.  Choosing a filter sets a timer,    *)
(* whose callback is of the rendering before: it asks for what was chosen     *)
(* before, and knows whether a list was on its way then.                      *)
(***************************************************************************)
EXTENDS Integers, Sequences

CONSTANTS
  Queries,     \* filters with a keyword
  LastPage,    \* pages that every query has
  MaxCalls,    \* bound: what the worker does
  MaxFaults    \* bound: requests that fail

VARIABLES
  query,    \* what the filters and the keyword say
  found,    \* the pages on the screen, each with the query it is of
  pageNo,   \* the last of them
  waiting,  \* a list is on its way, as far as the page knows
  timers,   \* timers that are set, with what their callbacks have captured
  run,      \* requests
  clean,    \* history: a first page for what is chosen came when nothing else was under way
  calls, faults

vars == <<query, found, pageNo, waiting, timers, run, clean, calls, faults>>

Timer == [n: Nat, of: Queries, busy: BOOLEAN]
Request == [n: Nat, of: Queries, page: Nat]

Init ==
  /\ query \in Queries
  /\ found = << >> /\ pageNo = 1 /\ waiting = FALSE
  /\ timers = {} /\ run = {} /\ clean = FALSE /\ calls = 0 /\ faults = 0

Acts == calls < MaxCalls /\ calls' = calls + 1 /\ UNCHANGED <<found, pageNo, faults>>

\* loadTasks, called in a rendering with this query and this waiting
loadTasks(n, q, busy, p) ==
  IF busy THEN UNCHANGED <<waiting, run>>
  ELSE waiting' = TRUE /\ run' = run \cup {[n |-> n, of |-> q, page |-> p]}

-----------------------------------------------------------------------------
(* The worker *)

\* useDidShow, and onSearch
Show ==
  /\ Acts /\ loadTasks(calls, query, waiting, 1)
  /\ UNCHANGED <<query, timers, clean>>

\* onScrollToLower
Scroll ==
  /\ Acts /\ found # << >> /\ pageNo < LastPage
  /\ loadTasks(calls, query, waiting, pageNo + 1)
  /\ UNCHANGED <<query, timers, clean>>

\* The keyword changes nothing else until it is searched for.
Type(q) ==
  /\ Acts /\ query' = q /\ clean' = FALSE
  /\ UNCHANGED <<waiting, timers, run>>

\* selectFilter, and the sort order
Choose(q) ==
  /\ Acts /\ query' = q /\ clean' = FALSE
  /\ timers' = timers \cup {[n |-> calls, of |-> query, busy |-> waiting]}
  /\ UNCHANGED <<waiting, run>>

-----------------------------------------------------------------------------
(* Timers and answers *)

Fire(t) ==
  /\ timers' = timers \ {t} /\ loadTasks(t.n, t.of, t.busy, 1)
  /\ UNCHANGED <<query, found, pageNo, clean, calls, faults>>

Answer(r) ==
  /\ run' = run \ {r} /\ waiting' = FALSE
  /\ found' = LET one == <<[of |-> r.of, page |-> r.page]>>
              IN IF r.page = 1 THEN one ELSE found \o one
  /\ pageNo' = r.page
  /\ clean' = IF r.page = 1 THEN r.of = query /\ run' = {} /\ timers = {} ELSE clean
  /\ UNCHANGED <<query, timers, calls, faults>>

Fail(r) ==
  /\ faults < MaxFaults /\ faults' = faults + 1
  /\ run' = run \ {r} /\ waiting' = FALSE
  /\ UNCHANGED <<query, found, pageNo, timers, clean, calls>>

Next ==
  \/ Show \/ Scroll
  \/ \E q \in Queries : Type(q) \/ Choose(q)
  \/ \E t \in timers : Fire(t)
  \/ \E r \in run : Answer(r) \/ Fail(r)

Spec == Init /\ [][Next]_vars

-----------------------------------------------------------------------------
(* Properties *)

TypeOK ==
  /\ query \in Queries
  /\ found \in Seq([of: Queries, page: 1..LastPage]) /\ pageNo \in 1..LastPage
  /\ waiting \in BOOLEAN /\ timers \subseteq Timer /\ run \subseteq Request
  /\ clean \in BOOLEAN /\ calls \in 0..MaxCalls /\ faults \in 0..MaxFaults

\* The list is the first pages of what is chosen, each once and in their order, however it is
\* scrolled and shown again, from the time a first page came for it when nothing else was
\* under way.
OneQueryOnceClean ==
  clean => found = [i \in 1..pageNo |-> [of |-> query, page |-> i]]
=============================================================================
