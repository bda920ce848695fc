------------------------- MODULE Recruitment_proofs -------------------------
(***************************************************************************)
(* Proofs about Recruitment, for any number of handlers and workers and any *)
(* headcount.                                                               *)
(***************************************************************************)
EXTENDS Recruitment, FiniteSetTheorems, SequenceTheorems, TLAPS

-----------------------------------------------------------------------------
(* Continuations *)

LEMMA IdleIsRequest == Idle \in Request
  BY DEF Idle, Request, WorkerOps

\* Starting a handler on a worker, moving it on, or keeping only its row.
LEMMA RequestSteps ==
  ASSUME NEW r \in Request
  PROVE  /\ r.op \in WorkerOps => r.who \in Workers
         /\ r.on \in Nat /\ r.slot \in Nat
         /\ \A w \in Workers, op \in WorkerOps, seen \in {"published", "in_progress", "cancelled"} :
              /\ [Idle EXCEPT !.op = op, !.who = w] \in Request
              /\ [Idle EXCEPT !.op = op, !.who = w, !.seen = seen] \in Request
         /\ \A op \in WorkerOps, s \in Nat :
              r.op \in WorkerOps => /\ [r EXCEPT !.op = op] \in Request
                                    /\ [r EXCEPT !.op = op, !.slot = s] \in Request
         /\ \A op \in RowOps, i \in Nat : [Idle EXCEPT !.op = op, !.on = i] \in Request
         /\ \A op \in RowOps : [r EXCEPT !.op = op] \in Request
         /\ \A op \in TaskOps : [Idle EXCEPT !.op = op] \in Request
  <1> DEFINE Ops == {"idle"} \cup WorkerOps \cup RowOps \cup TaskOps
             Seen == {"none", "published", "in_progress", "cancelled"}
             Rec == [op: Ops, who: Workers \cup {"none"}, on: Nat, slot: Nat, seen: Seen]
  <1>1. /\ r \in Rec
        /\ r.op \in WorkerOps => r.who \in Workers
        /\ \A q \in Rec : (q.op \in WorkerOps => q.who \in Workers) => q \in Request
    BY DEF Request
  <1>2. Idle \in Rec
    BY DEF Idle
  <1>3. WorkerOps \cap RowOps = {} /\ WorkerOps \cap TaskOps = {}
    BY DEF WorkerOps, RowOps, TaskOps
  <1>4. ASSUME NEW w \in Workers, NEW op \in WorkerOps,
               NEW seen \in {"published", "in_progress", "cancelled"}
        PROVE  /\ [Idle EXCEPT !.op = op, !.who = w] \in Request
               /\ [Idle EXCEPT !.op = op, !.who = w, !.seen = seen] \in Request
    <2>1. /\ [Idle EXCEPT !.op = op, !.who = w] \in Rec
          /\ [Idle EXCEPT !.op = op, !.who = w].who = w
          /\ [Idle EXCEPT !.op = op, !.who = w, !.seen = seen] \in Rec
          /\ [Idle EXCEPT !.op = op, !.who = w, !.seen = seen].who = w
      BY <1>2
    <2>2. QED
      BY <1>1, <2>1
  <1>5. ASSUME NEW op \in WorkerOps, NEW s \in Nat, r.op \in WorkerOps
        PROVE  /\ [r EXCEPT !.op = op] \in Request
               /\ [r EXCEPT !.op = op, !.slot = s] \in Request
    <2>1. /\ [r EXCEPT !.op = op] \in Rec
          /\ [r EXCEPT !.op = op].who = r.who
          /\ [r EXCEPT !.op = op, !.slot = s] \in Rec
          /\ [r EXCEPT !.op = op, !.slot = s].who = r.who
      BY <1>1
    <2>2. QED
      BY <1>1, <1>5, <2>1
  <1>6. ASSUME NEW op \in RowOps, NEW i \in Nat
        PROVE  [Idle EXCEPT !.op = op, !.on = i] \in Request
    <2>1. /\ [Idle EXCEPT !.op = op, !.on = i] \in Rec
          /\ [Idle EXCEPT !.op = op, !.on = i].op = op
      BY <1>2
    <2>2. QED
      BY <1>1, <1>3, <2>1
  <1>7. ASSUME NEW op \in RowOps PROVE [r EXCEPT !.op = op] \in Request
    <2>1. [r EXCEPT !.op = op] \in Rec /\ [r EXCEPT !.op = op].op = op
      BY <1>1
    <2>2. QED
      BY <1>1, <1>3, <2>1
  <1>8. ASSUME NEW op \in TaskOps PROVE [Idle EXCEPT !.op = op] \in Request
    <2>1. [Idle EXCEPT !.op = op] \in Rec /\ [Idle EXCEPT !.op = op].op = op
      BY <1>2
    <2>2. QED
      BY <1>1, <1>3, <2>1
  <1>9. QED
    BY <1>1, <1>4, <1>5, <1>6, <1>7, <1>8

-----------------------------------------------------------------------------
(* The rows of the role *)

LEMMA RowsAre ==
  ASSUME rows \in Seq(Row)
  PROVE  /\ Len(rows) \in Nat /\ DOMAIN rows = 1..Len(rows)
         /\ \A i \in DOMAIN rows : rows[i] \in Row /\ i \in Nat
  BY LenProperties, ElementOfSeq

\* The active rows are counted by a number, which is that of all rows only if
\* every row is active.
LEMMA ActiveCount ==
  ASSUME rows \in Seq(Row)
  PROVE  /\ Cardinality(Active) \in Nat
         /\ Cardinality(Active) <= Len(rows)
         /\ Cardinality(Active) = Len(rows) => Active = DOMAIN rows
  <1>1. Len(rows) \in Nat /\ DOMAIN rows = 1..Len(rows)
    BY RowsAre
  <1>2. IsFiniteSet(DOMAIN rows) /\ Cardinality(DOMAIN rows) = Len(rows)
    BY <1>1, FS_Interval
  <1>3. Active \in SUBSET (DOMAIN rows)
    BY DEF Active
  <1>4. QED
    BY <1>2, <1>3, FS_Subset, FS_CardinalityType

\* Updating the state of a row, or its clock, leaves everything else.
RowsKept ==
  /\ rows' \in Seq(Row)
  /\ Len(rows') = Len(rows) /\ DOMAIN rows' = DOMAIN rows
  /\ \A j \in DOMAIN rows : /\ rows'[j].worker = rows[j].worker
                            /\ rows'[j].slot = rows[j].slot
                            /\ rows'[j].invited = rows[j].invited

LEMMA UpdateKeepsRows ==
  ASSUME rows \in Seq(Row), NEW i \in DOMAIN rows, NEW r \in Row,
         rows' = [rows EXCEPT ![i] = r],
         r.worker = rows[i].worker, r.slot = rows[i].slot, r.invited = rows[i].invited
  PROVE  RowsKept
  <1>1. i \in 1..Len(rows)
    BY RowsAre
  <1>2. /\ rows' \in Seq(Row) /\ Len(rows') = Len(rows)
        /\ \A j \in 1..Len(rows) : rows'[j] = IF j = i THEN r ELSE rows[j]
    BY <1>1, ExceptSeq
  <1>3. DOMAIN rows' = DOMAIN rows
    BY <1>2, RowsAre, LenProperties
  <1>4. QED
    BY <1>2, <1>3, RowsAre DEF RowsKept

LEMMA SetStateKeepsRows ==
  ASSUME rows \in Seq(Row), NEW i \in DOMAIN rows,
         NEW s \in {"accepted", "rejected", "expired", "completed"}, SetState(i, s)
  PROVE  RowsKept
  <1>1. rows[i] \in Row
    BY RowsAre
  <1>2. /\ [rows[i] EXCEPT !.state = s] \in Row
        /\ [rows[i] EXCEPT !.state = s].worker = rows[i].worker
        /\ [rows[i] EXCEPT !.state = s].slot = rows[i].slot
        /\ [rows[i] EXCEPT !.state = s].invited = rows[i].invited
    BY <1>1 DEF Row
  <1>3. rows' = [rows EXCEPT ![i] = [rows[i] EXCEPT !.state = s]]
    BY DEF SetState
  <1>4. QED
    BY <1>2, <1>3, UpdateKeepsRows

LEMMA LapseKeepsRows ==
  ASSUME rows \in Seq(Row), NEW i \in DOMAIN rows, Lapse(i)
  PROVE  RowsKept
  <1>1. rows[i] \in Row
    BY RowsAre
  <1>2. /\ [rows[i] EXCEPT !.overdue = TRUE] \in Row
        /\ [rows[i] EXCEPT !.overdue = TRUE].worker = rows[i].worker
        /\ [rows[i] EXCEPT !.overdue = TRUE].slot = rows[i].slot
        /\ [rows[i] EXCEPT !.overdue = TRUE].invited = rows[i].invited
    BY <1>1 DEF Row
  <1>3. rows' = [rows EXCEPT ![i] = [rows[i] EXCEPT !.overdue = TRUE]]
    BY DEF Lapse
  <1>4. QED
    BY <1>2, <1>3, UpdateKeepsRows

\* A new row comes last.
LEMMA NewRow ==
  ASSUME rows \in Seq(Row), NEW r \in Row, rows' = Append(rows, r)
  PROVE  /\ rows' \in Seq(Row)
         /\ Len(rows') = Len(rows) + 1
         /\ DOMAIN rows' = DOMAIN rows \cup {Len(rows) + 1}
         /\ Len(rows) + 1 \notin DOMAIN rows
         /\ \A j \in DOMAIN rows : rows'[j] = rows[j]
         /\ rows'[Len(rows) + 1] = r
  <1>1. /\ rows' \in Seq(Row) /\ Len(rows') = Len(rows) + 1
        /\ \A j \in 1..Len(rows) : rows'[j] = rows[j]
        /\ rows'[Len(rows) + 1] = r
    BY AppendProperties
  <1>2. DOMAIN rows' = 1..(Len(rows) + 1) /\ DOMAIN rows = 1..Len(rows) /\ Len(rows) \in Nat
    BY <1>1, LenProperties, RowsAre
  <1>3. QED
    BY <1>1, <1>2

\* What the commits of inviteWorker and reviewApplication append.
RowOf(r, inv, st) ==
  [worker |-> r.who, slot |-> r.slot, invited |-> inv, overdue |-> FALSE, state |-> st]

LEMMA RowOfIsRow ==
  ASSUME NEW r \in Request, r.op \in WorkerOps, NEW inv \in BOOLEAN,
         NEW st \in {"invited", "accepted"}
  PROVE  RowOf(r, inv, st) \in Row
  BY RequestSteps DEF RowOf, Row

-----------------------------------------------------------------------------
(* Type correctness *)

\* The variables of every reachable state have their types, and a handler that
\* is about to write a row works on a row that exists.
THEOREM TypeCorrect == Spec => []TypeOK
  <1>1. Init => TypeOK
    <2>1. << >> \in Seq(Row)
      BY EmptySeq
    <2>2. Idle.op \notin RowOps
      BY DEF Idle, RowOps
    <2>3. QED
      BY <2>1, <2>2, IdleIsRequest DEF Init, TypeOK
  <1>2. TypeOK /\ [Next]_vars => TypeOK'
    <2> SUFFICES ASSUME TypeOK, [Next]_vars PROVE TypeOK'
      OBVIOUS
    <2>a. /\ status \in {"published", "in_progress", "cancelled"}
          /\ rows \in Seq(Row)
          /\ application \in [Workers -> {"none", "pending", "approved", "rejected"}]
          /\ req \in [Handlers -> Request]
          /\ \A h \in Handlers : req[h].op \in RowOps => req[h].on \in DOMAIN rows
          /\ calls \in Nat /\ faults \in Nat
      BY DEF TypeOK
    \* The tables keep their types, no row goes, and one continuation changes.
    <2>b. ASSUME NEW h \in Handlers, NEW r \in Request,
                 Begin(h, r) \/ Continue(h, r),
                 status' \in {"published", "in_progress", "cancelled"},
                 rows' \in Seq(Row), DOMAIN rows \subseteq DOMAIN rows',
                 application' \in [Workers -> {"none", "pending", "approved", "rejected"}],
                 r.op \in RowOps => r.on \in DOMAIN rows
          PROVE  TypeOK'
      <3>1. /\ req' = [req EXCEPT ![h] = r] /\ calls' \in Nat /\ faults' \in Nat
        BY <2>a, <2>b DEF Begin, Continue
      <3>2. /\ req' \in [Handlers -> Request]
            /\ \A k \in Handlers : req'[k].op \in RowOps => req'[k].on \in DOMAIN rows
        BY <2>a, <2>b, <3>1
      <3>3. QED
        BY <2>a, <2>b, <3>1, <3>2 DEF TypeOK
    \* Steps that only read.
    <2>c. ASSUME NEW h \in Handlers, NEW r \in Request,
                 Begin(h, r) \/ Continue(h, r),
                 UNCHANGED <<status, rows, application>>,
                 r.op \in RowOps => r.on \in DOMAIN rows
          PROVE  TypeOK'
      BY <2>a, <2>b, <2>c
    <2>d. \A h \in Handlers : req[h] \in Request
      BY <2>a
    <2>e. WorkerOps \cap RowOps = {} /\ TaskOps \cap RowOps = {} /\ Idle.op \notin RowOps
      BY DEF WorkerOps, RowOps, TaskOps, Idle
    <2>f. ASSUME NEW h \in Handlers, NEW w \in Workers, NEW op \in WorkerOps
          PROVE  /\ [Idle EXCEPT !.op = op, !.who = w] \in Request
                 /\ [Idle EXCEPT !.op = op, !.who = w].op \notin RowOps
                 /\ [Idle EXCEPT !.op = op, !.who = w, !.seen = status] \in Request
                 /\ [Idle EXCEPT !.op = op, !.who = w, !.seen = status].op \notin RowOps
                 /\ \A n \in Nat : req[h].op \in WorkerOps =>
                      /\ [req[h] EXCEPT !.op = op] \in Request
                      /\ [req[h] EXCEPT !.op = op].op \notin RowOps
                      /\ [req[h] EXCEPT !.op = op, !.slot = n] \in Request
                      /\ [req[h] EXCEPT !.op = op, !.slot = n].op \notin RowOps
      <3>1. \A n \in Nat : req[h].op \in WorkerOps =>
              /\ [req[h] EXCEPT !.op = op] \in Request
              /\ [req[h] EXCEPT !.op = op, !.slot = n] \in Request
        BY <2>d, RequestSteps
      <3>2. \A n \in Nat : /\ [req[h] EXCEPT !.op = op].op = op
                           /\ [req[h] EXCEPT !.op = op, !.slot = n].op = op
        BY <2>d DEF Request
      <3>3. /\ [Idle EXCEPT !.op = op, !.who = w].op = op
            /\ [Idle EXCEPT !.op = op, !.who = w, !.seen = status].op = op
        BY DEF Idle
      <3>4. /\ [Idle EXCEPT !.op = op, !.who = w] \in Request
            /\ [Idle EXCEPT !.op = op, !.who = w, !.seen = status] \in Request
        BY <2>a, IdleIsRequest, RequestSteps
      <3>5. QED
        BY <2>e, <3>1, <3>2, <3>3, <3>4
    <2>g. ASSUME NEW i \in DOMAIN rows, NEW op \in RowOps
          PROVE  /\ [Idle EXCEPT !.op = op, !.on = i] \in Request
                 /\ [Idle EXCEPT !.op = op, !.on = i].on = i
      <3>1. i \in Nat
        BY <2>a, RowsAre
      <3>2. QED
        BY <3>1, IdleIsRequest, RequestSteps DEF Idle
    <2>h. Cardinality(Active) + 1 \in Nat
      BY <2>a, ActiveCount
    \* Steps that set the state of the row they work on.
    <2>i. ASSUME NEW h \in Handlers, NEW r \in Request, Continue(h, r),
                 req[h].op \in RowOps,
                 NEW s \in {"accepted", "rejected", "expired", "completed"},
                 SetState(req[h].on, s), UNCHANGED <<status, application>>,
                 r.op \in RowOps => r.on = req[h].on
          PROVE  TypeOK'
      <3>1. req[h].on \in DOMAIN rows
        BY <2>a, <2>i
      <3>2. RowsKept
        BY <2>a, <2>i, <3>1, SetStateKeepsRows
      <3>3. QED
        BY <2>a, <2>b, <2>i, <3>1, <3>2 DEF RowsKept
    \* Handlers on a worker.
    <2>1. ASSUME NEW h \in Handlers, NEW w \in Workers,
                 InviteCheck(h, w) \/ ApplyCheck(h, w) \/ ReviewReadTask(h, w)
          PROVE  TypeOK'
      <3>1. {"iv_checked", "ap_checked", "rv_task"} \subseteq WorkerOps
        BY DEF WorkerOps
      <3>2. CASE InviteCheck(h, w)
        BY <2>c, <2>f, <3>1, <3>2 DEF InviteCheck
      <3>3. CASE ApplyCheck(h, w)
        BY <2>c, <2>f, <3>1, <3>3 DEF ApplyCheck
      <3>4. CASE ReviewReadTask(h, w)
        BY <2>c, <2>f, <3>1, <3>4 DEF ReviewReadTask
      <3>5. QED
        BY <2>1, <3>2, <3>3, <3>4
    <2>2. ASSUME NEW h \in Handlers, InviteCount(h) \/ ReviewCount(h)
          PROVE  TypeOK'
      <3>1. req[h].op \in WorkerOps /\ req[h].who \in Workers
        BY <2>2, <2>d, RequestSteps DEF InviteCount, ReviewCount, WorkerOps
      <3>2. {"iv_counted", "rv_counted"} \subseteq WorkerOps
        BY DEF WorkerOps
      <3>3. \A op \in {"iv_counted", "rv_counted"} :
              /\ [req[h] EXCEPT !.op = op, !.slot = Cardinality(Active) + 1] \in Request
              /\ [req[h] EXCEPT !.op = op, !.slot = Cardinality(Active) + 1].op \notin RowOps
        BY <2>f, <2>h, <3>1, <3>2
      <3>4. QED
        BY <2>2, <2>c, <3>3 DEF InviteCount, ReviewCount
    <2>3. ASSUME NEW h \in Handlers, ApplyLookup(h) \/ ReviewReadApplication(h)
          PROVE  TypeOK'
      <3>1. req[h].op \in WorkerOps /\ req[h].who \in Workers
        BY <2>3, <2>d, RequestSteps DEF ApplyLookup, ReviewReadApplication, WorkerOps
      <3>2. {"ap_new", "ap_again", "rv_app"} \subseteq WorkerOps
        BY DEF WorkerOps
      <3>3. \A op \in {"ap_new", "ap_again", "rv_app"} :
              /\ [req[h] EXCEPT !.op = op] \in Request
              /\ [req[h] EXCEPT !.op = op].op \notin RowOps
        BY <2>f, <3>1, <3>2
      <3>4. QED
        BY <2>3, <2>c, <3>3 DEF ApplyLookup, ReviewReadApplication
    <2>4. ASSUME NEW h \in Handlers, InviteCreate(h) \/ ReviewCommit(h)
          PROVE  TypeOK'
      <3>1. req[h].op \in WorkerOps
        BY <2>4 DEF InviteCreate, ReviewCommit, WorkerOps
      <3>2. PICK r \in Row : rows' = Append(rows, r)
        BY <2>4, <2>d, <3>1, RowOfIsRow DEF InviteCreate, ReviewCommit, RowOf
      <3>3. rows' \in Seq(Row) /\ DOMAIN rows \subseteq DOMAIN rows'
        BY <2>a, <3>2, NewRow
      <3>4. /\ status' \in {"published", "in_progress", "cancelled"}
            /\ application' \in [Workers -> {"none", "pending", "approved", "rejected"}]
            /\ Continue(h, Idle)
        BY <2>4, <2>a DEF InviteCreate, ReviewCommit, Return
      <3>5. QED
        BY <2>b, <2>e, <3>3, <3>4, IdleIsRequest
    <2>5. ASSUME NEW h \in Handlers, ApplyWrite(h) \/ ReviewDecline(h)
          PROVE  TypeOK'
      <3>1. /\ application' \in [Workers -> {"none", "pending", "approved", "rejected"}]
            /\ Continue(h, Idle) /\ UNCHANGED <<status, rows>>
        BY <2>5, <2>a DEF ApplyWrite, ReviewDecline, Return
      <3>2. QED
        BY <2>a, <2>b, <2>e, <3>1, IdleIsRequest
    \* Handlers on a row.
    <2>6. ASSUME NEW h \in Handlers, NEW i \in DOMAIN rows,
                 AcceptRead(h, i) \/ RejectRead(h, i) \/ CompleteRead(h, i)
          PROVE  TypeOK'
      <3>1. {"ac_late", "ac_ok", "rj_read", "cp_read"} \subseteq RowOps
        BY DEF RowOps
      <3>2. CASE AcceptRead(h, i)
        BY <2>c, <2>g, <3>1, <3>2 DEF AcceptRead
      <3>3. CASE RejectRead(h, i)
        BY <2>c, <2>g, <3>1, <3>3 DEF RejectRead
      <3>4. CASE CompleteRead(h, i)
        BY <2>c, <2>g, <3>1, <3>4 DEF CompleteRead
      <3>5. QED
        BY <2>6, <3>2, <3>3, <3>4
    <2>7. ASSUME NEW h \in Handlers, AcceptExpire(h) \/ RejectWrite(h) \/ CompleteWrite(h)
          PROVE  TypeOK'
      BY <2>7, <2>e, <2>i, IdleIsRequest
         DEF AcceptExpire, RejectWrite, CompleteWrite, Return, RowOps
    <2>8. ASSUME NEW h \in Handlers, AcceptWrite(h) PROVE TypeOK'
      <3>1. /\ [req[h] EXCEPT !.op = "ac_written"] \in Request
            /\ [req[h] EXCEPT !.op = "ac_written"].on = req[h].on
            /\ req[h].op \in RowOps
        <4>1. "ac_written" \in RowOps /\ req[h].op \in RowOps
          BY <2>8 DEF AcceptWrite, RowOps
        <4>2. [req[h] EXCEPT !.op = "ac_written"] \in Request
          BY <2>d, <4>1, RequestSteps
        <4>3. [req[h] EXCEPT !.op = "ac_written"].on = req[h].on
          BY <2>d DEF Request
        <4>4. QED
          BY <4>1, <4>2, <4>3
      <3>2. QED
        BY <2>8, <2>i, <3>1 DEF AcceptWrite
    <2>9. ASSUME NEW h \in Handlers, AcceptReadTask(h) PROVE TypeOK'
      <3>1. /\ [Idle EXCEPT !.op = "ac_task"] \in Request
            /\ [Idle EXCEPT !.op = "ac_task"].op \notin RowOps
        BY IdleIsRequest, RequestSteps DEF TaskOps, RowOps, Idle
      <3>2. QED
        BY <2>9, <2>c, <2>e, <3>1, IdleIsRequest DEF AcceptReadTask, Return
    \* Handlers on the task.
    <2>10. ASSUME NEW h \in Handlers, CancelRead(h) \/ ApproveTaskRead(h)
           PROVE  TypeOK'
      <3>1. \A op \in {"cn_read", "at_read"} :
              /\ [Idle EXCEPT !.op = op] \in Request
              /\ [Idle EXCEPT !.op = op].op \notin RowOps
        BY IdleIsRequest, RequestSteps DEF TaskOps, RowOps, Idle
      <3>2. QED
        BY <2>10, <2>c, <3>1 DEF CancelRead, ApproveTaskRead
    <2>11. ASSUME NEW h \in Handlers, AcceptStart(h) \/ CancelWrite(h) \/ ApproveTaskWrite(h)
           PROVE  TypeOK'
      BY <2>11, <2>a, <2>b, <2>e, IdleIsRequest
         DEF AcceptStart, CancelWrite, ApproveTaskWrite, Return
    <2>12. ASSUME NEW h \in Handlers, Refuse(h) PROVE TypeOK'
      BY <2>12, <2>c, <2>e, IdleIsRequest DEF Refuse, Return
    <2>13. ASSUME NEW i \in DOMAIN rows, Lapse(i) PROVE TypeOK'
      <3>1. rows' \in Seq(Row) /\ DOMAIN rows' = DOMAIN rows
        BY <2>13, <2>a, LapseKeepsRows DEF RowsKept
      <3>2. UNCHANGED <<status, application, req, calls, faults>>
        BY <2>13 DEF Lapse
      <3>3. QED
        BY <2>a, <3>1, <3>2 DEF TypeOK
    <2>14. CASE Restart
      BY <2>14, <2>a, <2>e, IdleIsRequest DEF Restart, TypeOK
    <2>15. CASE UNCHANGED vars
      BY <2>15, <2>a DEF vars, TypeOK
    <2>16. QED
      BY <2>1, <2>2, <2>3, <2>4, <2>5, <2>6, <2>7, <2>8, <2>9, <2>10, <2>11, <2>12,
         <2>13, <2>14, <2>15 DEF Next, Handle
  <1>3. QED
    BY <1>1, <1>2, PTL DEF Spec

-----------------------------------------------------------------------------
(* Slots *)

\* A slot is computed from a count that is stale when the row is made.  What is
\* left of it: the slot is one a role has, and at most the next after the rows
\* there were.  If it still is the next one, no row has been made since, and
\* every row was active: so the invited worker, who was not among the active
\* ones, has no row at all.
Computed(r) ==
  /\ r.op \in {"iv_counted", "rv_counted"} =>
       r.slot \in 1..Headcount /\ r.slot <= Len(rows) + 1
  /\ r.op = "iv_counted" /\ r.slot = Len(rows) + 1 =>
       \A i \in DOMAIN rows : rows[i].worker # r.who

SlotInv ==
  /\ Len(rows) <= Headcount
  /\ SlotsInOrder
  /\ NoSecondInvitation
  /\ \A h \in Handlers : Computed(req[h])

LEMMA SlotInductive ==
  ASSUME TypeOK, SlotInv, [Next]_vars
  PROVE  SlotInv'
  <1>a. /\ rows \in Seq(Row) /\ req \in [Handlers -> Request]
        /\ Len(rows) \in Nat /\ DOMAIN rows = 1..Len(rows)
        /\ \A i \in DOMAIN rows : rows[i] \in Row /\ i \in Nat
        /\ Headcount \in Nat
    BY RowsAre, HeadcountAssumption DEF TypeOK
  \* Rows change at most in their state, and one continuation to a sound one.
  <1>b. ASSUME UNCHANGED rows \/ RowsKept,
               \A k \in Handlers : req'[k] = req[k] \/ Computed(req'[k])
        PROVE  SlotInv'
    <2>1. /\ Len(rows') = Len(rows) /\ DOMAIN rows' = DOMAIN rows
          /\ \A j \in DOMAIN rows : /\ rows'[j].worker = rows[j].worker
                                    /\ rows'[j].slot = rows[j].slot
                                    /\ rows'[j].invited = rows[j].invited
      BY <1>b DEF RowsKept
    <2>2. Len(rows') <= Headcount
      BY <2>1 DEF SlotInv
    <2>3. SlotsInOrder'
      BY <2>1 DEF SlotInv, SlotsInOrder
    <2>4. NoSecondInvitation'
      BY <2>1 DEF SlotInv, NoSecondInvitation
    <2>5. ASSUME NEW k \in Handlers PROVE Computed(req[k])'
      <3>1. Computed(req'[k])
        BY <1>b DEF SlotInv
      <3>2. QED
        BY <2>1, <3>1 DEF Computed
    <2>6. QED
      BY <2>2, <2>3, <2>4, <2>5 DEF SlotInv
  <1>c. ASSUME NEW h \in Handlers, NEW r, Begin(h, r) \/ Continue(h, r),
               UNCHANGED rows \/ RowsKept, Computed(r)
        PROVE  SlotInv'
    <2>1. \A k \in Handlers : req'[k] = req[k] \/ Computed(req'[k])
      BY <1>a, <1>c DEF Begin, Continue
    <2>2. QED
      BY <1>b, <1>c, <2>1
  \* Continuations that hold no slot.
  <1>d. ASSUME NEW h \in Handlers, NEW r, Begin(h, r) \/ Continue(h, r),
               UNCHANGED rows \/ RowsKept, r.op \notin {"iv_counted", "rv_counted"}
        PROVE  SlotInv'
    BY <1>c, <1>d DEF Computed
  <1>e. Idle.op \notin {"iv_counted", "rv_counted"}
    BY DEF Idle
  \* A row is made in a free slot, which is therefore the next one.
  <1>f. ASSUME NEW h \in Handlers, NEW inv \in BOOLEAN, NEW st \in {"invited", "accepted"},
               req[h].op \in {"iv_counted", "rv_counted"},
               inv => req[h].op = "iv_counted",
               ~SlotTaken(req[h].slot),
               rows' = Append(rows, RowOf(req[h], inv, st)), Continue(h, Idle)
        PROVE  SlotInv'
    <2> DEFINE n == Len(rows) + 1
    <2>1. req[h] \in Request /\ req[h].op \in WorkerOps
      BY <1>a, <1>f DEF WorkerOps
    <2>2. Computed(req[h])
      BY DEF SlotInv
    <2>3. req[h].slot = n
      <3>1. req[h].slot \in 1..Headcount /\ req[h].slot <= n
        BY <1>f, <2>2 DEF Computed
      <3>2. \A i \in 1..Len(rows) : req[h].slot # i
        BY <1>a, <1>f DEF SlotTaken, SlotInv, SlotsInOrder
      <3>3. QED
        BY <1>a, <3>1, <3>2
    <2>4. RowOf(req[h], inv, st) \in Row
      BY <2>1, RowOfIsRow
    <2>5. /\ Len(rows') = n
          /\ DOMAIN rows' = DOMAIN rows \cup {n}
          /\ \A j \in DOMAIN rows : rows'[j] = rows[j]
          /\ rows'[n] = RowOf(req[h], inv, st)
      BY <1>a, <1>f, <2>4, NewRow
    <2>6. /\ rows'[n].worker = req[h].who
          /\ rows'[n].slot = n
          /\ rows'[n].invited = inv
      BY <2>3, <2>5 DEF RowOf
    <2>7. Len(rows') <= Headcount
      BY <1>a, <1>f, <2>2, <2>3, <2>5 DEF Computed
    <2>8. SlotsInOrder'
      BY <2>5, <2>6 DEF SlotInv, SlotsInOrder
    <2>9. NoSecondInvitation'
      <3>1. ASSUME NEW i \in DOMAIN rows', NEW j \in DOMAIN rows', i < j, rows'[j].invited
            PROVE  rows'[i].worker # rows'[j].worker
        <4>1. CASE j \in DOMAIN rows
          <5>1. i \in DOMAIN rows
            BY <1>a, <2>5, <3>1, <4>1
          <5>2. QED
            BY <2>5, <3>1, <4>1, <5>1 DEF SlotInv, NoSecondInvitation
        <4>2. CASE j = n
          <5>1. i \in DOMAIN rows
            BY <1>a, <2>5, <3>1, <4>2
          <5>2. req[h].op = "iv_counted"
            BY <1>f, <2>6, <3>1, <4>2
          <5>3. rows[i].worker # req[h].who
            BY <2>2, <2>3, <5>1, <5>2 DEF Computed
          <5>4. QED
            BY <2>5, <2>6, <4>2, <5>1, <5>3
        <4>3. QED
          BY <2>5, <4>1, <4>2
      <3>2. QED
        BY <3>1 DEF NoSecondInvitation
    <2>10. ASSUME NEW k \in Handlers PROVE Computed(req[k])'
      <3>1. req'[k] = Idle \/ req'[k] = req[k]
        BY <1>a, <1>f DEF Continue
      <3>2. CASE req'[k] = Idle
        BY <1>e, <3>2 DEF Computed
      <3>3. CASE req'[k] = req[k]
        <4>1. Computed(req[k]) /\ req[k].slot \in Nat
          BY <1>a, RequestSteps DEF SlotInv
        <4>2. req[k].op \in {"iv_counted", "rv_counted"} =>
                req[k].slot \in 1..Headcount /\ req[k].slot <= n
          BY <4>1 DEF Computed
        <4>3. QED
          BY <1>a, <2>5, <3>3, <4>1, <4>2 DEF Computed
      <3>4. QED
        BY <3>1, <3>2, <3>3
    <2>11. QED
      BY <2>7, <2>8, <2>9, <2>10 DEF SlotInv
  \* Steps of one handler that set the state of its row.
  <1>g. ASSUME NEW h \in Handlers, req[h].op \in RowOps,
               NEW s \in {"accepted", "rejected", "expired", "completed"},
               SetState(req[h].on, s)
        PROVE  RowsKept
    BY <1>a, <1>g, SetStateKeepsRows DEF TypeOK
  <1>1. ASSUME NEW h \in Handlers, NEW w \in Workers,
               InviteCheck(h, w) \/ ApplyCheck(h, w) \/ ReviewReadTask(h, w)
        PROVE  SlotInv'
    <2>1. /\ [Idle EXCEPT !.op = "iv_checked", !.who = w].op = "iv_checked"
          /\ [Idle EXCEPT !.op = "ap_checked", !.who = w].op = "ap_checked"
          /\ [Idle EXCEPT !.op = "rv_task", !.who = w, !.seen = status].op = "rv_task"
      BY DEF Idle
    <2>2. QED
      BY <1>1, <1>d, <2>1 DEF InviteCheck, ApplyCheck, ReviewReadTask
  <1>2. ASSUME NEW h \in Handlers, InviteCount(h) \/ ReviewCount(h)
        PROVE  SlotInv'
    <2> DEFINE c == Cardinality(Active)
    <2>1. /\ c \in Nat /\ c <= Len(rows) /\ c < Headcount
          /\ c = Len(rows) => Active = DOMAIN rows
      BY <1>2, <1>a, ActiveCount DEF InviteCount, ReviewCount
    <2> HIDE DEF c
    <2>2. /\ c + 1 \in 1..Headcount /\ c + 1 <= Len(rows) + 1
          /\ c + 1 = Len(rows) + 1 => c = Len(rows)
      <3>1. Headcount \in Nat /\ Len(rows) \in Nat
        BY <1>a
      <3>2. QED
        BY <2>1, <3>1
    <2>3. PICK r \in {[req[h] EXCEPT !.op = "iv_counted", !.slot = c + 1],
                      [req[h] EXCEPT !.op = "rv_counted", !.slot = c + 1]} :
            /\ Continue(h, r)
            /\ r.op = "iv_counted" => InviteCount(h)
      <3>1. [req[h] EXCEPT !.op = "rv_counted", !.slot = c + 1].op = "rv_counted"
        BY <1>a DEF Request
      <3>2. QED
        BY <1>2, <3>1 DEF InviteCount, ReviewCount, c
    <2>4. r.slot = c + 1 /\ r.who = req[h].who
      BY <1>a, <2>3 DEF Request
    <2>5. Computed(r)
      BY <2>1, <2>2, <2>3, <2>4 DEF Computed, InviteCount
    <2>6. UNCHANGED rows
      BY <1>2 DEF InviteCount, ReviewCount
    <2>7. QED
      BY <1>c, <2>3, <2>5, <2>6
  <1>3. ASSUME NEW h \in Handlers, ApplyLookup(h) \/ ReviewReadApplication(h)
        PROVE  SlotInv'
    <2>1. \A op \in {"ap_new", "ap_again", "rv_app"} : [req[h] EXCEPT !.op = op].op = op
      BY <1>a DEF Request
    <2>2. QED
      BY <1>3, <1>d, <2>1 DEF ApplyLookup, ReviewReadApplication
  <1>4. ASSUME NEW h \in Handlers, InviteCreate(h)
        PROVE  SlotInv'
    BY <1>4, <1>f DEF InviteCreate, Return, RowOf
  <1>5. ASSUME NEW h \in Handlers, ReviewCommit(h)
        PROVE  SlotInv'
    BY <1>5, <1>f DEF ReviewCommit, Return, RowOf
  <1>6. ASSUME NEW h \in Handlers, NEW i \in DOMAIN rows,
               AcceptRead(h, i) \/ RejectRead(h, i) \/ CompleteRead(h, i)
        PROVE  SlotInv'
    <2>1. \A op \in {"ac_late", "ac_ok", "rj_read", "cp_read"} :
            [Idle EXCEPT !.op = op, !.on = i].op = op
      BY DEF Idle
    <2>2. QED
      BY <1>6, <1>d, <2>1 DEF AcceptRead, RejectRead, CompleteRead
  <1>7. ASSUME NEW h \in Handlers, AcceptExpire(h) \/ RejectWrite(h) \/ CompleteWrite(h)
        PROVE  SlotInv'
    <2>1. RowsKept
      BY <1>7, <1>g DEF AcceptExpire, RejectWrite, CompleteWrite, RowOps
    <2>2. QED
      BY <1>7, <1>d, <1>e, <2>1 DEF AcceptExpire, RejectWrite, CompleteWrite, Return
  <1>8. ASSUME NEW h \in Handlers, AcceptWrite(h)
        PROVE  SlotInv'
    <2>1. RowsKept
      BY <1>8, <1>g DEF AcceptWrite, RowOps
    <2>2. [req[h] EXCEPT !.op = "ac_written"].op = "ac_written"
      BY <1>a DEF Request
    <2>3. QED
      BY <1>8, <1>d, <2>1, <2>2 DEF AcceptWrite
  <1>9. ASSUME NEW h \in Handlers, AcceptReadTask(h)
        PROVE  SlotInv'
    <2>1. [Idle EXCEPT !.op = "ac_task"].op = "ac_task"
      BY DEF Idle
    <2>2. QED
      BY <1>9, <1>d, <1>e, <2>1 DEF AcceptReadTask, Return
  <1>10. ASSUME NEW h \in Handlers, CancelRead(h) \/ ApproveTaskRead(h)
         PROVE  SlotInv'
    <2>1. \A op \in {"cn_read", "at_read"} : [Idle EXCEPT !.op = op].op = op
      BY DEF Idle
    <2>2. QED
      BY <1>10, <1>d, <2>1 DEF CancelRead, ApproveTaskRead
  <1>11. ASSUME NEW h \in Handlers,
                \/ ApplyWrite(h) \/ ReviewDecline(h) \/ AcceptStart(h)
                \/ CancelWrite(h) \/ ApproveTaskWrite(h) \/ Refuse(h)
         PROVE  SlotInv'
    BY <1>11, <1>d, <1>e DEF ApplyWrite, ReviewDecline, AcceptStart, CancelWrite,
                             ApproveTaskWrite, Refuse, Return
  <1>12. ASSUME NEW i \in DOMAIN rows, Lapse(i)
         PROVE  SlotInv'
    <2>1. RowsKept /\ UNCHANGED req
      BY <1>12, <1>a, LapseKeepsRows DEF Lapse
    <2>2. QED
      BY <1>b, <2>1
  <1>13. CASE Restart
    BY <1>13, <1>b, <1>e DEF Restart, Computed
  <1>14. CASE UNCHANGED vars
    BY <1>14, <1>b DEF vars
  <1>15. QED
    BY <1>1, <1>2, <1>3, <1>4, <1>5, <1>6, <1>7, <1>8, <1>9, <1>10, <1>11, <1>12,
       <1>13, <1>14 DEF Next, Handle

LEMMA SlotInvariant == Spec => []SlotInv
  <1>1. Init => SlotInv
    BY HeadcountAssumption, EmptySeq
       DEF Init, Idle, SlotInv, SlotsInOrder, NoSecondInvitation, Computed
  <1>2. QED
    BY <1>1, SlotInductive, TypeCorrect, PTL DEF Spec

\* The rows of a role take its slots in order, whatever handlers race for them.
THEOREM SlotsFillInOrder == Spec => []SlotsInOrder
  <1>1. SlotInv => SlotsInOrder
    BY DEF SlotInv
  <1>2. QED
    BY <1>1, SlotInvariant, PTL

\* A role never gets more people than its headcount.
THEOREM NoOverstaffing == Spec => []NeverOverstaffed
  <1>1. TypeOK /\ SlotInv => NeverOverstaffed
    <2> SUFFICES ASSUME TypeOK, SlotInv PROVE NeverOverstaffed
      OBVIOUS
    <2> DEFINE S == {i \in DOMAIN rows : rows[i].state \in {"invited", "accepted", "completed"}}
    <2>1. rows \in Seq(Row) /\ Len(rows) \in Nat /\ DOMAIN rows = 1..Len(rows)
      BY RowsAre DEF TypeOK
    <2>2. IsFiniteSet(DOMAIN rows) /\ Cardinality(DOMAIN rows) = Len(rows)
      BY <2>1, FS_Interval
    <2>3. S \in SUBSET (DOMAIN rows)
      OBVIOUS
    <2>4. Cardinality(S) <= Len(rows) /\ Cardinality(S) \in Nat
      BY <2>2, <2>3, FS_Subset, FS_CardinalityType
    <2>5. Len(rows) <= Headcount
      BY DEF SlotInv
    <2>6. QED
      BY <2>1, <2>4, <2>5, HeadcountAssumption DEF NeverOverstaffed
  <1>2. QED
    BY <1>1, SlotInvariant, TypeCorrect, PTL

\* No invitation goes to a worker who has a row for the role already.
THEOREM InvitedOnce == Spec => []NoSecondInvitation
  <1>1. SlotInv => NoSecondInvitation
    BY DEF SlotInv
  <1>2. QED
    BY <1>1, SlotInvariant, PTL

=============================================================================
