------------------------ MODULE TaskLifecycle_proofs ------------------------
(***************************************************************************)
(* Proofs about TaskLifecycle, for any number of handlers, seats, budgets   *)
(* and reported percentages.                                                *)
(***************************************************************************)
EXTENDS TaskLifecycle, SequenceTheorems, TLAPS

-----------------------------------------------------------------------------
(* Continuations *)

PlainOps == {"idle", "ud_read", "pb_read", "dl_read"}

\* The continuations the handlers start with or go on to.
LEMMA Requests ==
  /\ \A op \in PlainOps, n \in Nat : [Idle EXCEPT !.op = op, !.num = n] \in Request
  /\ \A op \in PlainOps : [Idle EXCEPT !.op = op] \in Request
  /\ \A l \in Lists, n \in Nat :
       [Idle EXCEPT !.op = "sr_read", !.to = l, !.num = n] \in Request
  /\ \A op \in MoveOps, s \in Statuses : [Idle EXCEPT !.op = op, !.to = s] \in Request
  /\ \A s \in Statuses, a \in Seats :
       [op |-> "hi_read", to |-> s, on |-> a, num |-> 0] \in Request
  /\ \A s \in {"applied", "invited"}, a \in Seats, n \in Nat :
       [op |-> "cl_read", to |-> s, on |-> a, num |-> n] \in Request
  /\ \A a \in Seats, op \in {"ac_read", "st_read", "vd_read"} :
       [Idle EXCEPT !.op = op, !.on = a] \in Request
  /\ \A a \in Seats, p \in Steps : [Idle EXCEPT !.op = "pr_read", !.on = a, !.num = p] \in Request
  /\ \A a \in Seats, n \in Nat : [Idle EXCEPT !.op = "sb_read", !.on = a, !.num = n] \in Request
  /\ \A v \in {"approved", "rejected"}, a \in Seats, n \in Nat :
       [op |-> "rv_read", to |-> v, on |-> a, num |-> n] \in Request
  <1>0. Steps \subseteq Nat
    BY StepsAssumption
  <1> USE DEF Request, Idle, Ops, MoveOps, SeatOps
  <1>1. \A op \in PlainOps, n \in Nat : [Idle EXCEPT !.op = op, !.num = n] \in Request
    BY DEF PlainOps
  <1>2. \A op \in PlainOps : [Idle EXCEPT !.op = op] \in Request
    BY DEF PlainOps
  <1>3. \A op \in MoveOps, s \in Statuses : [Idle EXCEPT !.op = op, !.to = s] \in Request
    OBVIOUS
  <1>4. \A s \in Statuses, a \in Seats :
          [op |-> "hi_read", to |-> s, on |-> a, num |-> 0] \in Request
    OBVIOUS
  <1>a. \A s \in {"applied", "invited"}, a \in Seats, n \in Nat :
          [op |-> "cl_read", to |-> s, on |-> a, num |-> n] \in Request
    OBVIOUS
  <1>b. \A a \in Seats, op \in {"ac_read", "st_read", "vd_read"} :
          [Idle EXCEPT !.op = op, !.on = a] \in Request
    OBVIOUS
  <1>c. \A l \in Lists, n \in Nat :
          [Idle EXCEPT !.op = "sr_read", !.to = l, !.num = n] \in Request
    BY DEF Lists
  <1>5. \A a \in Seats, p \in Steps :
          [Idle EXCEPT !.op = "pr_read", !.on = a, !.num = p] \in Request
    BY <1>0
  <1>6. \A a \in Seats, n \in Nat :
          [Idle EXCEPT !.op = "sb_read", !.on = a, !.num = n] \in Request
    OBVIOUS
  <1>7. \A v \in {"approved", "rejected"}, a \in Seats, n \in Nat :
          [op |-> "rv_read", to |-> v, on |-> a, num |-> n] \in Request
    OBVIOUS
  <1>8. QED
    BY <1>1, <1>2, <1>3, <1>4, <1>a, <1>b, <1>c, <1>5, <1>6, <1>7

LEMMA IdleIsRequest == Idle \in Request /\ Idle.op = "idle"
  BY DEF Request, Idle, Ops, MoveOps, SeatOps

LEMMA RequestFields ==
  ASSUME NEW r \in Request
  PROVE  /\ r.num \in Nat /\ r.op \in Ops
         /\ r.op \in MoveOps \cup {"hi_read"} => r.to \in Statuses
         /\ r.op \in SeatOps => r.on \in Seats
         /\ r.op = "rv_read" => /\ r.to \in {"approved", "rejected"}
                                /\ [r EXCEPT !.op = "rv_marked"] \in Request
                                /\ [r EXCEPT !.op = "rv_marked"].op = "rv_marked"
                                /\ [r EXCEPT !.op = "rv_marked"].on = r.on
         /\ r.op = "pr_read" => r.num \in Steps
         /\ r.op = "cl_read" => r.to \in {"applied", "invited"}
         /\ r.op = "ac_read" => /\ [r EXCEPT !.op = "ac_written"] \in Request
                                /\ [r EXCEPT !.op = "ac_written"].op = "ac_written"
         /\ r.op = "sr_read" => r.to \in Lists
         /\ r.op = "st_read" => /\ [r EXCEPT !.op = "st_paid"] \in Request
                                /\ [r EXCEPT !.op = "st_paid"].op = "st_paid"
                                /\ [r EXCEPT !.op = "st_paid"].on = r.on
  <1>1. r.op = "rv_read" => /\ r.to \in {"approved", "rejected"}
                            /\ [r EXCEPT !.op = "rv_marked"] \in Request
    BY DEF Request, Ops, MoveOps, SeatOps
  <1>2. r.op = "ac_read" => [r EXCEPT !.op = "ac_written"] \in Request
    BY DEF Request, Ops, MoveOps, SeatOps
  <1>3. r.op = "st_read" => [r EXCEPT !.op = "st_paid"] \in Request
    BY DEF Request, Ops, MoveOps, SeatOps
  <1>4. QED
    BY <1>1, <1>2, <1>3 DEF Request, Ops, MoveOps, SeatOps

\* Only the continuation of the handler that takes the step changes.
LEMMA OneContinuation ==
  ASSUME req \in [Handlers -> Request], NEW h \in Handlers, NEW r \in Request,
         req' = [req EXCEPT ![h] = r]
  PROVE  /\ req' \in [Handlers -> Request]
         /\ \A k \in Handlers : req'[k] = IF k = h THEN r ELSE req[k]
  OBVIOUS

-----------------------------------------------------------------------------
(* Deliverables *)

LEMMA WorkIs ==
  ASSUME TypeOK, NEW a \in Seats
  PROVE  /\ work[a] \in Seq(Deliverable)
         /\ Len(work[a]) \in Nat /\ DOMAIN work[a] = 1..Len(work[a])
         /\ \A i \in DOMAIN work[a] : work[a][i] \in Deliverable /\ i \in Nat
  <1>1. work[a] \in Seq(Deliverable)
    BY DEF TypeOK
  <1>2. QED
    BY <1>1, LenProperties, ElementOfSeq

\* Handing in adds a row and leaves the others.
LEMMA HandIn ==
  ASSUME TypeOK, NEW a \in Seats, NEW d \in Deliverable,
         work' = [work EXCEPT ![a] = Append(@, d)]
  PROVE  /\ work' \in [Seats -> Seq(Deliverable)]
         /\ \A b \in Seats : /\ DOMAIN work[b] \subseteq DOMAIN work'[b]
                             /\ \A i \in DOMAIN work[b] : work'[b][i] = work[b][i]
  <1>1. /\ Append(work[a], d) \in Seq(Deliverable)
        /\ Len(Append(work[a], d)) = Len(work[a]) + 1
        /\ \A i \in 1..Len(work[a]) : Append(work[a], d)[i] = work[a][i]
    BY WorkIs, AppendProperties
  <1>2. work' = [work EXCEPT ![a] = Append(work[a], d)]
    OBVIOUS
  <1>3. work' \in [Seats -> Seq(Deliverable)]
    BY <1>1, <1>2 DEF TypeOK
  <1>4. ASSUME NEW b \in Seats
        PROVE  /\ DOMAIN work[b] \subseteq DOMAIN work'[b]
               /\ \A i \in DOMAIN work[b] : work'[b][i] = work[b][i]
    <2>1. CASE b = a
      <3>1. work'[a] = Append(work[a], d)
        BY <1>2 DEF TypeOK
      <3>2. DOMAIN work'[a] = 1..(Len(work[a]) + 1)
        BY <1>1, <3>1, LenProperties
      <3>3. QED
        BY <1>1, <2>1, <3>1, <3>2, WorkIs
    <2>2. CASE b # a
      BY <1>2, <2>2 DEF TypeOK
    <2>3. QED
      BY <2>1, <2>2
  <1>5. QED
    BY <1>3, <1>4

\* A review changes the verdict of one row, and of none back to submitted.
LEMMA Judge ==
  ASSUME TypeOK, NEW a \in Seats, NEW n \in DOMAIN work[a],
         NEW v \in {"approved", "rejected"},
         work' = [work EXCEPT ![a][n].verdict = v]
  PROVE  /\ work' \in [Seats -> Seq(Deliverable)]
         /\ work'[a][n].verdict = v
         /\ \A b \in Seats : /\ DOMAIN work'[b] = DOMAIN work[b]
                             /\ \A i \in DOMAIN work[b] :
                                  \/ work'[b][i] = work[b][i]
                                  \/ work'[b][i].verdict = v
  <1> DEFINE d == [work[a][n] EXCEPT !.verdict = v]
             s == [work[a] EXCEPT ![n] = d]
  <1>1. n \in 1..Len(work[a]) /\ work[a] \in Seq(Deliverable)
    BY WorkIs
  <1>2. d \in Deliverable /\ d.verdict = v
    BY WorkIs DEF Deliverable
  <1>3. /\ s \in Seq(Deliverable) /\ Len(s) = Len(work[a])
        /\ \A i \in 1..Len(work[a]) : s[i] = IF i = n THEN d ELSE work[a][i]
    BY <1>1, <1>2, ExceptSeq
  <1>4. work' = [work EXCEPT ![a] = s]
    OBVIOUS
  <1>5. /\ work' \in [Seats -> Seq(Deliverable)] /\ work'[a] = s
        /\ \A b \in Seats : b # a => work'[b] = work[b]
    BY <1>3, <1>4 DEF TypeOK
  <1>6. DOMAIN s = DOMAIN work[a]
    BY <1>3, WorkIs, LenProperties
  <1>7. work'[a][n].verdict = v
    BY <1>1, <1>2, <1>3, <1>5
  <1>8. \A i \in DOMAIN work[a] : s[i] = work[a][i] \/ s[i].verdict = v
    BY <1>2, <1>3, WorkIs
  <1>9. QED
    BY <1>5, <1>6, <1>7, <1>8

-----------------------------------------------------------------------------
(* Type correctness *)

ReqTyped ==
  /\ req \in [Handlers -> Request]
  /\ \A h \in Handlers : req[h].op = "rv_read" => req[h].num \in DOMAIN work[req[h].on]

LEMMA ReqStep ==
  ASSUME TypeOK, NEW h \in Handlers, NEW r \in Request, req' = [req EXCEPT ![h] = r],
         \A b \in Seats : DOMAIN work[b] \subseteq DOMAIN work'[b],
         r.op = "rv_read" => r.num \in DOMAIN work'[r.on]
  PROVE  ReqTyped'
  <1>1. /\ req' \in [Handlers -> Request]
        /\ \A k \in Handlers : req'[k] = IF k = h THEN r ELSE req[k]
    BY OneContinuation DEF TypeOK
  <1>2. ASSUME NEW k \in Handlers, req'[k].op = "rv_read"
        PROVE  req'[k].num \in DOMAIN work'[req'[k].on]
    <2>1. CASE k = h
      BY <1>1, <1>2, <2>1
    <2>2. CASE k # h
      <3>1. req'[k] = req[k] /\ req[k] \in Request /\ req[k].op = "rv_read"
        BY <1>1, <1>2, <2>2 DEF TypeOK
      <3>2. req[k].on \in Seats /\ req[k].num \in DOMAIN work[req[k].on]
        BY <3>1, RequestFields DEF TypeOK, SeatOps
      <3>3. QED
        BY <3>1, <3>2
    <2>3. QED
      BY <2>1, <2>2
  <1>3. QED
    BY <1>1, <1>2 DEF ReqTyped

LEMMA ReturnStep ==
  ASSUME TypeOK, NEW h \in Handlers, Return(h),
         \A b \in Seats : DOMAIN work[b] \subseteq DOMAIN work'[b]
  PROVE  ReqTyped' /\ calls' \in Nat
  <1>1. req' = [req EXCEPT ![h] = Idle] /\ calls' = calls
    BY DEF Return, Continue
  <1>2. ReqTyped'
    BY <1>1, IdleIsRequest, ReqStep
  <1>3. QED
    BY <1>1, <1>2 DEF TypeOK

LEMMA ListsTyped == \A l \in RoleLists : l[1] \in Lists /\ l[2] \in Nat
  <1> SUFFICES ASSUME NEW l \in RoleLists PROVE l[1] \in Lists /\ l[2] \in Nat
    OBVIOUS
  <1>1. CASE l = <<"empty", 0>>
    BY <1>1 DEF Lists
  <1>2. CASE l \in {"filled"} \X Budgets
    BY <1>2, BudgetsAssumption DEF Lists
  <1>3. QED
    BY <1>1, <1>2 DEF RoleLists

\* Starting a handler on what it has read changes its continuation alone.
LEMMA BeginStep ==
  ASSUME TypeOK, NEW h \in Handlers, NEW r \in Request, Begin(h, r),
         UNCHANGED <<status, total, roles, seat, work, was, desk>>,
         r.op = "rv_read" => r.num \in DOMAIN work[r.on]
  PROVE  TypeOK'
  <1>1. req' = [req EXCEPT ![h] = r] /\ calls' \in Nat
    BY DEF Begin, TypeOK
  <1>2. ReqTyped'
    BY <1>1, ReqStep
  <1>3. QED
    BY <1>1, <1>2 DEF TypeOK, ReqTyped, desk

\* The steps that read.
Reads(h) ==
  \/ \E b \in Budgets : UpdateDraftRead(h, b)
  \/ \E l \in RoleLists : SetRolesRead(h, l[1], l[2])
  \/ PublishRead(h) \/ DeleteRead(h)
  \/ \E to \in Statuses : MoveRead(h, to)
  \/ ForceCloseRead(h)
  \/ PayRead(h)
  \/ \E a \in Seats :
       \/ RequestRead(h, a) \/ HireRead(h, a) \/ AcceptRead(h, a) \/ SubmitRead(h, a)
       \/ SettleRead(h, a) \/ VerdictRead(h, a)
       \/ \E kind \in {"applied", "invited"} : ClaimRead(h, a, kind)
       \/ \E p \in Steps : ProgressRead(h, a, p)
       \/ \E v \in {"approved", "rejected"} : ReviewRead(h, a, v)

\* What a step that reads holds across the await that follows.
ReadOf(r) ==
  \/ r.op \in PlainOps \/ r.op = "sr_read"
  \/ r.op \in MoveOps /\ canTransition(status, r.to)
  \/ r.op \in MoveOps /\ r.to = "closed"
  \/ r.op = "cl_read" /\ r.num = roles.gen
       /\ status \in {"published", "in_progress"} /\ roles.list = "filled"
  \/ r.op = "hi_read" /\ r.to = status
  \/ r.op \in {"pr_read", "sb_read"}
  \/ r.op \in {"ac_read", "st_read", "vd_read"} /\ r.on \in Claimed
  \/ r.op = "rv_read" /\ r.num \in DOMAIN work[r.on] /\ r.on \in Claimed

LEMMA ReadsBegin ==
  ASSUME TypeOK, NEW h \in Handlers, Reads(h)
  PROVE  /\ UNCHANGED <<status, total, roles, seat, work, was, desk>>
         /\ \E r \in Request : Begin(h, r) /\ ReadOf(r)
  <1> USE DEF ReadOf
  <1>1. CASE \E b \in Budgets : UpdateDraftRead(h, b)
    <2>1. PICK b \in Budgets : UpdateDraftRead(h, b)
      BY <1>1
    <2> DEFINE r == [Idle EXCEPT !.op = "ud_read", !.num = b]
    <2>2. r \in Request /\ r.op \in PlainOps
      BY Requests, BudgetsAssumption DEF PlainOps, Idle
    <2>3. QED
      BY <2>1, <2>2 DEF UpdateDraftRead
  <1>2. CASE \E l \in RoleLists : SetRolesRead(h, l[1], l[2])
    <2>1. PICK l \in RoleLists : SetRolesRead(h, l[1], l[2])
      BY <1>2
    <2> DEFINE r == [Idle EXCEPT !.op = "sr_read", !.to = l[1], !.num = l[2]]
    <2>2. l[1] \in Lists /\ l[2] \in Nat
      BY ListsTyped
    <2>3. r \in Request /\ r.op = "sr_read"
      BY <2>2, Requests DEF Idle
    <2>4. QED
      BY <2>1, <2>3 DEF SetRolesRead
  <1>3. CASE PublishRead(h)
    <2> DEFINE r == [Idle EXCEPT !.op = "pb_read", !.num = total]
    <2>1. r \in Request /\ r.op \in PlainOps
      BY Requests DEF PlainOps, Idle, TypeOK
    <2>2. QED
      BY <1>3, <2>1 DEF PublishRead
  <1>4. CASE DeleteRead(h)
    <2> DEFINE r == [Idle EXCEPT !.op = "dl_read"]
    <2>1. r \in Request /\ r.op \in PlainOps
      BY Requests DEF PlainOps, Idle
    <2>2. QED
      BY <1>4, <2>1 DEF DeleteRead
  <1>5. CASE \E to \in Statuses : MoveRead(h, to)
    <2>1. PICK to \in Statuses : MoveRead(h, to)
      BY <1>5
    <2> DEFINE r == [Idle EXCEPT !.op = "mv_read", !.to = to]
    <2>2. r \in Request /\ r.op \in MoveOps /\ r.to = to
      BY Requests DEF MoveOps, Idle
    <2>3. QED
      BY <2>1, <2>2 DEF MoveRead
  <1>6. CASE ForceCloseRead(h)
    <2> DEFINE r == [Idle EXCEPT !.op = "mv_read", !.to = "closed"]
    <2>1. r \in Request /\ r.op \in MoveOps /\ r.to = "closed"
      BY Requests DEF MoveOps, Idle, Statuses
    <2>2. QED
      BY <1>6, <2>1 DEF ForceCloseRead
  <1>7. CASE PayRead(h)
    <2> DEFINE r == [Idle EXCEPT !.op = "py_read", !.to = "completed"]
    <2>1. r \in Request /\ r.op \in MoveOps /\ r.to = "completed"
      BY Requests DEF MoveOps, Idle, Statuses
    <2>2. status = "pending_payment" => canTransition(status, "completed")
      BY DEF canTransition, TRANSITIONS, Statuses
    <2>3. QED
      BY <1>7, <2>1, <2>2 DEF PayRead
  <1>8. CASE \E a \in Seats : RequestRead(h, a)
    <2> DEFINE r == [Idle EXCEPT !.op = "rq_read", !.to = "reviewing"]
    <2>1. r \in Request /\ r.op \in MoveOps /\ r.to = "reviewing"
      BY Requests DEF MoveOps, Idle, Statuses
    <2>2. status = "in_progress" => canTransition(status, "reviewing")
      BY DEF canTransition, TRANSITIONS, Statuses
    <2>3. QED
      BY <1>8, <2>1, <2>2 DEF RequestRead
  <1>9. CASE \E a \in Seats : HireRead(h, a)
    <2>1. PICK a \in Seats : HireRead(h, a)
      BY <1>9
    <2> DEFINE r == [op |-> "hi_read", to |-> status, on |-> a, num |-> 0]
    <2>2. r \in Request /\ r.op = "hi_read" /\ r.to = status
      BY Requests DEF TypeOK
    <2>3. QED
      BY <2>1, <2>2 DEF HireRead
  <1>a. CASE \E a \in Seats : AcceptRead(h, a)
    <2>1. PICK a \in Seats : AcceptRead(h, a)
      BY <1>a
    <2> DEFINE r == [Idle EXCEPT !.op = "ac_read", !.on = a]
    <2>2. r \in Request /\ r.op = "ac_read" /\ r.on = a
      BY Requests DEF Idle
    <2>3. a \in Claimed
      BY <2>1 DEF AcceptRead, Claimed
    <2>4. QED
      BY <2>1, <2>2, <2>3 DEF AcceptRead
  <1>c. CASE \E a \in Seats : SettleRead(h, a)
    <2>1. PICK a \in Seats : SettleRead(h, a)
      BY <1>c
    <2> DEFINE r == [Idle EXCEPT !.op = "st_read", !.on = a]
    <2>2. r \in Request /\ r.op = "st_read" /\ r.on = a
      BY Requests DEF Idle
    <2>3. a \in Claimed
      BY <2>1 DEF SettleRead, Claimed
    <2>4. QED
      BY <2>1, <2>2, <2>3 DEF SettleRead
  <1>d. CASE \E a \in Seats : VerdictRead(h, a)
    <2>1. PICK a \in Seats : VerdictRead(h, a)
      BY <1>d
    <2> DEFINE r == [Idle EXCEPT !.op = "vd_read", !.on = a]
    <2>2. r \in Request /\ r.op = "vd_read" /\ r.on = a
      BY Requests DEF Idle
    <2>3. a \in Claimed
      BY <2>1 DEF VerdictRead, Claimed
    <2>4. QED
      BY <2>1, <2>2, <2>3 DEF VerdictRead
  <1>b. CASE \E a \in Seats : \E kind \in {"applied", "invited"} : ClaimRead(h, a, kind)
    <2>1. PICK a \in Seats, kind \in {"applied", "invited"} : ClaimRead(h, a, kind)
      BY <1>b
    <2> DEFINE r == [op |-> "cl_read", to |-> kind, on |-> a, num |-> roles.gen]
    <2>2. r \in Request
      BY Requests DEF TypeOK
    <2>3. r.op = "cl_read" /\ r.num = roles.gen
      OBVIOUS
    <2>4. /\ Begin(h, r) /\ status \in {"published", "in_progress"} /\ roles.list = "filled"
          /\ UNCHANGED <<status, total, roles, seat, work, was, desk>>
      BY <2>1 DEF ClaimRead
    <2> HIDE DEF r
    <2>5. QED
      BY <2>2, <2>3, <2>4
  <1>10. CASE \E a \in Seats : SubmitRead(h, a)
    <2>1. PICK a \in Seats : SubmitRead(h, a)
      BY <1>10
    <2>2. PICK v \in Versions(a) : Begin(h, [Idle EXCEPT !.op = "sb_read", !.on = a, !.num = v + 1])
      BY <2>1 DEF SubmitRead
    <2>3. v \in Nat
      BY <2>2, WorkIs DEF Versions, Deliverable
    <2> DEFINE r == [Idle EXCEPT !.op = "sb_read", !.on = a, !.num = v + 1]
    <2>4. r \in Request /\ r.op = "sb_read"
      <3>1. v + 1 \in Nat
        BY <2>3
      <3>2. r \in Request
        BY <3>1, Requests
      <3>3. QED
        BY <3>2 DEF Idle
    <2>5. QED
      BY <2>1, <2>2, <2>4 DEF SubmitRead
  <1>11. CASE \E a \in Seats : \E p \in Steps : ProgressRead(h, a, p)
    <2>1. PICK a \in Seats, p \in Steps : ProgressRead(h, a, p)
      BY <1>11
    <2> DEFINE r == [Idle EXCEPT !.op = "pr_read", !.on = a, !.num = p]
    <2>2. r \in Request /\ r.op = "pr_read"
      BY Requests DEF Idle
    <2>3. QED
      BY <2>1, <2>2 DEF ProgressRead
  <1>12. CASE \E a \in Seats : \E v \in {"approved", "rejected"} : ReviewRead(h, a, v)
    <2>1. PICK a \in Seats, v \in {"approved", "rejected"} : ReviewRead(h, a, v)
      BY <1>12
    <2>2. PICK i \in Submitted(a) :
            Begin(h, [op |-> "rv_read", to |-> v, on |-> a, num |-> i])
      BY <2>1 DEF ReviewRead
    <2>3. i \in DOMAIN work[a] /\ i \in Nat
      BY <2>2, WorkIs DEF Submitted
    <2> DEFINE r == [op |-> "rv_read", to |-> v, on |-> a, num |-> i]
    <2>4. r \in Request /\ a \in Claimed
      BY <2>1, <2>3, Requests DEF ReviewRead, Claimed
    <2>5. QED
      BY <2>1, <2>2, <2>3, <2>4 DEF ReviewRead
  <1>13. QED
    BY <1>1, <1>2, <1>3, <1>4, <1>5, <1>6, <1>7, <1>8, <1>9, <1>a, <1>b, <1>c,
       <1>d, <1>10, <1>11, <1>12 DEF Reads

RolesType == [gen: Nat, list: Lists, sum: Nat]
DeskTyped == settled \subseteq Seats /\ ruled \subseteq Seats

LEMMA DeskKeeps ==
  ASSUME TypeOK
  PROVE  DeskTyped /\ (UNCHANGED desk => DeskTyped') /\ roles \in RolesType
  BY DEF TypeOK, DeskTyped, RolesType, desk

\* A continuation goes on or ends and the deliverables stay: what else changes is up
\* to the step.
LEMMA ContinueStep ==
  ASSUME TypeOK, NEW h \in Handlers, NEW r \in Request, Continue(h, r), r.op # "rv_read",
         work' = work,
         status' \in Statuses, total' \in Nat, roles' \in RolesType,
         seat' \in [Seats -> [state: SeatStates, progress: 0..100]],
         was' \subseteq Statuses, DeskTyped'
  PROVE  TypeOK'
  <1>1. \A b \in Seats : DOMAIN work[b] \subseteq DOMAIN work'[b]
    OBVIOUS
  <1>2. req' = [req EXCEPT ![h] = r] /\ calls' = calls
    BY DEF Continue
  <1>3. ReqTyped'
    BY <1>1, <1>2, ReqStep
  <1>4. QED
    BY <1>2, <1>3 DEF TypeOK, ReqTyped, RolesType, DeskTyped

LEMMA EndStep ==
  ASSUME TypeOK, NEW h \in Handlers, Return(h), work' = work,
         status' \in Statuses, total' \in Nat, roles' \in RolesType,
         seat' \in [Seats -> [state: SeatStates, progress: 0..100]],
         was' \subseteq Statuses, DeskTyped'
  PROVE  TypeOK'
  BY ContinueStep, IdleIsRequest DEF Return

\* What acceptInvite does after the assignment is accepted.
LEMMA AcceptGoesOn ==
  ASSUME NEW h \in Handlers, AcceptStart(h)
  PROVE  \E r \in Request :
           /\ Continue(h, r)
           /\ \/ r.op = "idle"
              \/ r.op = "mv_read" /\ r.to = "in_progress" /\ status = "published"
  <1> DEFINE r == [Idle EXCEPT !.op = "mv_read", !.to = "in_progress"]
  <1>1. r \in Request /\ r.op = "mv_read" /\ r.to = "in_progress"
    BY Requests DEF Idle, MoveOps, Statuses
  <1>2. CASE status = "published"
    <2>1. Continue(h, r)
      BY <1>2 DEF AcceptStart
    <2> HIDE DEF r
    <2>2. QED
      BY <1>1, <1>2, <2>1
  <1>3. CASE status # "published"
    BY <1>3, IdleIsRequest DEF AcceptStart, Return
  <1>4. QED
    BY <1>2, <1>3

LEMMA TypeHandle ==
  ASSUME TypeOK, NEW h \in Handlers, Handle(h)
  PROVE  TypeOK'
  <1>0. req[h] \in Request /\ req[h].num \in Nat
    BY RequestFields DEF TypeOK
  <1>1. CASE UpdateDraftWrite(h)
    <2>1. total' \in Nat
      BY <1>0, <1>1 DEF UpdateDraftWrite
    <2>2. QED
      BY <1>1, <2>1, EndStep, DeskKeeps DEF UpdateDraftWrite, TypeOK
  <1>2. CASE SetRolesWrite(h)
    <2>1. req[h].op = "sr_read"
          /\ roles' = [gen |-> roles.gen + 1, list |-> req[h].to, sum |-> req[h].num]
      BY <1>2 DEF SetRolesWrite
    <2>a. req[h].to \in Lists
      BY <1>0, <2>1, RequestFields
    <2>b. roles.gen + 1 \in Nat
      BY DeskKeeps DEF RolesType
    <2>2. roles' \in RolesType
      BY <1>0, <2>1, <2>a, <2>b DEF RolesType
    <2>3. QED
      BY <1>2, <2>2, EndStep, DeskKeeps DEF SetRolesWrite, TypeOK
  <1>3. CASE PublishCheck(h)
    <2> DEFINE r == [Idle EXCEPT !.op = "pb_checked", !.to = "published"]
    <2>1. r \in Request
      BY Requests DEF MoveOps, Statuses
    <2>2. r.op # "rv_read"
      BY DEF Idle
    <2>3. Continue(h, r) /\ UNCHANGED <<status, total, roles, seat, work, was, desk>>
      BY <1>3 DEF PublishCheck
    <2> HIDE DEF r
    <2>4. QED
      BY <2>1, <2>2, <2>3, ContinueStep, DeskKeeps DEF TypeOK
  <1>4. CASE DeleteWrite(h)
    <2>1. roles' \in RolesType
      BY <1>4 DEF DeleteWrite, TypeOK, RolesType, Lists
    <2>2. status' \in Statuses /\ was' \subseteq Statuses
      BY <1>4 DEF DeleteWrite, TypeOK, SetStatus, Statuses
    <2>3. QED
      BY <1>4, <2>1, <2>2, EndStep, DeskKeeps DEF DeleteWrite, TypeOK
  <1>5. CASE MoveWrite(h)
    <2>1. req[h].to \in Statuses
      BY <1>0, <1>5, RequestFields DEF MoveWrite
    <2>2. status' \in Statuses /\ was' \subseteq Statuses
      BY <1>5, <2>1 DEF MoveWrite, TypeOK, SetStatus
    <2>3. QED
      BY <1>5, <2>2, EndStep, DeskKeeps DEF MoveWrite, TypeOK
  <1>6. CASE HireWrite(h)
    <2>1. req[h].on \in Seats
      BY <1>0, <1>6, RequestFields DEF HireWrite, SeatOps
    <2>2. seat' \in [Seats -> [state: SeatStates, progress: 0..100]]
      BY <1>6, <2>1 DEF HireWrite, TypeOK, SeatStates
    <2>3. status' \in Statuses /\ was' \subseteq Statuses
      BY <1>6 DEF HireWrite, TypeOK, SetStatus, Statuses
    <2>4. QED
      BY <1>6, <2>2, <2>3, EndStep, DeskKeeps DEF HireWrite, TypeOK
  <1>a. CASE ClaimWrite(h)
    <2>1. req[h].on \in Seats /\ req[h].to \in SeatStates
      BY <1>0, <1>a, RequestFields DEF ClaimWrite, SeatOps, SeatStates
    <2>2. seat' \in [Seats -> [state: SeatStates, progress: 0..100]]
      BY <1>a, <2>1 DEF ClaimWrite, TypeOK
    <2>3. QED
      BY <1>a, <2>2, EndStep, DeskKeeps DEF ClaimWrite, TypeOK
  <1>b. CASE AcceptWrite(h)
    <2>1. req[h].on \in Seats
      BY <1>0, <1>b, RequestFields DEF AcceptWrite, SeatOps
    <2>2. seat' \in [Seats -> [state: SeatStates, progress: 0..100]]
      BY <1>b, <2>1 DEF AcceptWrite, TypeOK, SeatStates
    <2> DEFINE r == [req[h] EXCEPT !.op = "ac_written"]
    <2>3. r \in Request /\ r.op = "ac_written"
      BY <1>0, <1>b, RequestFields DEF AcceptWrite
    <2>4. Continue(h, r) /\ UNCHANGED <<status, total, roles, work, was, desk>>
      BY <1>b DEF AcceptWrite
    <2> HIDE DEF r
    <2>5. QED
      BY <2>2, <2>3, <2>4, ContinueStep, DeskKeeps DEF TypeOK
  <1>c. CASE AcceptStart(h)
    <2>1. PICK r \in Request : Continue(h, r) /\ r.op # "rv_read"
      BY <1>c, AcceptGoesOn
    <2>2. UNCHANGED <<status, total, roles, seat, work, was, desk>>
      BY <1>c DEF AcceptStart
    <2>3. QED
      BY <2>1, <2>2, ContinueStep, DeskKeeps DEF TypeOK
  <1>7. CASE ProgressWrite(h)
    <2>1. req[h].on \in Seats /\ req[h].num \in 0..100
      BY <1>0, <1>7, RequestFields, StepsAssumption DEF ProgressWrite, SeatOps
    <2>2. seat' \in [Seats -> [state: SeatStates, progress: 0..100]]
      BY <1>7, <2>1 DEF ProgressWrite, TypeOK
    <2>3. QED
      BY <1>7, <2>2, EndStep, DeskKeeps DEF ProgressWrite, TypeOK
  <1>8. CASE SubmitWrite(h)
    <2> DEFINE d == [version |-> req[h].num, verdict |-> "submitted"]
    <2>1. req[h].on \in Seats /\ d \in Deliverable
      BY <1>0, <1>8, RequestFields DEF SubmitWrite, SeatOps, Deliverable
    <2>2. PICK a \in Seats : a = req[h].on
      BY <2>1
    <2>3. work' = [work EXCEPT ![a] = Append(@, d)]
      BY <1>8, <2>2 DEF SubmitWrite
    <2> HIDE DEF d
    <2>4. /\ work' \in [Seats -> Seq(Deliverable)]
          /\ \A b \in Seats : DOMAIN work[b] \subseteq DOMAIN work'[b]
      BY <2>1, <2>3, HandIn
    <2>5. ReqTyped' /\ calls' \in Nat
      BY <1>8, <2>4, ReturnStep DEF SubmitWrite
    <2>6. QED
      BY <1>8, <2>4, <2>5 DEF SubmitWrite, TypeOK, ReqTyped, desk
  <1>9. CASE ReviewMark(h)
    <2>1. req[h].on \in Seats /\ req[h].to \in {"approved", "rejected"}
      BY <1>0, <1>9, RequestFields DEF ReviewMark, SeatOps
    <2>2. PICK a \in Seats, v \in {"approved", "rejected"} : a = req[h].on /\ v = req[h].to
      BY <2>1
    <2>3. PICK n \in DOMAIN work[a] : n = req[h].num
      BY <1>9, <2>2 DEF ReviewMark, TypeOK
    <2>4. work' = [work EXCEPT ![a][n].verdict = v]
      BY <1>9, <2>2, <2>3 DEF ReviewMark
    <2>5. /\ work' \in [Seats -> Seq(Deliverable)]
          /\ \A b \in Seats : DOMAIN work[b] \subseteq DOMAIN work'[b]
      BY <2>4, Judge
    <2>6. PICK r \in Request : /\ req' = [req EXCEPT ![h] = r] /\ calls' = calls
                               /\ r.op # "rv_read"
      BY <1>0, <1>9, RequestFields, IdleIsRequest DEF ReviewMark, Continue, Return
    <2>7. ReqTyped'
      BY <2>5, <2>6, ReqStep
    <2>8. QED
      BY <1>9, <2>5, <2>6, <2>7 DEF ReviewMark, TypeOK, ReqTyped, desk
  <1>10. CASE ReviewComplete(h)
    <2>1. req[h].on \in Seats
      BY <1>0, <1>10, RequestFields DEF ReviewComplete, SeatOps
    <2>2. seat' \in [Seats -> [state: SeatStates, progress: 0..100]]
      BY <1>10, <2>1 DEF ReviewComplete, TypeOK, SeatStates
    <2>3. QED
      BY <1>10, <2>2, EndStep, DeskKeeps DEF ReviewComplete, TypeOK
  <1>d. CASE SettlePay(h)
    <2>1. req[h].on \in Seats
      BY <1>0, <1>d, RequestFields DEF SettlePay, SeatOps
    <2> DEFINE r == [req[h] EXCEPT !.op = "st_paid"]
    <2>2. r \in Request /\ r.op = "st_paid"
      BY <1>0, <1>d, RequestFields DEF SettlePay
    <2>3. Continue(h, r) /\ UNCHANGED <<status, total, roles, seat, work, was, ruled>>
      BY <1>d DEF SettlePay
    <2>4. DeskTyped'
      BY <1>d, <2>1, DeskKeeps DEF SettlePay, DeskTyped
    <2> HIDE DEF r
    <2>5. QED
      BY <2>2, <2>3, <2>4, ContinueStep, DeskKeeps DEF TypeOK
  <1>e. CASE SettleComplete(h) \/ VerdictWrite(h)
    <2>1. req[h].on \in Seats
      BY <1>0, <1>e, RequestFields DEF SettleComplete, VerdictWrite, SeatOps
    <2>a. seat' = [seat EXCEPT ![req[h].on].state = "completed"]
      BY <1>e DEF SettleComplete, VerdictWrite
    <2>2. seat' \in [Seats -> [state: SeatStates, progress: 0..100]]
      BY <2>1, <2>a DEF TypeOK, SeatStates
    <2>3. DeskTyped'
      BY <1>e, <2>1, DeskKeeps DEF SettleComplete, VerdictWrite, DeskTyped
    <2>4. Return(h) /\ UNCHANGED <<status, total, roles, work, was>>
      BY <1>e DEF SettleComplete, VerdictWrite
    <2>5. QED
      BY <2>2, <2>3, <2>4, EndStep, DeskKeeps DEF TypeOK
  <1>11. QED
    BY <1>1, <1>2, <1>3, <1>4, <1>5, <1>6, <1>a, <1>b, <1>c, <1>d, <1>e, <1>7, <1>8,
       <1>9, <1>10 DEF Handle

LEMMA TypeFail ==
  ASSUME TypeOK, NEW h \in Handlers, Fail(h)
  PROVE  TypeOK'
  BY EndStep, DeskKeeps DEF Fail, TypeOK

LEMMA NextCases ==
  ASSUME [Next]_vars
  PROVE  \/ \E h \in Handlers : Reads(h) \/ Handle(h) \/ Fail(h)
         \/ UNCHANGED vars
  BY DEF Next, Reads

LEMMA TypeInductive == TypeOK /\ [Next]_vars => TypeOK'
  <1> SUFFICES ASSUME TypeOK, [Next]_vars PROVE TypeOK'
    OBVIOUS
  <1>1. CASE UNCHANGED vars
    BY <1>1 DEF vars, desk, TypeOK
  <1>2. ASSUME NEW h \in Handlers, Reads(h) PROVE TypeOK'
    <2>1. PICK r \in Request : Begin(h, r) /\ ReadOf(r)
      BY <1>2, ReadsBegin
    <2>2. r.op = "rv_read" => r.num \in DOMAIN work[r.on]
      BY <2>1 DEF ReadOf, PlainOps, MoveOps
    <2>3. QED
      BY <1>2, <2>1, <2>2, ReadsBegin, BeginStep
  <1>3. ASSUME NEW h \in Handlers, Handle(h) \/ Fail(h) PROVE TypeOK'
    BY <1>3, TypeHandle, TypeFail
  <1>4. QED
    BY <1>1, <1>2, <1>3, NextCases

LEMMA TypeInit == Init => TypeOK
  <1> SUFFICES ASSUME Init PROVE TypeOK
    OBVIOUS
  <1>1. \A a \in Seats : work[a] = << >> /\ work[a] \in Seq(Deliverable)
    BY EmptySeq DEF Init
  <1>2. work \in [Seats -> Seq(Deliverable)]
    BY <1>1, EmptySeq DEF Init
  <1>3. req \in [Handlers -> Request] /\ \A h \in Handlers : req[h].op = "idle"
    BY IdleIsRequest DEF Init
  <1>4. total \in Nat
    BY BudgetsAssumption DEF Init
  <1>5. roles \in RolesType
    BY ListsTyped DEF Init, RolesType
  <1>6. QED
    BY <1>2, <1>3, <1>4, <1>5 DEF Init, TypeOK, Statuses, SeatStates, RolesType

\* Every reachable state is typed: the columns and continuations of
\* task.service.ts range over what the schema and the code say.
THEOREM TypeCorrect == Spec => []TypeOK
  BY TypeInit, TypeInductive, PTL DEF Spec

-----------------------------------------------------------------------------
(* The order of the stages.  A handler goes by a status the task has had when *)
(* it read it; what it will write is a successor of that one.  So the stage    *)
(* before what is about to be written has been reached, however late the      *)
(* handler writes, because a status once reached stays in was.                *)

\* The stage before s has been reached.
Reached(s) ==
  /\ s = "published" => "draft" \in was
  /\ s = "in_progress" => "published" \in was
  /\ s = "reviewing" => "in_progress" \in was
  /\ s = "pending_payment" => "reviewing" \in was
  /\ s = "completed" => "pending_payment" \in was

StageInv ==
  /\ status \in was /\ "draft" \in was
  /\ \A s \in was : Reached(s)
  /\ \A h \in Handlers :
       /\ req[h].op \in MoveOps => Reached(req[h].to)
       /\ req[h].op = "hi_read" => req[h].to \in was

LEMMA ReachedIsOrder == (\A s \in was : Reached(s)) => NoStageSkipped
  <1>1. Len(Stages) = 6
    BY DEF Stages
  <1>2. ASSUME \A s \in was : Reached(s), NEW i \in 2..6, Stages[i] \in was
        PROVE  Stages[i - 1] \in was
    <2>1. i = 2 \/ i = 3 \/ i = 4 \/ i = 5 \/ i = 6
      OBVIOUS
    <2>2. Reached(Stages[i])
      BY <1>2
    <2>3. QED
      BY <2>1, <2>2 DEF Reached, Stages
  <1>3. QED
    BY <1>1, <1>2 DEF NoStageSkipped

LEMMA ReachedStays ==
  ASSUME was \subseteq was', NEW s, Reached(s)
  PROVE  Reached(s)'
  BY DEF Reached

\* What a handler that reads will write has the stage before it reached.
LEMMA ReadReaches ==
  ASSUME TypeOK, StageInv, NEW r \in Request, ReadOf(r)
  PROVE  /\ r.op \in MoveOps => Reached(r.to)
         /\ r.op = "hi_read" => r.to \in was
  <1>1. CASE r.op \in MoveOps /\ canTransition(status, r.to)
    <2>1. status \in Statuses /\ status \in was /\ Reached(status) /\ "draft" \in was
      BY DEF TypeOK, StageInv
    <2>2. r.to \in TRANSITIONS[status]
      BY <1>1 DEF canTransition
    <2>3. /\ r.to = "published" => status = "pending_review"
          /\ r.to = "in_progress" => status \in {"published", "reviewing"}
          /\ r.to = "reviewing" => status = "in_progress"
          /\ r.to = "pending_payment" => status = "reviewing"
          /\ r.to = "completed" => status = "pending_payment"
      BY <2>1, <2>2 DEF TRANSITIONS, Statuses
    <2>4. \A s \in was : Reached(s)
      BY DEF StageInv
    <2>5. status = "reviewing" => "published" \in was
      BY <2>1, <2>4 DEF Reached
    <2>6. Reached(r.to)
      BY <2>1, <2>3, <2>5 DEF Reached
    <2>7. QED
      BY <1>1, <2>6 DEF MoveOps
  <1>2. CASE ~(r.op \in MoveOps /\ canTransition(status, r.to))
    BY <1>2 DEF ReadOf, Reached, MoveOps, PlainOps, StageInv
  <1>3. QED
    BY <1>1, <1>2

\* It is enough to look at the continuation that changes and at the status.
LEMMA StageStep ==
  ASSUME TypeOK, StageInv, NEW h \in Handlers, NEW r \in Request,
         req' = [req EXCEPT ![h] = r],
         \/ UNCHANGED <<status, was>>
         \/ \E s \in Statuses : SetStatus(s) /\ Reached(s),
         r.op \in MoveOps => Reached(r.to),
         r.op = "hi_read" => r.to \in was
  PROVE  StageInv'
  <1>1. was \subseteq was' /\ status' \in was' /\ \A s \in was' : Reached(s)
    BY DEF StageInv, SetStatus
  <1>2. \A s \in was' : Reached(s)'
    BY <1>1, ReachedStays
  <1>3. \A k \in Handlers : req'[k] = IF k = h THEN r ELSE req[k]
    BY OneContinuation DEF TypeOK
  <1>4. ASSUME NEW k \in Handlers
        PROVE  /\ req'[k].op \in MoveOps => Reached(req[k].to)'
               /\ req'[k].op = "hi_read" => req'[k].to \in was'
    <2>1. /\ req'[k].op \in MoveOps => Reached(req'[k].to)
          /\ req'[k].op = "hi_read" => req'[k].to \in was
      BY <1>3 DEF StageInv
    <2>2. QED
      BY <1>1, <2>1 DEF Reached
  <1>5. QED
    BY <1>1, <1>2, <1>4 DEF StageInv

LEMMA StageInductive == TypeOK /\ StageInv /\ [Next]_vars => StageInv'
  <1> SUFFICES ASSUME TypeOK, StageInv, [Next]_vars PROVE StageInv'
    OBVIOUS
  <1>0. Idle.op \notin MoveOps /\ Idle.op # "hi_read"
    BY DEF Idle, MoveOps
  <1>1. CASE UNCHANGED vars
    BY <1>1 DEF vars, StageInv, Reached
  <1>2. ASSUME NEW h \in Handlers, Reads(h) PROVE StageInv'
    <2>1. PICK r \in Request : Begin(h, r) /\ ReadOf(r)
      BY <1>2, ReadsBegin DEF ReadOf
    <2>2. req' = [req EXCEPT ![h] = r] /\ UNCHANGED <<status, was>>
      BY <1>2, <2>1, ReadsBegin DEF Begin
    <2>3. QED
      BY <2>1, <2>2, ReadReaches, StageStep
  <1>3. ASSUME NEW h \in Handlers, Return(h),
               \/ UNCHANGED <<status, was>>
               \/ \E s \in Statuses : SetStatus(s) /\ Reached(s)
        PROVE  StageInv'
    BY <1>0, <1>3, IdleIsRequest, StageStep DEF Return, Continue
  <1>4. ASSUME NEW h \in Handlers, Handle(h) PROVE StageInv'
    <2>0. req[h] \in Request
      BY DEF TypeOK
    <2>1. CASE PublishCheck(h)
      <3> DEFINE r == [Idle EXCEPT !.op = "pb_checked", !.to = "published"]
      <3>1. r \in Request
        BY Requests DEF MoveOps, Statuses
      <3>2. r.op \in MoveOps /\ r.op # "hi_read" /\ r.to = "published"
        BY DEF Idle, MoveOps
      <3>3. Reached("published")
        BY DEF StageInv, Reached
      <3>4. req' = [req EXCEPT ![h] = r] /\ UNCHANGED <<status, was>>
        BY <2>1 DEF PublishCheck, Continue
      <3> HIDE DEF r
      <3>5. QED
        BY <3>1, <3>2, <3>3, <3>4, StageStep
    <2>2. CASE DeleteWrite(h)
      <3>1. Reached("deleted") /\ "deleted" \in Statuses
        BY DEF Reached, Statuses
      <3>2. QED
        BY <2>2, <3>1, <1>3 DEF DeleteWrite
    <2>3. CASE MoveWrite(h)
      <3>1. Reached(req[h].to) /\ req[h].to \in Statuses
        BY <2>0, <2>3, RequestFields DEF MoveWrite, StageInv
      <3>2. QED
        BY <2>3, <3>1, <1>3 DEF MoveWrite
    <2>4. CASE HireWrite(h)
      <3>1. req[h].to = "published" => Reached("in_progress")
        BY <2>4 DEF HireWrite, StageInv, Reached
      <3>2. QED
        BY <2>4, <3>1, <1>3 DEF HireWrite, Statuses
    <2>a. CASE AcceptWrite(h)
      <3>1. PICK r \in Request : req' = [req EXCEPT ![h] = r] /\ r.op = "ac_written"
        BY <2>0, <2>a, RequestFields DEF AcceptWrite, Continue
      <3>2. r.op \notin MoveOps /\ r.op # "hi_read"
        BY <3>1 DEF MoveOps
      <3>3. QED
        BY <2>a, <3>1, <3>2, StageStep DEF AcceptWrite
    <2>b. CASE AcceptStart(h)
      <3>1. PICK r \in Request :
              /\ req' = [req EXCEPT ![h] = r]
              /\ \/ r.op = "idle"
                 \/ r.op = "mv_read" /\ r.to = "in_progress" /\ status = "published"
        BY <2>b, AcceptGoesOn DEF Continue
      <3>2. r.op # "hi_read" /\ (r.op \in MoveOps => Reached(r.to))
        BY <3>1 DEF MoveOps, StageInv, Reached
      <3>3. QED
        BY <2>b, <3>1, <3>2, StageStep DEF AcceptStart
    <2>5. CASE ReviewMark(h)
      <3>1. PICK r \in Request : /\ req' = [req EXCEPT ![h] = r]
                                 /\ r.op \in {"idle", "rv_marked"}
        BY <2>0, <2>5, RequestFields, IdleIsRequest DEF ReviewMark, Continue, Return
      <3>2. r.op \notin MoveOps /\ r.op # "hi_read"
        BY <3>1 DEF MoveOps
      <3>3. QED
        BY <2>5, <3>1, <3>2, StageStep DEF ReviewMark
    <2>c. CASE SettlePay(h)
      <3>1. PICK r \in Request : req' = [req EXCEPT ![h] = r] /\ r.op = "st_paid"
        BY <2>0, <2>c, RequestFields DEF SettlePay, Continue
      <3>2. r.op \notin MoveOps /\ r.op # "hi_read"
        BY <3>1 DEF MoveOps
      <3>3. QED
        BY <2>c, <3>1, <3>2, StageStep DEF SettlePay
    <2>6. CASE \/ UpdateDraftWrite(h) \/ SetRolesWrite(h) \/ ProgressWrite(h)
               \/ SubmitWrite(h) \/ ReviewComplete(h) \/ ClaimWrite(h)
               \/ SettleComplete(h) \/ VerdictWrite(h)
      BY <2>6, <1>3 DEF UpdateDraftWrite, SetRolesWrite, ProgressWrite, SubmitWrite,
                        ReviewComplete, ClaimWrite, SettleComplete, VerdictWrite
    <2>7. QED
      BY <1>4, <2>1, <2>2, <2>3, <2>4, <2>a, <2>b, <2>c, <2>5, <2>6 DEF Handle
  <1>5. ASSUME NEW h \in Handlers, Fail(h) PROVE StageInv'
    BY <1>5, <1>3 DEF Fail
  <1>6. QED
    BY <1>1, <1>2, <1>4, <1>5, NextCases

\* No task is completed, paid, handed in or started without the stages before,
\* however stale the statuses the handlers of task.service.ts go by.
THEOREM StagesInOrder == Spec => []NoStageSkipped
  <1>1. Init => StageInv
    BY DEF Init, StageInv, Reached, Idle, MoveOps
  <1>2. StageInv => NoStageSkipped
    BY ReachedIsOrder DEF StageInv
  <1>3. QED
    BY <1>1, <1>2, TypeInit, TypeInductive, StageInductive, PTL DEF Spec

-----------------------------------------------------------------------------
(* Staffed tasks.  A claim holds the generation of the roles it has read: it   *)
(* only succeeds while these roles are there, and then there is at least one   *)
(* and the task has its row, because replacing or deleting them makes a new    *)
(* generation.                                                                 *)

\* A claim under way: the roles it has read are there, or newer ones are.
ClaimReady(r) ==
  r.op = "cl_read" =>
    /\ r.num <= roles.gen
    /\ r.num = roles.gen => status # "deleted" /\ roles.list = "filled"

\* Who takes a seat has a row for it, and so has whose work is reviewed, paid for or
\* argued about.
AtWork(r) ==
  r.op \in {"ac_read", "rv_read", "rv_marked", "st_read", "st_paid", "vd_read"} =>
    r.on \in Claimed

StaffInv ==
  /\ ClaimedHasRoles
  /\ \A h \in Handlers :
       /\ ClaimReady(req[h]) /\ AtWork(req[h])
       /\ req[h].op \in MoveOps => req[h].to # "deleted"

LEMMA StaffInvParts ==
  ASSUME StaffInv, NEW h \in Handlers
  PROVE  /\ ClaimedHasRoles /\ ClaimReady(req[h]) /\ AtWork(req[h])
         /\ req[h].op \in MoveOps => req[h].to # "deleted"
  <1>1. ClaimedHasRoles
    BY DEF StaffInv
  <1>2. ClaimReady(req[h])
    BY DEF StaffInv
  <1>3. AtWork(req[h])
    BY DEF StaffInv
  <1>4. req[h].op \in MoveOps => req[h].to # "deleted"
    BY DEF StaffInv
  <1>5. QED
    BY <1>1, <1>2, <1>3, <1>4

LEMMA StaffStep ==
  ASSUME TypeOK, StaffInv, NEW h \in Handlers, NEW r \in Request,
         req' = [req EXCEPT ![h] = r],
         ClaimedHasRoles', r.op # "cl_read", Claimed \subseteq Claimed', AtWork(r),
         r.op \in MoveOps => r.to # "deleted",
         \/ roles' = roles /\ (status' = "deleted" => status = "deleted")
         \/ roles'.gen = roles.gen + 1
  PROVE  StaffInv'
  <1>1. \A k \in Handlers : req'[k] = IF k = h THEN r ELSE req[k]
    BY OneContinuation DEF TypeOK
  <1>2. ASSUME NEW k \in Handlers
        PROVE  /\ ClaimReady(req[k])' /\ AtWork(req[k])'
               /\ (req'[k].op \in MoveOps => req'[k].to # "deleted")
    <2>1. CASE k = h
      BY <1>1, <2>1 DEF ClaimReady, AtWork
    <2>2. CASE k # h
      <3>1. req'[k] = req[k] /\ req[k].num \in Nat /\ roles.gen \in Nat
        BY <1>1, <2>2, RequestFields DEF TypeOK
      <3>2. ClaimReady(req[k]) /\ AtWork(req[k]) /\ (req[k].op \in MoveOps => req[k].to # "deleted")
        BY StaffInvParts
      <3>3. AtWork(req[k])'
        BY <3>1, <3>2 DEF AtWork
      <3>4. ClaimReady(req[k])'
        <4>1. CASE roles' = roles /\ (status' = "deleted" => status = "deleted")
          BY <3>1, <3>2, <4>1 DEF ClaimReady
        <4>2. CASE roles'.gen = roles.gen + 1
          BY <3>1, <3>2, <4>2 DEF ClaimReady
        <4>3. QED
          BY <4>1, <4>2
      <3>5. QED
        BY <3>1, <3>2, <3>3, <3>4
    <2>3. QED
      BY <2>1, <2>2
  <1>3. QED
    BY <1>2 DEF StaffInv

LEMMA StaffInductive == TypeOK /\ StaffInv /\ [Next]_vars => StaffInv'
  <1> SUFFICES ASSUME TypeOK, StaffInv, [Next]_vars PROVE StaffInv'
    OBVIOUS
  <1>0. Idle.op \notin MoveOps /\ Idle.op # "cl_read"
    BY DEF Idle, MoveOps
  <1>1. CASE UNCHANGED vars
    BY <1>1 DEF vars, StaffInv, ClaimReady, AtWork, ClaimedHasRoles, Claimed
  <1>2. ASSUME NEW h \in Handlers, Reads(h) PROVE StaffInv'
    <2>1. PICK r \in Request : Begin(h, r) /\ ReadOf(r)
      BY <1>2, ReadsBegin
    <2>2. /\ req' = [req EXCEPT ![h] = r]
          /\ UNCHANGED <<status, total, roles, seat, work, was, desk>>
      BY <1>2, <2>1, ReadsBegin DEF Begin
    <2>3. ClaimedHasRoles' /\ Claimed' = Claimed
      BY <2>2 DEF StaffInv, ClaimedHasRoles, Claimed
    <2>4. CASE r.op = "cl_read"
      <3>1. r.num = roles.gen /\ status # "deleted" /\ roles.list = "filled" /\ r.num \in Nat
        BY <2>1, <2>4, RequestFields DEF ReadOf, PlainOps, MoveOps
      <3>2. \A k \in Handlers : req'[k] = IF k = h THEN r ELSE req[k]
        BY <2>2, OneContinuation DEF TypeOK
      <3>3. QED
        BY <2>2, <2>3, <2>4, <3>1, <3>2 DEF StaffInv, ClaimReady, AtWork, MoveOps
    <2>5. CASE r.op # "cl_read"
      <3>1. r.op \in MoveOps /\ canTransition(status, r.to) => r.to # "deleted"
        BY DEF canTransition, TRANSITIONS, TypeOK, Statuses
      <3>2. r.op \in MoveOps => r.to # "deleted"
        BY <2>1, <3>1 DEF ReadOf, PlainOps, MoveOps
      <3>3. AtWork(r)
        BY <2>1 DEF ReadOf, PlainOps, MoveOps, AtWork
      <3>4. QED
        BY <2>2, <2>3, <2>5, <3>2, <3>3, StaffStep
    <2>6. QED
      BY <2>4, <2>5
  <1>3. ASSUME NEW h \in Handlers, Return(h), ClaimedHasRoles', Claimed \subseteq Claimed',
               \/ roles' = roles /\ (status' = "deleted" => status = "deleted")
               \/ roles'.gen = roles.gen + 1
        PROVE  StaffInv'
    BY <1>0, <1>3, IdleIsRequest, StaffStep DEF Return, Continue, AtWork
  <1>4. ASSUME NEW h \in Handlers, Handle(h) PROVE StaffInv'
    <2>0. /\ req[h] \in Request /\ ClaimedHasRoles
          /\ ClaimReady(req[h]) /\ AtWork(req[h])
      BY StaffInvParts DEF TypeOK
    <2>1. CASE PublishCheck(h)
      <3> DEFINE r == [Idle EXCEPT !.op = "pb_checked", !.to = "published"]
      <3>1. r \in Request
        BY Requests DEF MoveOps, Statuses
      <3>2. r.op # "cl_read" /\ r.to # "deleted" /\ AtWork(r)
        BY DEF Idle, AtWork
      <3>3. /\ req' = [req EXCEPT ![h] = r]
            /\ UNCHANGED <<status, total, roles, seat, work, was, desk>>
        BY <2>1 DEF PublishCheck, Continue
      <3>4. ClaimedHasRoles' /\ Claimed' = Claimed
        BY <2>0, <3>3 DEF ClaimedHasRoles, Claimed
      <3> HIDE DEF r
      <3>5. QED
        BY <3>1, <3>2, <3>3, <3>4, StaffStep
    <2>2. CASE DeleteWrite(h)
      <3>1. Claimed' = {} /\ Claimed = {} /\ roles'.gen = roles.gen + 1
        BY <2>2 DEF DeleteWrite, Claimed
      <3>2. QED
        BY <2>2, <3>1, <1>3 DEF DeleteWrite, ClaimedHasRoles
    <2>3. CASE SetRolesWrite(h)
      <3>1. Claimed' = {} /\ Claimed = {} /\ roles'.gen = roles.gen + 1
        BY <2>3 DEF SetRolesWrite, Claimed
      <3>2. ClaimedHasRoles' /\ Return(h)
        BY <2>3, <3>1 DEF SetRolesWrite, ClaimedHasRoles
      <3>3. QED
        BY <3>1, <3>2, <1>3
    <2>4. CASE MoveWrite(h)
      <3>1. status' # "deleted" /\ roles' = roles /\ seat' = seat
        BY <2>4 DEF MoveWrite, SetStatus, StaffInv
      <3>2. ClaimedHasRoles' /\ Claimed' = Claimed
        BY <2>0, <3>1 DEF ClaimedHasRoles, Claimed
      <3>3. QED
        BY <2>4, <3>1, <3>2, <1>3 DEF MoveWrite
    <2>5. CASE ClaimWrite(h)
      <3>1. roles.list = "filled" /\ status # "deleted"
        BY <2>0, <2>5 DEF ClaimWrite, ClaimReady
      <3>2. roles' = roles /\ status' = status
        BY <2>5 DEF ClaimWrite
      <3>3. req[h].to # "none"
        BY <2>0, <2>5, RequestFields DEF ClaimWrite
      <3>4. ClaimedHasRoles' /\ Claimed \subseteq Claimed'
        BY <2>5, <3>1, <3>2, <3>3 DEF ClaimedHasRoles, ClaimWrite, Claimed, TypeOK
      <3>5. QED
        BY <2>5, <3>2, <3>4, <1>3 DEF ClaimWrite
    <2>a. CASE HireWrite(h)
      <3>1. req[h].on \in Claimed
        BY <2>0, <2>a, RequestFields DEF HireWrite, Claimed, SeatOps
      <3>2. roles' = roles /\ status # "deleted" /\ status' # "deleted" /\ roles.list = "filled"
        BY <2>0, <2>a, <3>1 DEF HireWrite, SetStatus, ClaimedHasRoles
      <3>3. ClaimedHasRoles' /\ Claimed \subseteq Claimed'
        BY <2>a, <3>2 DEF ClaimedHasRoles, HireWrite, Claimed, TypeOK
      <3>4. QED
        BY <2>a, <3>2, <3>3, <1>3 DEF HireWrite
    <2>b. CASE AcceptWrite(h)
      <3>1. req[h].on \in Claimed
        BY <2>0, <2>b DEF AcceptWrite, AtWork
      <3>2. roles' = roles /\ status' = status
        BY <2>b DEF AcceptWrite
      <3>3. ClaimedHasRoles' /\ Claimed \subseteq Claimed'
        BY <2>0, <2>b, <3>1, <3>2 DEF ClaimedHasRoles, AcceptWrite, Claimed, TypeOK
      <3>4. PICK r \in Request : req' = [req EXCEPT ![h] = r] /\ r.op = "ac_written"
        BY <2>0, <2>b, RequestFields DEF AcceptWrite, Continue
      <3>5. r.op \notin MoveOps /\ r.op # "cl_read" /\ AtWork(r)
        BY <3>4 DEF MoveOps, AtWork
      <3>6. QED
        BY <3>2, <3>3, <3>4, <3>5, StaffStep
    <2>c. CASE AcceptStart(h)
      <3>1. PICK r \in Request : /\ req' = [req EXCEPT ![h] = r]
                                 /\ r.op = "idle" \/ (r.op = "mv_read" /\ r.to = "in_progress")
        BY <2>c, AcceptGoesOn DEF Continue
      <3>2. r.op # "cl_read" /\ AtWork(r) /\ (r.op \in MoveOps => r.to # "deleted")
        BY <3>1 DEF MoveOps, AtWork
      <3>3. ClaimedHasRoles' /\ roles' = roles /\ status' = status /\ Claimed' = Claimed
        BY <2>0, <2>c DEF AcceptStart, ClaimedHasRoles, Claimed
      <3>4. QED
        BY <3>1, <3>2, <3>3, StaffStep
    <2>6. CASE ReviewMark(h)
      <3>1. PICK r \in Request : /\ req' = [req EXCEPT ![h] = r]
                                 /\ r.op = "idle" \/ (r.op = "rv_marked" /\ r.on = req[h].on)
        BY <2>0, <2>6, RequestFields, IdleIsRequest DEF ReviewMark, Continue, Return
      <3>2. r.op \notin MoveOps /\ r.op # "cl_read"
        BY <3>1 DEF MoveOps
      <3>3. ClaimedHasRoles' /\ roles' = roles /\ status' = status /\ Claimed' = Claimed
        BY <2>0, <2>6 DEF ReviewMark, ClaimedHasRoles, Claimed
      <3>4. AtWork(r)
        BY <2>0, <2>6, <3>1 DEF AtWork, ReviewMark
      <3>5. QED
        BY <3>1, <3>2, <3>3, <3>4, StaffStep
    <2>d. CASE SettlePay(h)
      <3>1. PICK r \in Request : /\ req' = [req EXCEPT ![h] = r]
                                 /\ r.op = "st_paid" /\ r.on = req[h].on
        BY <2>0, <2>d, RequestFields DEF SettlePay, Continue
      <3>2. r.op \notin MoveOps /\ r.op # "cl_read"
        BY <3>1 DEF MoveOps
      <3>3. ClaimedHasRoles' /\ roles' = roles /\ status' = status /\ Claimed' = Claimed
        BY <2>0, <2>d DEF SettlePay, ClaimedHasRoles, Claimed
      <3>4. AtWork(r)
        BY <2>0, <2>d, <3>1 DEF AtWork, SettlePay
      <3>5. QED
        BY <3>1, <3>2, <3>3, <3>4, StaffStep
    <2>e. CASE SettleComplete(h) \/ VerdictWrite(h)
      <3>1. req[h].on \in Seats /\ req[h].on \in Claimed
        BY <2>0, <2>e, RequestFields DEF SettleComplete, VerdictWrite, SeatOps, AtWork
      <3>2. roles' = roles /\ status' = status /\ Return(h)
        BY <2>e DEF SettleComplete, VerdictWrite
      <3>3. Claimed \subseteq Claimed'
        BY <2>e, <3>1 DEF SettleComplete, VerdictWrite, Claimed, TypeOK
      <3>4. QED
        BY <2>0, <3>1, <3>2, <3>3, <1>3 DEF ClaimedHasRoles
    <2>7. CASE ProgressWrite(h) \/ ReviewComplete(h)
      <3>1. req[h].on \in Seats /\ (req[h].op = "rv_marked" \/ req[h].op = "pr_read")
        BY <2>0, <2>7, RequestFields DEF ProgressWrite, ReviewComplete, SeatOps
      <3>2. roles' = roles /\ status' = status /\ Return(h)
        BY <2>7 DEF ProgressWrite, ReviewComplete
      <3>3. CASE ProgressWrite(h)
        <4>1. Claimed' = Claimed
          BY <3>1, <3>3 DEF ProgressWrite, Claimed, TypeOK
        <4>2. QED
          BY <2>0, <3>2, <4>1, <1>3 DEF ClaimedHasRoles
      <3>4. CASE ReviewComplete(h)
        <4>1. req[h].on \in Claimed
          BY <2>0, <3>4 DEF AtWork, ReviewComplete
        <4>2. Claimed \subseteq Claimed'
          BY <3>1, <3>4 DEF ReviewComplete, Claimed, TypeOK
        <4>3. QED
          BY <2>0, <3>2, <4>1, <4>2, <1>3 DEF ClaimedHasRoles
      <3>5. QED
        BY <2>7, <3>3, <3>4
    <2>8. CASE UpdateDraftWrite(h) \/ SubmitWrite(h)
      <3>1. ClaimedHasRoles' /\ Claimed' = Claimed
        BY <2>0, <2>8 DEF UpdateDraftWrite, SubmitWrite, ClaimedHasRoles, Claimed
      <3>2. QED
        BY <2>8, <3>1, <1>3 DEF UpdateDraftWrite, SubmitWrite
    <2>9. QED
      BY <1>4, <2>1, <2>2, <2>3, <2>4, <2>5, <2>a, <2>b, <2>c, <2>d, <2>e,
         <2>6, <2>7, <2>8 DEF Handle
  <1>5. ASSUME NEW h \in Handlers, Fail(h) PROVE StaffInv'
    <2>1. ClaimedHasRoles' /\ Claimed' = Claimed
      BY <1>5 DEF Fail, StaffInv, ClaimedHasRoles, Claimed
    <2>2. QED
      BY <1>5, <2>1, <1>3 DEF Fail
  <1>6. QED
    BY <1>1, <1>2, <1>4, <1>5, NextCases

\* Nobody has a seat in a task that is gone or has no roles (with whatever budgets,
\* 0 included), whatever races with the hiring: task.service.ts relies on the foreign
\* key and on the role it reads.
THEOREM StaffedTasksHaveRoles == Spec => []ClaimedHasRoles
  <1>1. Init => StaffInv
    <2> SUFFICES ASSUME Init PROVE StaffInv
      OBVIOUS
    <2>1. Claimed = {}
      BY DEF Init, Claimed
    <2>2. \A h \in Handlers : req[h].op = "idle"
      BY DEF Init, Idle
    <2>3. QED
      BY <2>1, <2>2 DEF StaffInv, ClaimedHasRoles, ClaimReady, AtWork, MoveOps
  <1>2. StaffInv => ClaimedHasRoles
    BY DEF StaffInv
  <1>3. QED
    BY <1>1, <1>2, TypeInit, TypeInductive, StaffInductive, PTL DEF Spec

-----------------------------------------------------------------------------
(* Completed work.  A verdict once given is never taken back, so the          *)
(* deliverable a review has marked is still judged when the review, after     *)
(* another await, completes the assignment.  A settlement has paid before it  *)
(* completes, and a verdict is written together with what it completes.       *)

Judged(a) == \E i \in DOMAIN work[a] : work[a][i].verdict # "submitted"

Reason(a) == Judged(a) \/ a \in settled \cup ruled

WorkInv ==
  /\ \A a \in Seats : seat[a].state = "completed" => Reason(a)
  /\ \A h \in Handlers : req[h].op \in {"rv_marked", "st_paid"} => Reason(req[h].on)

LEMMA JudgedStays ==
  ASSUME TypeOK, NEW h \in Handlers, NEW a \in Seats, Judged(a),
         work' = work \/ SubmitWrite(h) \/ ReviewMark(h)
  PROVE  Judged(a)'
  <1>0. req[h] \in Request
    BY DEF TypeOK
  <1>1. PICK i \in DOMAIN work[a] : work[a][i].verdict # "submitted"
    BY DEF Judged
  <1>2. CASE work' = work
    BY <1>2 DEF Judged
  <1>3. CASE SubmitWrite(h)
    <2> DEFINE d == [version |-> req[h].num, verdict |-> "submitted"]
    <2>1. d \in Deliverable /\ req[h].on \in Seats
      BY <1>0, <1>3, RequestFields DEF Deliverable, SubmitWrite, SeatOps
    <2>2. PICK b \in Seats : b = req[h].on
      BY <2>1
    <2>3. work' = [work EXCEPT ![b] = Append(@, d)]
      BY <1>3, <2>2 DEF SubmitWrite
    <2> HIDE DEF d
    <2>4. DOMAIN work[a] \subseteq DOMAIN work'[a] /\ work'[a][i] = work[a][i]
      BY <1>1, <2>1, <2>3, HandIn
    <2>5. QED
      BY <1>1, <2>4 DEF Judged
  <1>4. CASE ReviewMark(h)
    <2>1. req[h].on \in Seats /\ req[h].to \in {"approved", "rejected"}
      BY <1>0, <1>4, RequestFields DEF ReviewMark, SeatOps
    <2>2. PICK b \in Seats, v \in {"approved", "rejected"} : b = req[h].on /\ v = req[h].to
      BY <2>1
    <2>3. PICK n \in DOMAIN work[b] : n = req[h].num
      BY <1>4, <2>2 DEF ReviewMark, TypeOK
    <2>4. work' = [work EXCEPT ![b][n].verdict = v]
      BY <1>4, <2>2, <2>3 DEF ReviewMark
    <2>5. /\ DOMAIN work'[a] = DOMAIN work[a]
          /\ work'[a][i] = work[a][i] \/ work'[a][i].verdict = v
      BY <1>1, <2>4, Judge
    <2>6. QED
      BY <1>1, <2>5 DEF Judged
  <1>5. QED
    BY <1>2, <1>3, <1>4

LEMMA ReasonStays ==
  ASSUME TypeOK, NEW h \in Handlers, work' = work \/ SubmitWrite(h) \/ ReviewMark(h),
         settled \subseteq settled', ruled \subseteq ruled'
  PROVE  \A a \in Seats : Reason(a) => Reason(a)'
  BY JudgedStays DEF Reason

\* It is enough to look at the assignment and the continuation that change.
LEMMA WorkStep ==
  ASSUME TypeOK, WorkInv, NEW h \in Handlers, NEW r \in Request,
         req' = [req EXCEPT ![h] = r],
         \A a \in Seats : Reason(a) => Reason(a)',
         r.op \in {"rv_marked", "st_paid"} => Reason(r.on)',
         \A a \in Seats : seat'[a].state = "completed" =>
            seat[a].state = "completed" \/ Reason(a)'
  PROVE  WorkInv'
  <1>1. \A k \in Handlers : req'[k] = IF k = h THEN r ELSE req[k]
    BY OneContinuation DEF TypeOK
  <1>2. ASSUME NEW k \in Handlers, req'[k].op \in {"rv_marked", "st_paid"}
        PROVE  Reason(req[k].on)'
    <2>1. CASE k = h
      <3>1. req'[k] = r
        BY <1>1, <2>1
      <3>2. QED
        BY <1>2, <3>1 DEF Reason, Judged
    <2>2. CASE k # h
      <3>1. req'[k] = req[k]
        BY <1>1, <2>2
      <3>2. req[k].on \in Seats /\ Reason(req[k].on)
        BY <1>2, <3>1, RequestFields DEF TypeOK, SeatOps, WorkInv
      <3>3. PICK a \in Seats : a = req[k].on
        BY <3>2
      <3>4. Reason(a)'
        BY <3>2, <3>3
      <3>5. QED
        BY <3>1, <3>3, <3>4 DEF Reason, Judged
    <2>3. QED
      BY <2>1, <2>2
  <1>3. \A a \in Seats : seat'[a].state = "completed" => Reason(a)'
    BY DEF WorkInv
  <1>4. QED
    BY <1>2, <1>3 DEF WorkInv

LEMMA WorkInductive == TypeOK /\ WorkInv /\ [Next]_vars => WorkInv'
  <1> SUFFICES ASSUME TypeOK, WorkInv, [Next]_vars PROVE WorkInv'
    OBVIOUS
  <1>1. CASE UNCHANGED vars
    BY <1>1 DEF vars, desk, WorkInv, Reason, Judged
  <1>2. ASSUME NEW h \in Handlers, Reads(h) PROVE WorkInv'
    <2>1. PICK r \in Request : Begin(h, r) /\ ReadOf(r)
      BY <1>2, ReadsBegin
    <2>2. /\ req' = [req EXCEPT ![h] = r] /\ seat' = seat /\ work' = work
          /\ settled' = settled /\ ruled' = ruled
      BY <1>2, <2>1, ReadsBegin DEF Begin, desk
    <2>3. r.op \notin {"rv_marked", "st_paid"}
      BY <2>1 DEF ReadOf, PlainOps, MoveOps
    <2>4. \A a \in Seats : Reason(a) => Reason(a)'
      BY <2>2, ReasonStays
    <2>5. QED
      BY <2>2, <2>3, <2>4, WorkStep
  <1>3. ASSUME NEW h \in Handlers, Return(h), work' = work \/ SubmitWrite(h),
               settled' = settled, ruled \subseteq ruled',
               \A a \in Seats : seat'[a].state = "completed" =>
                  seat[a].state = "completed" \/ Reason(a)'
        PROVE  WorkInv'
    <2>1. \A a \in Seats : Reason(a) => Reason(a)'
      BY <1>3, ReasonStays
    <2>2. req' = [req EXCEPT ![h] = Idle] /\ Idle \in Request /\ Idle.op = "idle"
      BY <1>3, IdleIsRequest DEF Return, Continue
    <2>3. QED
      BY <1>3, <2>1, <2>2, WorkStep
  <1>4. ASSUME NEW h \in Handlers, Handle(h) PROVE WorkInv'
    <2>0. req[h] \in Request
      BY DEF TypeOK
    <2>1. CASE PublishCheck(h)
      <3> DEFINE r == [Idle EXCEPT !.op = "pb_checked", !.to = "published"]
      <3>1. r \in Request
        BY Requests DEF MoveOps, Statuses
      <3>2. r.op \notin {"rv_marked", "st_paid"}
        BY DEF Idle
      <3>3. /\ req' = [req EXCEPT ![h] = r] /\ seat' = seat /\ work' = work
            /\ settled' = settled /\ ruled' = ruled
        BY <2>1 DEF PublishCheck, Continue, desk
      <3>4. \A a \in Seats : Reason(a) => Reason(a)'
        BY <3>3, ReasonStays
      <3> HIDE DEF r
      <3>5. QED
        BY <3>1, <3>2, <3>3, <3>4, WorkStep
    <2>2. CASE ReviewMark(h)
      <3>1. req[h].on \in Seats /\ req[h].to \in {"approved", "rejected"}
        BY <2>0, <2>2, RequestFields DEF ReviewMark, SeatOps
      <3>2. PICK b \in Seats, v \in {"approved", "rejected"} : b = req[h].on /\ v = req[h].to
        BY <3>1
      <3>3. PICK n \in DOMAIN work[b] : n = req[h].num
        BY <2>2, <3>2 DEF ReviewMark, TypeOK
      <3>4. work' = [work EXCEPT ![b][n].verdict = v]
        BY <2>2, <3>2, <3>3 DEF ReviewMark
      <3>5. Judged(b)'
        BY <3>4, Judge DEF Judged
      <3>6. PICK r \in Request : /\ req' = [req EXCEPT ![h] = r]
                                 /\ r.op = "idle" \/ (r.op = "rv_marked" /\ r.on = b)
        BY <2>0, <2>2, <3>2, RequestFields, IdleIsRequest DEF ReviewMark, Continue, Return
      <3>7. r.op \in {"rv_marked", "st_paid"} => Reason(r.on)'
        BY <3>5, <3>6 DEF Reason, Judged
      <3>8. \A a \in Seats : Reason(a) => Reason(a)'
        BY <2>2, ReasonStays DEF ReviewMark, desk
      <3>9. QED
        BY <2>2, <3>6, <3>7, <3>8, WorkStep DEF ReviewMark
    <2>3. CASE HireWrite(h) \/ ClaimWrite(h)
      <3>1. req[h].to # "completed" \/ HireWrite(h)
        BY <2>0, <2>3, RequestFields DEF ClaimWrite
      <3>2. \A a \in Seats : seat'[a].state = "completed" => seat[a].state = "completed"
        BY <2>0, <2>3, <3>1 DEF HireWrite, ClaimWrite, TypeOK
      <3>3. QED
        BY <2>3, <3>2, <1>3 DEF HireWrite, ClaimWrite, desk
    <2>a. CASE AcceptWrite(h)
      <3>1. PICK r \in Request : req' = [req EXCEPT ![h] = r] /\ r.op = "ac_written"
        BY <2>0, <2>a, RequestFields DEF AcceptWrite, Continue
      <3>2. \A a \in Seats : seat'[a].state = "completed" => seat[a].state = "completed"
        BY <2>0, <2>a DEF AcceptWrite, TypeOK
      <3>3. \A a \in Seats : Reason(a) => Reason(a)'
        BY <2>a, ReasonStays DEF AcceptWrite, desk
      <3>4. QED
        BY <3>1, <3>2, <3>3, WorkStep
    <2>b. CASE AcceptStart(h)
      <3>1. PICK r \in Request : /\ req' = [req EXCEPT ![h] = r]
                                 /\ r.op = "idle" \/ r.op = "mv_read"
        BY <2>b, AcceptGoesOn DEF Continue
      <3>2. seat' = seat /\ \A a \in Seats : Reason(a) => Reason(a)'
        BY <2>b, ReasonStays DEF AcceptStart, desk
      <3>3. QED
        BY <3>1, <3>2, WorkStep
    <2>4. CASE ProgressWrite(h)
      <3>1. \A a \in Seats : seat'[a].state = "completed" => seat[a].state = "completed"
        BY <2>0, <2>4 DEF ProgressWrite, TypeOK
      <3>2. QED
        BY <2>4, <3>1, <1>3 DEF ProgressWrite, desk
    <2>5. CASE ReviewComplete(h)
      <3>1. PICK b \in Seats : b = req[h].on
        BY <2>0, <2>5, RequestFields DEF ReviewComplete, SeatOps
      <3>2. \A a \in Seats : Reason(a) => Reason(a)'
        BY <2>5, ReasonStays DEF ReviewComplete, desk
      <3>3. Reason(b)'
        BY <2>5, <3>1, <3>2 DEF ReviewComplete, WorkInv
      <3>4. \A a \in Seats : seat'[a].state = "completed" =>
                              seat[a].state = "completed" \/ a = b
        BY <2>5, <3>1 DEF ReviewComplete, TypeOK
      <3>5. QED
        BY <2>5, <3>3, <3>4, <1>3 DEF ReviewComplete, desk
    <2>c. CASE SettlePay(h)
      <3>1. PICK b \in Seats : b = req[h].on
        BY <2>0, <2>c, RequestFields DEF SettlePay, SeatOps
      <3>2. PICK r \in Request : req' = [req EXCEPT ![h] = r] /\ r.on = b
        BY <2>0, <2>c, <3>1, RequestFields DEF SettlePay, Continue
      <3>3. Reason(b)'
        BY <2>c, <3>1 DEF SettlePay, Reason
      <3>4. Reason(r.on)'
        BY <3>2, <3>3 DEF Reason, Judged
      <3>5. \A a \in Seats : Reason(a) => Reason(a)'
        BY <2>c, ReasonStays DEF SettlePay
      <3>6. QED
        BY <2>c, <3>2, <3>4, <3>5, WorkStep DEF SettlePay
    <2>d. CASE SettleComplete(h)
      <3>1. PICK b \in Seats : b = req[h].on
        BY <2>0, <2>d, RequestFields DEF SettleComplete, SeatOps
      <3>2. \A a \in Seats : Reason(a) => Reason(a)'
        BY <2>d, ReasonStays DEF SettleComplete, desk
      <3>3. Reason(b)'
        BY <2>d, <3>1, <3>2 DEF SettleComplete, WorkInv
      <3>4. \A a \in Seats : seat'[a].state = "completed" =>
                              seat[a].state = "completed" \/ a = b
        BY <2>d, <3>1 DEF SettleComplete, TypeOK
      <3>5. QED
        BY <2>d, <3>3, <3>4, <1>3 DEF SettleComplete, desk
    <2>e. CASE VerdictWrite(h)
      <3>1. PICK b \in Seats : b = req[h].on
        BY <2>0, <2>e, RequestFields DEF VerdictWrite, SeatOps
      <3>2. Reason(b)'
        BY <2>e, <3>1 DEF VerdictWrite, Reason
      <3>3. \A a \in Seats : seat'[a].state = "completed" =>
                              seat[a].state = "completed" \/ a = b
        BY <2>e, <3>1 DEF VerdictWrite, TypeOK
      <3>4. QED
        BY <2>e, <3>2, <3>3, <1>3 DEF VerdictWrite
    <2>6. CASE \/ UpdateDraftWrite(h) \/ SetRolesWrite(h) \/ DeleteWrite(h)
               \/ MoveWrite(h) \/ SubmitWrite(h)
      <3>1. /\ seat' = seat /\ Return(h) /\ (work' = work \/ SubmitWrite(h))
            /\ settled' = settled /\ ruled' = ruled
        BY <2>6 DEF UpdateDraftWrite, SetRolesWrite, DeleteWrite, MoveWrite, SubmitWrite, desk
      <3>2. QED
        BY <3>1, <1>3
    <2>7. QED
      BY <1>4, <2>1, <2>2, <2>3, <2>a, <2>b, <2>c, <2>d, <2>e, <2>4, <2>5,
         <2>6 DEF Handle
  <1>5. ASSUME NEW h \in Handlers, Fail(h) PROVE WorkInv'
    BY <1>5, <1>3 DEF Fail, desk
  <1>6. QED
    BY <1>1, <1>2, <1>4, <1>5, NextCases

\* No assignment is completed for nothing: reviewDeliverable has judged a deliverable of
\* it, triggerSettlement has paid for it or resolveDispute has ruled on it, whoever
\* submits, reviews, settles or rules in between.
THEOREM CompletedIsExplained == Spec => []CompletedHasReason
  <1>1. Init => WorkInv
    <2> SUFFICES ASSUME Init PROVE WorkInv
      OBVIOUS
    <2>1. \A a \in Seats : seat[a].state = "none"
      BY DEF Init
    <2>2. \A h \in Handlers : req[h].op = "idle"
      BY DEF Init, Idle
    <2>3. QED
      BY <2>1, <2>2 DEF WorkInv
  <1>2. WorkInv => CompletedHasReason
    BY DEF WorkInv, CompletedHasReason, Reason, Judged
  <1>3. QED
    BY <1>1, <1>2, TypeInit, TypeInductive, WorkInductive, PTL DEF Spec

=============================================================================
