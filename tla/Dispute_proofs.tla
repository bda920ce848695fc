---------------------------- MODULE Dispute_proofs ----------------------------
(***************************************************************************)
(* Proofs about Dispute, for any number of handlers, disputes, assignments  *)
(* and files and any locked amount.                                         *)
(***************************************************************************)
EXTENDS Dispute, FiniteSetTheorems, TLAPS

-----------------------------------------------------------------------------
(* Continuations *)

DisputeOps == CreateOps \cup RowOps

LEMMA NoFiles == {} \in FileSets
  BY FS_EmptySet, FilesAssumption DEF FileSets

\* The continuations the handlers start with.
LEMMA Requests ==
  /\ \A a \in Assignments, w \in Parties :
       [Idle EXCEPT !.op = "cr_task", !.asg = a, !.who = w] \in Request
  /\ \A a \in Assignments, d \in Disputes, m \in FileSets :
       [Idle EXCEPT !.op = "ev_read", !.asg = a, !.on = d, !.files = m] \in Request
  /\ \A op \in {"ac_read", "cn_read"}, a \in Assignments, d \in Disputes :
       [Idle EXCEPT !.op = op, !.asg = a, !.on = d] \in Request
  /\ \A a \in Assignments, d \in Disputes, v \in Verdicts :
       [Idle EXCEPT !.op = "rs_read", !.asg = a, !.on = d, !.to = v] \in Request
  /\ \A a \in Assignments, d \in Disputes, v \in Verdicts \cup {"cancelled"} :
       [Idle EXCEPT !.op = "pr_read", !.asg = a, !.on = d, !.to = v] \in Request
  /\ \A op \in {"st_read", "rv_read"}, a \in Assignments :
       [Idle EXCEPT !.op = op, !.asg = a] \in Request
  /\ [Idle EXCEPT !.op = "py_read"] \in Request
  <1> USE NoFiles DEF Request, Idle, CreateOps, RowOps, SettleOps, TaskOps
  <1>1. \A a \in Assignments, w \in Parties :
          [Idle EXCEPT !.op = "cr_task", !.asg = a, !.who = w] \in Request
    OBVIOUS
  <1>2. \A a \in Assignments, d \in Disputes, m \in FileSets :
          [Idle EXCEPT !.op = "ev_read", !.asg = a, !.on = d, !.files = m] \in Request
    OBVIOUS
  <1>3. \A op \in {"ac_read", "cn_read"}, a \in Assignments, d \in Disputes :
          [Idle EXCEPT !.op = op, !.asg = a, !.on = d] \in Request
    OBVIOUS
  <1>4. \A a \in Assignments, d \in Disputes, v \in Verdicts :
          [Idle EXCEPT !.op = "rs_read", !.asg = a, !.on = d, !.to = v] \in Request
    OBVIOUS
  <1>8. \A a \in Assignments, d \in Disputes, v \in Verdicts \cup {"cancelled"} :
          [Idle EXCEPT !.op = "pr_read", !.asg = a, !.on = d, !.to = v] \in Request
    BY DEF Verdicts
  <1>5. \A op \in {"st_read", "rv_read"}, a \in Assignments :
          [Idle EXCEPT !.op = op, !.asg = a] \in Request
    OBVIOUS
  <1>6. [Idle EXCEPT !.op = "py_read"] \in Request
    OBVIOUS
  <1>7. QED
    BY <1>1, <1>2, <1>3, <1>4, <1>5, <1>6, <1>8

LEMMA IdleIsRequest == Idle \in Request /\ Idle.op = "idle"
  BY NoFiles DEF Request, Idle, CreateOps, RowOps, SettleOps, TaskOps

\* ... and those they go on to.
LEMMA RequestFields ==
  ASSUME NEW r \in Request
  PROVE  /\ r.op \in {"idle"} \cup CreateOps \cup RowOps \cup SettleOps \cup TaskOps
         /\ r.op \in CreateOps \cup SettleOps => r.asg \in Assignments
         /\ r.op \in RowOps => r.on \in Disputes
         /\ r.files \in FileSets /\ r.worker \in Nat /\ r.company \in Nat
         /\ r.who \in Parties \cup {"none"}
         /\ r.to \in Verdicts \cup {"none", "cancelled"}
         /\ r.op = "cr_task" => [r EXCEPT !.op = "cr_free"] \in Request
         /\ r.op = "st_read" => [r EXCEPT !.op = "st_paid"] \in Request
         /\ r.op = "rs_read" => \A w, c \in Nat :
              [r EXCEPT !.op = "rs_task", !.worker = w, !.company = c] \in Request
  <1>1. r.op = "cr_task" => [r EXCEPT !.op = "cr_free"] \in Request
    BY DEF Request, CreateOps, RowOps, SettleOps, TaskOps
  <1>2. r.op = "st_read" => [r EXCEPT !.op = "st_paid"] \in Request
    BY DEF Request, CreateOps, RowOps, SettleOps, TaskOps
  <1>3. r.op = "rs_read" => \A w, c \in Nat :
          [r EXCEPT !.op = "rs_task", !.worker = w, !.company = c] \in Request
    BY DEF Request, CreateOps, RowOps, SettleOps, TaskOps
  <1>4. QED
    BY <1>1, <1>2, <1>3 DEF Request

\* A handler that closes a dispute has a status to write.
LEMMA StatusToWrite ==
  ASSUME NEW r \in Request
  PROVE  /\ r.op \in {"rs_read", "rs_task"} => r.to \in Verdicts
         /\ r.op = "pr_read" => r.to \in Verdicts \cup {"cancelled"}
  BY DEF Request

\* Only the continuation of the handler that takes the step changes.
LEMMA OneContinuation ==
  ASSUME req \in [Handlers -> Request], NEW h \in Handlers, NEW r \in Request,
         req' = [req EXCEPT ![h] = r]
  PROVE  /\ req' \in [Handlers -> Request]
         /\ \A k \in Handlers : req'[k] = IF k = h THEN r ELSE req[k]
  OBVIOUS

\* What a dispute handler starts with.
LEMMA DisputeStarts ==
  ASSUME TypeOK, NEW d \in Disputes, dispute[d] # "none"
  PROVE  /\ about[d] \in Assignments
         /\ \A m \in FileSets :
              [Idle EXCEPT !.op = "ev_read", !.asg = about[d], !.on = d, !.files = m] \in Request
         /\ \A op \in {"ac_read", "cn_read"} :
              [Idle EXCEPT !.op = op, !.asg = about[d], !.on = d] \in Request
         /\ \A v \in Verdicts :
              [Idle EXCEPT !.op = "rs_read", !.asg = about[d], !.on = d, !.to = v] \in Request
         /\ \A v \in Verdicts \cup {"cancelled"} :
              [Idle EXCEPT !.op = "pr_read", !.asg = about[d], !.on = d, !.to = v] \in Request
  <1>1. about[d] \in Assignments
    BY DEF TypeOK
  <1>2. QED
    BY <1>1, Requests

LEMMA MergesFit ==
  ASSUME TypeOK, NEW d \in Disputes, NEW new \in SUBSET Evidence,
         NEW m \in Merges(files[d], new)
  PROVE  m \in FileSets /\ files[d] \subseteq m
  <1>1. files[d] \in FileSets
    BY DEF TypeOK
  <1>2. files[d] \subseteq Evidence
    BY <1>1 DEF FileSets
  <1>3. QED
    BY <1>2 DEF Merges, FileSets

LEMMA SharesAre ==
  ASSUME NEW v, NEW amount \in Nat, NEW s \in Shares(v, amount)
  PROVE  s.worker \in Nat /\ s.company \in Nat /\ s.worker + s.company = amount
  BY DEF Shares

-----------------------------------------------------------------------------
(* Type correctness *)

\* The variables of every reachable state have their types: no dispute is about
\* nothing, and none holds more files than the limit.
THEOREM TypeCorrect == Spec => []TypeOK
  <1>1. Init => TypeOK
    <2>1. Idle.op \notin RowOps
      BY DEF Idle, RowOps
    <2>2. ASSUME Init PROVE req \in [Handlers -> Request] /\ \A h \in Handlers : req[h] = Idle
      BY <2>2, IdleIsRequest DEF Init
    <2>3. QED
      BY <2>1, <2>2, NoFiles, LockedAssumption DEF Init, TypeOK
  <1>2. TypeOK /\ [Next]_vars => TypeOK'
    <2> SUFFICES ASSUME TypeOK, [Next]_vars PROVE TypeOK'
      OBVIOUS
    <2>a. /\ taskStatus \in {"published", "in_progress", "pending_payment", "completed"}
          /\ locked \in {0, Locked}
          /\ dispute \in [Disputes -> {"none", "cancelled"} \cup Open \cup Verdicts]
          /\ about \in [Disputes -> Assignments \cup {"none"}]
          /\ \A d \in Disputes : dispute[d] # "none" => about[d] \in Assignments
          /\ by \in [Disputes -> Parties \cup {"none"}]
          /\ files \in [Disputes -> FileSets]
          /\ assignment \in [Assignments -> {"accepted", "completed"}]
          /\ moved \in [Disputes -> [worker: Nat, company: Nat]]
          /\ accepted \subseteq Disputes
          /\ raced \subseteq Assignments
          /\ req \in [Handlers -> Request]
          /\ \A h \in Handlers : req[h].op \in RowOps =>
               dispute[req[h].on] # "none" /\ req[h].asg = about[req[h].on]
          /\ calls \in Nat /\ faults \in Nat
      BY DEF TypeOK
    <2>b. \A h \in Handlers : req[h] \in Request
      BY <2>a
    \* One continuation changes, and the disputes there are stay.
    <2>c. ASSUME NEW h \in Handlers, NEW r \in Request, req' = [req EXCEPT ![h] = r],
                 r.op \in RowOps => dispute'[r.on] # "none" /\ r.asg = about'[r.on],
                 \A d \in Disputes : dispute[d] # "none" =>
                   dispute'[d] # "none" /\ about'[d] = about[d]
          PROVE  /\ req' \in [Handlers -> Request]
                 /\ \A k \in Handlers : req'[k].op \in RowOps =>
                      dispute'[req'[k].on] # "none" /\ req'[k].asg = about'[req'[k].on]
      <3>1. /\ req' \in [Handlers -> Request]
            /\ \A k \in Handlers : req'[k] = IF k = h THEN r ELSE req[k]
        BY <2>a, <2>c, OneContinuation
      <3>2. ASSUME NEW k \in Handlers, req'[k].op \in RowOps
            PROVE  dispute'[req'[k].on] # "none" /\ req'[k].asg = about'[req'[k].on]
        <4>1. CASE k = h
          BY <2>c, <3>1, <3>2, <4>1
        <4>2. CASE k # h
          <5>1. req'[k] = req[k] /\ req[k].on \in Disputes
            BY <2>b, <3>1, <3>2, <4>2, RequestFields
          <5>2. QED
            BY <2>a, <2>c, <3>2, <5>1
        <4>3. QED
          BY <4>1, <4>2
      <3>3. QED
        BY <3>1, <3>2
    \* Steps that only read.
    <2>d. ASSUME NEW h \in Handlers, NEW r \in Request, Continue(h, r) \/ Begin(h, r),
                 raced' \subseteq Assignments, UNCHANGED <<rowVars, taskVars>>,
                 r.op \in RowOps => dispute[r.on] # "none" /\ r.asg = about[r.on]
          PROVE  TypeOK'
      <3>1. /\ req' = [req EXCEPT ![h] = r] /\ calls' \in Nat /\ faults' = faults
            /\ UNCHANGED <<dispute, about>>
        BY <2>a, <2>d DEF Begin, Continue, rowVars
      <3>2. /\ req' \in [Handlers -> Request]
            /\ \A k \in Handlers : req'[k].op \in RowOps =>
                 dispute'[req'[k].on] # "none" /\ req'[k].asg = about'[req'[k].on]
        BY <2>c, <2>d, <3>1
      <3>3. QED
        BY <2>a, <2>d, <3>1, <3>2 DEF TypeOK, rowVars, taskVars
    <2>e. ASSUME NEW h \in Handlers, NEW r \in Request, BeginDispute(h, r),
                 r.asg \in Assignments, UNCHANGED <<rowVars, taskVars>>,
                 r.op \in RowOps => dispute[r.on] # "none" /\ r.asg = about[r.on]
          PROVE  TypeOK'
      <3>1. Begin(h, r) /\ raced' \subseteq Assignments
        BY <2>a, <2>e DEF BeginDispute
      <3>2. QED
        BY <2>d, <2>e, <3>1
    \* Steps that end a handler; no dispute disappears.
    <2>f. ASSUME NEW h \in Handlers, Return(h),
                 \A d \in Disputes : dispute[d] # "none" =>
                   dispute'[d] # "none" /\ about'[d] = about[d]
          PROVE  /\ req' \in [Handlers -> Request]
                 /\ \A k \in Handlers : req'[k].op \in RowOps =>
                      dispute'[req'[k].on] # "none" /\ req'[k].asg = about'[req'[k].on]
                 /\ UNCHANGED <<raced, calls, faults>>
      <3>1. req' = [req EXCEPT ![h] = Idle] /\ UNCHANGED <<raced, calls, faults>>
        BY <2>f DEF Return, Continue
      <3>2. Idle.op \notin RowOps
        BY DEF Idle, RowOps
      <3>3. QED
        BY <2>c, <2>f, <3>1, <3>2, IdleIsRequest
    <2>g. \A d \in Disputes : dispute[d] \in Open \cup Verdicts => dispute[d] # "none"
      BY DEF Open, Verdicts
    <2>h. \A h \in Handlers : req[h].op \in RowOps =>
            /\ req[h].on \in Disputes /\ dispute[req[h].on] # "none"
            /\ req[h].asg = about[req[h].on] /\ req[h].asg \in Assignments
      BY <2>a, <2>b, RequestFields
    <2>1. ASSUME NEW h \in Handlers, NEW a \in Assignments, NEW who \in Parties,
                 CreateReadTask(h, a, who)
          PROVE  TypeOK'
      <3> DEFINE r == [Idle EXCEPT !.op = "cr_task", !.asg = a, !.who = who]
      <3>1. r \in Request /\ r.asg = a /\ r.op \notin RowOps
        BY Requests DEF Idle, RowOps
      <3>2. BeginDispute(h, r) /\ UNCHANGED <<rowVars, taskVars>>
        BY <2>1 DEF CreateReadTask
      <3>3. QED
        BY <2>e, <3>1, <3>2
    <2>2. ASSUME NEW h \in Handlers, NEW a \in Assignments, SettleRead(h, a) \/ ReviewRead(h, a)
          PROVE  TypeOK'
      <3>1. PICK op \in {"st_read", "rv_read"} : Begin(h, [Idle EXCEPT !.op = op, !.asg = a])
        BY <2>2 DEF SettleRead, ReviewRead
      <3> DEFINE r == [Idle EXCEPT !.op = op, !.asg = a]
      <3>2. r \in Request /\ r.op \notin RowOps
        BY Requests DEF Idle, RowOps
      <3>3. UNCHANGED <<raced, rowVars, taskVars>>
        BY <2>2 DEF SettleRead, ReviewRead
      <3>4. QED
        BY <2>a, <2>d, <3>1, <3>2, <3>3
    <2>3. ASSUME NEW h \in Handlers, NEW d \in Disputes, NEW new \in SUBSET Evidence,
                 EvidenceRead(h, d, new)
          PROVE  TypeOK'
      <3>1. dispute[d] # "none"
        BY <2>3, <2>g DEF EvidenceRead
      <3>2. PICK m \in Merges(files[d], new) :
              BeginDispute(h, [Idle EXCEPT !.op = "ev_read", !.asg = about[d], !.on = d,
                                           !.files = m])
        BY <2>3 DEF EvidenceRead
      <3> DEFINE r == [Idle EXCEPT !.op = "ev_read", !.asg = about[d], !.on = d, !.files = m]
      <3>3. m \in FileSets
        BY MergesFit
      <3>4. r \in Request /\ about[d] \in Assignments
        BY <3>1, <3>3, DisputeStarts
      <3>5. r.asg = about[d] /\ r.on = d
        BY DEF Idle
      <3>6. UNCHANGED <<rowVars, taskVars>>
        BY <2>3 DEF EvidenceRead
      <3>7. QED
        BY <2>e, <3>1, <3>2, <3>4, <3>5, <3>6
    <2>4. ASSUME NEW h \in Handlers, NEW d \in Disputes,
                 AcceptRead(h, d) \/ \E who \in Parties : CancelRead(h, d, who)
          PROVE  TypeOK'
      <3>1. dispute[d] # "none"
        BY <2>4 DEF AcceptRead, CancelRead
      <3>2. PICK op \in {"ac_read", "cn_read"} :
              BeginDispute(h, [Idle EXCEPT !.op = op, !.asg = about[d], !.on = d])
        BY <2>4 DEF AcceptRead, CancelRead
      <3> DEFINE r == [Idle EXCEPT !.op = op, !.asg = about[d], !.on = d]
      <3>3. r \in Request /\ about[d] \in Assignments
        BY <3>1, DisputeStarts
      <3>4. r.asg = about[d] /\ r.on = d
        BY DEF Idle
      <3>5. UNCHANGED <<rowVars, taskVars>>
        BY <2>4 DEF AcceptRead, CancelRead
      <3>6. QED
        BY <2>e, <3>1, <3>2, <3>3, <3>4, <3>5
    <2>5. ASSUME NEW h \in Handlers, NEW d \in Disputes, NEW v \in Verdicts \cup {"cancelled"},
                 (v \in Verdicts /\ ResolveRead(h, d, v)) \/ PlatformResolveRead(h, d, v)
          PROVE  TypeOK'
      <3>1. dispute[d] # "none"
        BY <2>5, <2>g DEF ResolveRead, PlatformResolveRead
      <3>2. PICK op \in {"rs_read", "pr_read"} :
              /\ op = "rs_read" => v \in Verdicts
              /\ BeginDispute(h, [Idle EXCEPT !.op = op, !.asg = about[d], !.on = d, !.to = v])
        BY <2>5 DEF ResolveRead, PlatformResolveRead
      <3> DEFINE r == [Idle EXCEPT !.op = op, !.asg = about[d], !.on = d, !.to = v]
      <3>3. r \in Request /\ about[d] \in Assignments
        BY <3>1, <3>2, DisputeStarts
      <3>4. r.asg = about[d] /\ r.on = d
        BY DEF Idle
      <3>5. UNCHANGED <<rowVars, taskVars>>
        BY <2>5 DEF ResolveRead, PlatformResolveRead
      <3>6. QED
        BY <2>e, <3>1, <3>2, <3>3, <3>4, <3>5
    <2>6. ASSUME NEW h \in Handlers, PayRead(h) PROVE TypeOK'
      <3> DEFINE r == [Idle EXCEPT !.op = "py_read"]
      <3>1. r \in Request /\ r.op \notin RowOps
        BY Requests DEF Idle, RowOps
      <3>2. Begin(h, r) /\ UNCHANGED <<raced, rowVars, taskVars>>
        BY <2>6 DEF PayRead
      <3>3. QED
        BY <2>a, <2>d, <3>1, <3>2
    <2>7. ASSUME NEW h \in Handlers, CreateLookup(h) PROVE TypeOK'
      <3> DEFINE r == [req[h] EXCEPT !.op = "cr_free"]
      <3>1. r \in Request
        BY <2>7, <2>b, RequestFields DEF CreateLookup
      <3>2. r.op \notin RowOps
        BY <2>b DEF RowOps, Request
      <3>3. Continue(h, r) /\ UNCHANGED <<rowVars, taskVars>> /\ raced' = raced
        BY <2>7 DEF CreateLookup, Continue
      <3>4. QED
        BY <2>a, <2>d, <3>1, <3>2, <3>3
    <2>8. ASSUME NEW h \in Handlers, ResolveReadTask(h) PROVE TypeOK'
      <3>1. PICK s \in Shares(req[h].to, locked) :
              Continue(h, [req[h] EXCEPT !.op = "rs_task", !.worker = s.worker,
                                         !.company = s.company])
        BY <2>8 DEF ResolveReadTask
      <3> DEFINE r == [req[h] EXCEPT !.op = "rs_task", !.worker = s.worker,
                                     !.company = s.company]
      <3>2. locked \in Nat
        BY <2>a, LockedAssumption
      <3>3. s.worker \in Nat /\ s.company \in Nat
        BY <3>2, SharesAre
      <3>4. req[h].op = "rs_read" /\ req[h].op \in RowOps
        BY <2>8 DEF ResolveReadTask, RowOps
      <3>5. r \in Request
        BY <2>b, <3>3, <3>4, RequestFields
      <3>6. r.on = req[h].on /\ r.asg = req[h].asg
        BY <2>b DEF Request
      <3>7. UNCHANGED <<rowVars, taskVars>> /\ raced' = raced
        BY <2>8, <3>1 DEF ResolveReadTask, Continue
      <3>8. QED
        BY <2>a, <2>d, <2>h, <3>1, <3>4, <3>5, <3>6, <3>7
    <2>9. ASSUME NEW h \in Handlers, SettlePay(h) PROVE TypeOK'
      <3> DEFINE r == [req[h] EXCEPT !.op = "st_paid"]
      <3>1. r \in Request /\ req[h].asg \in Assignments
        BY <2>9, <2>b, RequestFields DEF SettlePay, SettleOps
      <3>2. r.op \notin RowOps
        BY <2>b DEF RowOps, Request
      <3>3. /\ req' = [req EXCEPT ![h] = r] /\ UNCHANGED <<raced, calls, faults>>
            /\ UNCHANGED <<rowVars, taskVars>>
        BY <2>9 DEF SettlePay, Continue
      <3>5. UNCHANGED <<dispute, about>>
        BY <3>3 DEF rowVars
      <3>6. /\ req' \in [Handlers -> Request]
            /\ \A k \in Handlers : req'[k].op \in RowOps =>
                 dispute'[req'[k].on] # "none" /\ req'[k].asg = about'[req'[k].on]
        BY <2>c, <3>1, <3>2, <3>3, <3>5
      <3>7. QED
        BY <2>a, <3>3, <3>6 DEF TypeOK, rowVars, taskVars
    <2>10. ASSUME NEW h \in Handlers, CreateWrite(h) PROVE TypeOK'
      <3>1. PICK d \in Disputes, F \in FileSets :
              /\ dispute[d] = "none"
              /\ dispute' = [dispute EXCEPT ![d] = "pending"]
              /\ about' = [about EXCEPT ![d] = req[h].asg]
              /\ by' = [by EXCEPT ![d] = req[h].who]
              /\ files' = [files EXCEPT ![d] = F]
        BY <2>10 DEF CreateWrite
      <3>2. req[h].asg \in Assignments /\ req[h].who \in Parties \cup {"none"}
        BY <2>10, <2>b, RequestFields DEF CreateWrite, CreateOps
      <3>3. /\ dispute' \in [Disputes -> {"none", "cancelled"} \cup Open \cup Verdicts]
            /\ about' \in [Disputes -> Assignments \cup {"none"}]
            /\ by' \in [Disputes -> Parties \cup {"none"}]
            /\ files' \in [Disputes -> FileSets]
        BY <2>a, <3>1, <3>2 DEF Open
      <3>4. /\ \A e \in Disputes : dispute'[e] # "none" => about'[e] \in Assignments
            /\ \A e \in Disputes : dispute[e] # "none" =>
                 dispute'[e] # "none" /\ about'[e] = about[e]
        BY <2>a, <3>1, <3>2
      <3>5. Return(h) /\ UNCHANGED <<moved, accepted, taskVars>>
        BY <2>10 DEF CreateWrite
      <3>6. QED
        BY <2>a, <2>f, <3>3, <3>4, <3>5 DEF TypeOK, taskVars
    \* Steps that set the status of the dispute they work on.
    <2>11. ASSUME NEW h \in Handlers, Return(h), req[h].op \in RowOps,
                  NEW s \in {"cancelled"} \cup Open \cup Verdicts,
                  dispute' = [dispute EXCEPT ![req[h].on] = s],
                  UNCHANGED <<about, by, files, taskStatus, locked>>,
                  assignment' \in [Assignments -> {"accepted", "completed"}],
                  moved' \in [Disputes -> [worker: Nat, company: Nat]],
                  accepted' \subseteq Disputes
           PROVE  TypeOK'
      <3>1. req[h].on \in Disputes /\ dispute[req[h].on] # "none" /\ s # "none"
        BY <2>h, <2>11 DEF Open, Verdicts
      <3>2. /\ dispute' \in [Disputes -> {"none", "cancelled"} \cup Open \cup Verdicts]
            /\ \A d \in Disputes : dispute'[d] # "none" => about'[d] \in Assignments
            /\ \A d \in Disputes : dispute[d] # "none" =>
                 dispute'[d] # "none" /\ about'[d] = about[d]
        BY <2>a, <2>11, <3>1
      <3>3. QED
        BY <2>a, <2>f, <2>11, <3>2 DEF TypeOK
    <2>12. ASSUME NEW h \in Handlers, AcceptWrite(h) PROVE TypeOK'
      <3>1. req[h].op \in RowOps /\ "investigating" \in Open
        BY <2>12 DEF AcceptWrite, RowOps, Open
      <3>2. accepted' \subseteq Disputes
        BY <2>12, <2>a, <2>h, <3>1 DEF AcceptWrite
      <3>3. QED
        BY <2>12, <2>a, <2>11, <3>1, <3>2 DEF AcceptWrite, taskVars
    <2>13. ASSUME NEW h \in Handlers, CancelWrite(h) PROVE TypeOK'
      <3>1. req[h].op \in RowOps
        BY <2>13 DEF CancelWrite, RowOps
      <3>2. QED
        BY <2>13, <2>a, <2>11, <3>1 DEF CancelWrite, taskVars
    <2>14. ASSUME NEW h \in Handlers, PlatformResolveWrite(h) PROVE TypeOK'
      <3>1. req[h].op \in RowOps /\ req[h].to \in Verdicts \cup {"cancelled"}
        BY <2>14, <2>b, StatusToWrite DEF PlatformResolveWrite, RowOps
      <3>2. QED
        BY <2>14, <2>a, <2>11, <3>1 DEF PlatformResolveWrite, taskVars
    <2>15. ASSUME NEW h \in Handlers, ResolveCommit(h) PROVE TypeOK'
      <3>1. /\ req[h].op \in RowOps /\ req[h].to \in Verdicts \cup {"cancelled"}
            /\ req[h].worker \in Nat /\ req[h].company \in Nat
        BY <2>15, <2>b, StatusToWrite, RequestFields DEF ResolveCommit, RowOps
      <3>2. assignment' \in [Assignments -> {"accepted", "completed"}]
        BY <2>15, <2>a, <2>h, <3>1 DEF ResolveCommit
      <3>3. moved' \in [Disputes -> [worker: Nat, company: Nat]]
        BY <2>15, <2>a, <2>h, <3>1 DEF ResolveCommit
      <3>4. /\ Return(h) /\ dispute' = [dispute EXCEPT ![req[h].on] = req[h].to]
            /\ UNCHANGED <<about, by, files, accepted, taskStatus, locked>>
        BY <2>15 DEF ResolveCommit
      <3>5. QED
        BY <2>a, <2>11, <3>1, <3>2, <3>3, <3>4
    <2>16. ASSUME NEW h \in Handlers, EvidenceWrite(h) PROVE TypeOK'
      <3>1. req[h].op \in RowOps /\ req[h].files \in FileSets
        BY <2>16, <2>b, RequestFields DEF EvidenceWrite, RowOps
      <3>2. files' \in [Disputes -> FileSets]
        BY <2>16, <2>a, <2>h, <3>1 DEF EvidenceWrite
      <3>3. Return(h) /\ UNCHANGED <<dispute, about, by, moved, accepted, taskVars>>
        BY <2>16 DEF EvidenceWrite
      <3>4. QED
        BY <2>a, <2>f, <3>2, <3>3 DEF TypeOK, taskVars
    \* Steps on the task and its assignments.
    <2>17. ASSUME NEW h \in Handlers,
                  SettleComplete(h) \/ ReviewWrite(h) \/ PayCommit(h) \/ CreateRefuse(h)
           PROVE  TypeOK'
      <3>1. Return(h) /\ UNCHANGED rowVars
        BY <2>17 DEF SettleComplete, ReviewWrite, PayCommit, CreateRefuse, taskVars
      <3>2. /\ taskStatus' \in {"published", "in_progress", "pending_payment", "completed"}
            /\ locked' \in {0, Locked}
        BY <2>17, <2>a DEF SettleComplete, ReviewWrite, PayCommit, CreateRefuse, taskVars
      <3>3. assignment' \in [Assignments -> {"accepted", "completed"}]
        BY <2>17, <2>a DEF SettleComplete, ReviewWrite, PayCommit, CreateRefuse, taskVars
      <3>4. QED
        BY <2>a, <2>f, <3>1, <3>2, <3>3 DEF TypeOK, rowVars
    <2>18. CASE TaskAdvance
      BY <2>18, <2>a DEF TaskAdvance, TypeOK, rowVars
    <2>19. CASE Restart
      <3>1. Idle.op \notin RowOps
        BY DEF Idle, RowOps
      <3>2. /\ req' \in [Handlers -> Request] /\ \A k \in Handlers : req'[k] = Idle
            /\ faults' \in Nat
        BY <2>19, <2>a, IdleIsRequest DEF Restart
      <3>3. QED
        BY <2>19, <2>a, <3>1, <3>2 DEF Restart, TypeOK, rowVars, taskVars
    <2>20. CASE UNCHANGED vars
      BY <2>20, <2>a DEF vars, TypeOK, rowVars, taskVars
    <2>21. QED
      BY <2>1, <2>2, <2>3, <2>4, <2>5, <2>6, <2>7, <2>8, <2>9, <2>10, <2>12, <2>13, <2>14,
         <2>15, <2>16, <2>17, <2>18, <2>19, <2>20 DEF Next, Handle
  <1>3. QED
    BY <1>1, <1>2, PTL DEF Spec

-----------------------------------------------------------------------------
(* The kinds of steps *)

\* What a dispute handler has read, as long as it is still so.
Knows(r) ==
  /\ r.op = "cr_free" => OpenOf(r.asg) = {}
  /\ r.op \in {"ac_read", "cn_read"} => dispute[r.on] = "pending"
  /\ r.op \in {"rs_read", "rs_task"} => dispute[r.on] = "investigating"
  /\ r.op \in {"ev_read", "pr_read"} => dispute[r.on] \in Open
  /\ r.op = "ev_read" => files[r.on] \subseteq r.files
  /\ r.op = "rs_task" => r.worker + r.company <= Locked

\* A dispute handler starts, and knows what it has read.
Starts(h, r) ==
  /\ BeginDispute(h, r) /\ UNCHANGED rowVars
  /\ r.op \in DisputeOps \ {"rs_task"} /\ r.asg \in Assignments /\ Knows(r)

\* A step of a handler that is not about disputes.
Aside(h) ==
  /\ req[h].op \notin DisputeOps
  /\ \E r \in Request : r.op \notin DisputeOps /\ req' = [req EXCEPT ![h] = r]
  /\ UNCHANGED <<rowVars, raced>>

LEMMA StartsOnDispute ==
  ASSUME TypeOK, NEW h \in Handlers, NEW d \in Disputes,
         \/ \E new \in SUBSET Evidence : EvidenceRead(h, d, new)
         \/ AcceptRead(h, d)
         \/ \E v \in Verdicts : ResolveRead(h, d, v)
         \/ \E v \in Verdicts \cup {"cancelled"} : PlatformResolveRead(h, d, v)
         \/ \E who \in Parties : CancelRead(h, d, who)
  PROVE  \E r \in Request : Starts(h, r)
  <1> DEFINE Reads == {"ev_read", "ac_read", "rs_read", "pr_read", "cn_read"}
  <1>0. Reads \subseteq DisputeOps \ {"rs_task"}
    BY DEF DisputeOps, RowOps
  <1>1. dispute[d] # "none" /\ UNCHANGED rowVars
    BY DEF EvidenceRead, AcceptRead, ResolveRead, PlatformResolveRead, CancelRead, Open
  <1>2. ASSUME NEW r \in Request, BeginDispute(h, r), r.op \in Reads, r.asg = about[d],
               r.on = d,
               r.op \in {"ac_read", "cn_read"} => dispute[d] = "pending",
               r.op = "rs_read" => dispute[d] = "investigating",
               r.op \in {"ev_read", "pr_read"} => dispute[d] \in Open,
               r.op = "ev_read" => files[d] \subseteq r.files
        PROVE  Starts(h, r)
    <2>1. r.asg \in Assignments
      BY <1>1, <1>2, DisputeStarts
    <2>2. Knows(r)
      BY <1>2 DEF Knows
    <2>3. QED
      BY <1>0, <1>1, <1>2, <2>1, <2>2 DEF Starts
  <1>3. ASSUME NEW new \in SUBSET Evidence, EvidenceRead(h, d, new)
        PROVE  \E r \in Request : Starts(h, r)
    <2>1. PICK m \in Merges(files[d], new) :
            BeginDispute(h, [Idle EXCEPT !.op = "ev_read", !.asg = about[d], !.on = d,
                                         !.files = m])
      BY <1>3 DEF EvidenceRead
    <2> DEFINE r == [Idle EXCEPT !.op = "ev_read", !.asg = about[d], !.on = d, !.files = m]
    <2>2. m \in FileSets /\ files[d] \subseteq m /\ dispute[d] \in Open
      BY <1>3, MergesFit DEF EvidenceRead
    <2>3. r \in Request
      BY <1>1, <2>2, DisputeStarts
    <2>4. r.op = "ev_read" /\ r.asg = about[d] /\ r.on = d /\ r.files = m
      BY DEF Idle
    <2> HIDE DEF r
    <2>5. BeginDispute(h, r)
      BY <2>1 DEF r
    <2>6. QED
      BY <1>2, <2>2, <2>3, <2>4, <2>5
  <1>4. ASSUME NEW op \in {"ac_read", "cn_read"}, dispute[d] = "pending",
               BeginDispute(h, [Idle EXCEPT !.op = op, !.asg = about[d], !.on = d])
        PROVE  \E r \in Request : Starts(h, r)
    <2> DEFINE r == [Idle EXCEPT !.op = op, !.asg = about[d], !.on = d]
    <2>1. r \in Request
      BY <1>1, DisputeStarts
    <2>2. r.op = op /\ r.asg = about[d] /\ r.on = d
      BY DEF Idle
    <2> HIDE DEF r
    <2>3. BeginDispute(h, r)
      BY <1>4 DEF r
    <2>4. QED
      BY <1>2, <1>4, <2>1, <2>2, <2>3
  <1>5. ASSUME NEW op \in {"rs_read", "pr_read"}, NEW v \in Verdicts \cup {"cancelled"},
               op = "rs_read" => v \in Verdicts /\ dispute[d] = "investigating",
               dispute[d] \in Open,
               BeginDispute(h, [Idle EXCEPT !.op = op, !.asg = about[d], !.on = d, !.to = v])
        PROVE  \E r \in Request : Starts(h, r)
    <2> DEFINE r == [Idle EXCEPT !.op = op, !.asg = about[d], !.on = d, !.to = v]
    <2>1. r \in Request
      BY <1>1, <1>5, DisputeStarts
    <2>2. r.op = op /\ r.asg = about[d] /\ r.on = d
      BY DEF Idle
    <2> HIDE DEF r
    <2>3. BeginDispute(h, r)
      BY <1>5 DEF r
    <2>4. QED
      BY <1>2, <1>5, <2>1, <2>2, <2>3
  <1>6. QED
    BY <1>3, <1>4, <1>5
       DEF AcceptRead, ResolveRead, PlatformResolveRead, CancelRead, Open

LEMMA StepKinds ==
  ASSUME TypeOK, [Next]_vars
  PROVE  \/ UNCHANGED <<rowVars, raced, req>>
         \/ Restart
         \/ \E h \in Handlers : Aside(h)
         \/ \E h \in Handlers, r \in Request : Starts(h, r)
         \/ \E h \in Handlers :
              \/ CreateLookup(h) \/ CreateWrite(h) \/ CreateRefuse(h) \/ EvidenceWrite(h)
              \/ AcceptWrite(h) \/ ResolveReadTask(h) \/ ResolveCommit(h)
              \/ PlatformResolveWrite(h) \/ CancelWrite(h)
  <1>a. \A h \in Handlers : req[h] \in Request
    BY DEF TypeOK
  <1>b. \A op \in SettleOps \cup TaskOps \cup {"idle"} : op \notin DisputeOps
    BY DEF SettleOps, TaskOps, DisputeOps, CreateOps, RowOps
  <1>1. ASSUME NEW h \in Handlers, NEW a \in Assignments, NEW who \in Parties,
               CreateReadTask(h, a, who)
        PROVE  \E r \in Request : Starts(h, r)
    <2> DEFINE r == [Idle EXCEPT !.op = "cr_task", !.asg = a, !.who = who]
    <2>1. r \in Request /\ r.op = "cr_task" /\ r.asg = a
      BY Requests DEF Idle
    <2> HIDE DEF r
    <2>2. BeginDispute(h, r) /\ UNCHANGED rowVars
      BY <1>1 DEF CreateReadTask, r
    <2>3. Knows(r)
      BY <2>1 DEF Knows
    <2>4. "cr_task" \in DisputeOps \ {"rs_task"}
      BY DEF DisputeOps, CreateOps
    <2>5. QED
      BY <2>1, <2>2, <2>3, <2>4 DEF Starts
  <1>2. ASSUME NEW h \in Handlers, NEW a \in Assignments, SettleRead(h, a) \/ ReviewRead(h, a)
        PROVE  Aside(h)
    <2>1. PICK op \in {"st_read", "rv_read"} : Begin(h, [Idle EXCEPT !.op = op, !.asg = a])
      BY <1>2 DEF SettleRead, ReviewRead
    <2> DEFINE r == [Idle EXCEPT !.op = op, !.asg = a]
    <2>2. r \in Request /\ r.op = op
      BY Requests DEF Idle
    <2> HIDE DEF r
    <2>3. req' = [req EXCEPT ![h] = r] /\ req[h].op = "idle"
      BY <2>1, IdleIsRequest DEF Begin, r
    <2>4. UNCHANGED <<rowVars, raced>>
      BY <1>2 DEF SettleRead, ReviewRead
    <2>5. QED
      BY <1>b, <2>2, <2>3, <2>4 DEF Aside, SettleOps
  <1>3. ASSUME NEW h \in Handlers, PayRead(h) PROVE Aside(h)
    <2> DEFINE r == [Idle EXCEPT !.op = "py_read"]
    <2>1. r \in Request /\ r.op = "py_read"
      BY Requests DEF Idle
    <2> HIDE DEF r
    <2>2. req' = [req EXCEPT ![h] = r] /\ req[h].op = "idle" /\ UNCHANGED <<rowVars, raced>>
      BY <1>3, IdleIsRequest DEF PayRead, Begin, r
    <2>3. QED
      BY <1>b, <2>1, <2>2 DEF Aside, TaskOps
  <1>4. ASSUME NEW h \in Handlers, SettlePay(h) PROVE Aside(h)
    <2> DEFINE r == [req[h] EXCEPT !.op = "st_paid"]
    <2>1. req[h].op = "st_read" /\ req' = [req EXCEPT ![h] = r] /\ UNCHANGED <<rowVars, raced>>
      BY <1>4 DEF SettlePay, Continue
    <2>2. r \in Request
      BY <1>a, <2>1, RequestFields
    <2>3. r.op = "st_paid"
      BY <1>a DEF Request
    <2>4. QED
      BY <1>b, <2>1, <2>2, <2>3 DEF Aside, SettleOps
  <1>5. ASSUME NEW h \in Handlers, SettleComplete(h) \/ ReviewWrite(h) \/ PayCommit(h)
        PROVE  Aside(h)
    <2>1. req[h].op \in SettleOps \cup TaskOps
      BY <1>5 DEF SettleComplete, ReviewWrite, PayCommit, SettleOps, TaskOps
    <2>2. req' = [req EXCEPT ![h] = Idle] /\ UNCHANGED <<rowVars, raced>>
      BY <1>5 DEF SettleComplete, ReviewWrite, PayCommit, Return, Continue
    <2>3. QED
      BY <1>b, <2>1, <2>2, IdleIsRequest DEF Aside
  <1>6. CASE TaskAdvance
    BY <1>6 DEF TaskAdvance
  <1>7. CASE UNCHANGED vars
    BY <1>7 DEF vars
  <1>8. QED
    BY <1>1, <1>2, <1>3, <1>4, <1>5, <1>6, <1>7, StartsOnDispute DEF Next, Handle

\* A verdict goes on with the amounts of the task as it is now.
LEMMA VerdictUnderWay ==
  ASSUME TypeOK, NEW h \in Handlers, ResolveReadTask(h)
  PROVE  \E r \in Request :
           /\ req' = [req EXCEPT ![h] = r]
           /\ r.op = "rs_task" /\ r.on = req[h].on /\ r.asg = req[h].asg
           /\ r.worker + r.company <= Locked
  <1>1. PICK s \in Shares(req[h].to, locked) :
          Continue(h, [req[h] EXCEPT !.op = "rs_task", !.worker = s.worker,
                                     !.company = s.company])
    BY DEF ResolveReadTask
  <1> DEFINE r == [req[h] EXCEPT !.op = "rs_task", !.worker = s.worker,
                                 !.company = s.company]
  <1>2. req[h] \in Request /\ locked \in {0, Locked} /\ Locked \in Nat
    BY LockedAssumption DEF TypeOK
  <1>3. s.worker \in Nat /\ s.company \in Nat /\ s.worker + s.company <= Locked
    BY <1>2, SharesAre
  <1>4. r \in Request
    BY <1>2, <1>3, RequestFields DEF ResolveReadTask
  <1>5. /\ r.op = "rs_task" /\ r.on = req[h].on /\ r.asg = req[h].asg
        /\ r.worker = s.worker /\ r.company = s.company
    BY <1>2 DEF Request
  <1>6. req' = [req EXCEPT ![h] = r]
    BY <1>1 DEF Continue
  <1>7. QED
    BY <1>3, <1>4, <1>5, <1>6

-----------------------------------------------------------------------------
(* Only what was taken up moves money *)

\* A dispute under investigation has been taken up, and a verdict is only under
\* way for one that was.
TakenUp ==
  /\ \A d \in Disputes : dispute[d] = "investigating" => d \in accepted
  /\ \A h \in Handlers : req[h].op \in {"rs_read", "rs_task"} => req[h].on \in accepted

LEMMA TakenUpKept ==
  ASSUME TypeOK, TakenUp, MovedWasAccepted, NEW h \in Handlers, NEW r \in Request,
         req' = [req EXCEPT ![h] = r],
         r.op \in {"rs_read", "rs_task"} => r.on \in accepted,
         accepted \subseteq accepted',
         \A d \in Disputes : dispute'[d] = "investigating" =>
           dispute[d] = "investigating" \/ d \in accepted',
         \A d \in Disputes : moved'[d] = moved[d] \/ d \in accepted'
  PROVE  TakenUp' /\ MovedWasAccepted'
  <1>1. \A k \in Handlers : req'[k] = IF k = h THEN r ELSE req[k]
    BY OneContinuation DEF TypeOK
  <1>2. \A k \in Handlers : req'[k].op \in {"rs_read", "rs_task"} => req'[k].on \in accepted'
    BY <1>1 DEF TakenUp
  <1>3. \A d \in Disputes : dispute'[d] = "investigating" => d \in accepted'
    BY DEF TakenUp
  <1>4. \A d \in Disputes : MovedBy(d)' > 0 => d \in accepted'
    BY DEF MovedWasAccepted, MovedBy
  <1>5. QED
    BY <1>2, <1>3, <1>4 DEF TakenUp, MovedWasAccepted

\* No verdict moves money of a dispute that nobody had taken up, whichever of the
\* two resolveDispute handlers the others race with.
THEOREM OnlyAcceptedMove == Spec => []MovedWasAccepted
  <1> DEFINE Inv == TakenUp /\ MovedWasAccepted
  <1>1. Init => Inv
    BY DEF Init, TakenUp, MovedWasAccepted, MovedBy, Idle
  <1>2. TypeOK /\ Inv /\ [Next]_vars => Inv'
    <2> SUFFICES ASSUME TypeOK, TakenUp, MovedWasAccepted, [Next]_vars
                 PROVE  TakenUp' /\ MovedWasAccepted'
      OBVIOUS
    <2>a. \A h \in Handlers : req[h] \in Request
      BY DEF TypeOK
    \* Steps that leave the disputes as they are.
    <2>b. ASSUME NEW h \in Handlers, NEW r \in Request, req' = [req EXCEPT ![h] = r],
                 r.op \in {"rs_read", "rs_task"} => r.on \in accepted,
                 UNCHANGED <<dispute, moved, accepted>>
          PROVE  TakenUp' /\ MovedWasAccepted'
      BY <2>b, TakenUpKept
    \* Steps that end a handler.
    <2>c. ASSUME NEW h \in Handlers, Return(h), accepted \subseteq accepted',
                 \A d \in Disputes : dispute'[d] = "investigating" =>
                   dispute[d] = "investigating" \/ d \in accepted',
                 \A d \in Disputes : moved'[d] = moved[d] \/ d \in accepted'
          PROVE  TakenUp' /\ MovedWasAccepted'
      <3>1. req' = [req EXCEPT ![h] = Idle]
        BY <2>c DEF Return, Continue
      <3>2. QED
        BY <2>c, <3>1, IdleIsRequest, TakenUpKept
    <2>1. CASE UNCHANGED <<rowVars, raced, req>>
      BY <2>1 DEF rowVars, TakenUp, MovedWasAccepted, MovedBy
    <2>2. CASE Restart
      <3>1. \A k \in Handlers : req'[k].op = "idle"
        BY <2>2, IdleIsRequest DEF Restart
      <3>2. QED
        BY <2>2, <3>1 DEF Restart, rowVars, TakenUp, MovedWasAccepted, MovedBy
    <2>3. ASSUME NEW h \in Handlers, Aside(h) PROVE TakenUp' /\ MovedWasAccepted'
      <3>1. "rs_read" \in DisputeOps /\ "rs_task" \in DisputeOps
        BY DEF DisputeOps, RowOps
      <3>2. QED
        BY <2>3, <2>b, <3>1 DEF Aside, rowVars
    <2>4. ASSUME NEW h \in Handlers, NEW r \in Request, Starts(h, r)
          PROVE  TakenUp' /\ MovedWasAccepted'
      <3>1. req' = [req EXCEPT ![h] = r] /\ UNCHANGED <<dispute, moved, accepted>>
        BY <2>4 DEF Starts, BeginDispute, Begin, rowVars
      <3>2. r.op \in {"rs_read", "rs_task"} => r.on \in Disputes /\ r.on \in accepted
        BY <2>4, RequestFields DEF Starts, Knows, TakenUp, RowOps
      <3>3. QED
        BY <2>b, <3>1, <3>2
    <2>5. ASSUME NEW h \in Handlers, CreateLookup(h) PROVE TakenUp' /\ MovedWasAccepted'
      <3> DEFINE r == [req[h] EXCEPT !.op = "cr_free"]
      <3>1. r \in Request /\ r.op = "cr_free"
        BY <2>5, <2>a, RequestFields DEF CreateLookup, Request
      <3>2. req' = [req EXCEPT ![h] = r] /\ UNCHANGED <<dispute, moved, accepted>>
        BY <2>5 DEF CreateLookup, Continue, rowVars
      <3>3. QED
        BY <2>b, <3>1, <3>2
    <2>6. ASSUME NEW h \in Handlers, ResolveReadTask(h) PROVE TakenUp' /\ MovedWasAccepted'
      <3>1. PICK r \in Request : req' = [req EXCEPT ![h] = r] /\ r.on = req[h].on
        BY <2>6, VerdictUnderWay
      <3>2. req[h].on \in accepted /\ UNCHANGED <<dispute, moved, accepted>>
        BY <2>6 DEF ResolveReadTask, TakenUp, rowVars
      <3>3. QED
        BY <2>b, <3>1, <3>2
    <2>7. ASSUME NEW h \in Handlers, CreateWrite(h) \/ CreateRefuse(h) \/ EvidenceWrite(h)
          PROVE  TakenUp' /\ MovedWasAccepted'
      <3>1. Return(h) /\ UNCHANGED <<moved, accepted>>
        BY <2>7 DEF CreateWrite, CreateRefuse, EvidenceWrite, rowVars
      <3>2. \A d \in Disputes : dispute'[d] = "investigating" => dispute[d] = "investigating"
        BY <2>7 DEF CreateWrite, CreateRefuse, EvidenceWrite, rowVars, TypeOK
      <3>3. QED
        BY <2>c, <3>1, <3>2
    <2>8. ASSUME NEW h \in Handlers, AcceptWrite(h) PROVE TakenUp' /\ MovedWasAccepted'
      <3>1. \A d \in Disputes : d # req[h].on => dispute'[d] = dispute[d]
        BY <2>8 DEF AcceptWrite, TypeOK
      <3>2. Return(h) /\ UNCHANGED moved /\ accepted' = accepted \cup {req[h].on}
        BY <2>8 DEF AcceptWrite
      <3>3. QED
        BY <2>c, <3>1, <3>2
    <2>9. ASSUME NEW h \in Handlers, PlatformResolveWrite(h) \/ CancelWrite(h)
          PROVE  TakenUp' /\ MovedWasAccepted'
      <3>1. req[h].op = "pr_read" => req[h].to # "investigating"
        BY <2>a, StatusToWrite DEF Verdicts
      <3>2. \A d \in Disputes : dispute'[d] = "investigating" => dispute[d] = "investigating"
        BY <2>9, <3>1 DEF PlatformResolveWrite, CancelWrite, TypeOK
      <3>3. Return(h) /\ UNCHANGED <<moved, accepted>>
        BY <2>9 DEF PlatformResolveWrite, CancelWrite
      <3>4. QED
        BY <2>c, <3>2, <3>3
    <2>10. ASSUME NEW h \in Handlers, ResolveCommit(h) PROVE TakenUp' /\ MovedWasAccepted'
      <3>1. req[h].on \in accepted /\ req[h].to \in Verdicts
        BY <2>10, <2>a, StatusToWrite DEF ResolveCommit, TakenUp
      <3>2. \A d \in Disputes : dispute'[d] = "investigating" => dispute[d] = "investigating"
        BY <2>10, <3>1 DEF ResolveCommit, TypeOK, Verdicts
      <3>3. \A d \in Disputes : moved'[d] = moved[d] \/ d \in accepted'
        BY <2>10, <3>1 DEF ResolveCommit, TypeOK
      <3>4. Return(h) /\ UNCHANGED accepted
        BY <2>10 DEF ResolveCommit
      <3>5. QED
        BY <2>c, <3>2, <3>3, <3>4
    <2>11. QED
      BY <2>1, <2>2, <2>3, <2>4, <2>5, <2>6, <2>7, <2>8, <2>9, <2>10, StepKinds
  <1>3. QED
    BY <1>1, <1>2, TypeCorrect, PTL DEF Spec

-----------------------------------------------------------------------------
(* Assignments whose dispute handlers never overlap *)

\* Rows that do not exist yet are empty.
FreshRows ==
  \A d \in Disputes : dispute[d] = "none" =>
    about[d] = "none" /\ files[d] = {} /\ MovedBy(d) = 0

\* What the verdicts on the disputes of an assignment may have moved.
SoundMoney(a) ==
  \A d \in Disputes : about[d] = a =>
    /\ MovedBy(d) <= Locked
    /\ dispute[d] \in {"cancelled"} \cup Open => MovedBy(d) = 0

\* If no two dispute handlers on an assignment have ever overlapped, the one at
\* work, if any, still knows what it has read; at most one dispute is open; money
\* was moved for closed ones, once.
Calm(a) ==
  /\ \A h, k \in Working(a) : h = k
  /\ \A h \in Working(a) : Knows(req[h])
  /\ \A d, e \in OpenOf(a) : d = e
  /\ SoundMoney(a)

CalmUnlessRaced == \A a \in Assignments \ raced : Calm(a)

\* What an assignment's calm depends on: its disputes and the handlers on them.
\* Handlers may end, and other disputes may change.
LEMMA CalmKept ==
  ASSUME TypeOK, NEW a \in Assignments, Calm(a),
         \A h \in Handlers : h \in Working(a)' => h \in Working(a) /\ req'[h] = req[h],
         \A d \in Disputes : about'[d] = a => about[d] = a,
         \A d \in Disputes : about[d] = a =>
           /\ about'[d] = a /\ dispute'[d] = dispute[d]
           /\ files'[d] = files[d] /\ moved'[d] = moved[d]
  PROVE  Calm(a)'
  <1>1. \A h, k \in Working(a)' : h = k
    BY DEF Calm, Working
  <1>2. OpenOf(a)' = OpenOf(a)
    BY DEF OpenOf
  <1>3. SoundMoney(a)'
    BY DEF Calm, SoundMoney, MovedBy
  <1>4. ASSUME NEW h \in Handlers, h \in Working(a)' PROVE Knows(req[h])'
    <2>1. /\ Knows(req[h]) /\ req'[h] = req[h] /\ req[h] \in Request
          /\ req[h].op \in CreateOps \cup RowOps /\ req[h].asg = a
      BY <1>4 DEF Calm, Working, TypeOK
    <2>2. req[h].op \in RowOps => req[h].on \in Disputes /\ about[req[h].on] = a
      BY <2>1, RequestFields DEF TypeOK
    <2>3. req[h].op \in RowOps =>
            dispute'[req[h].on] = dispute[req[h].on] /\ files'[req[h].on] = files[req[h].on]
      BY <2>2
    <2>4. CASE req[h].op \in RowOps
      <3>1. req[h].op # "cr_free"
        BY <2>4 DEF RowOps
      <3>2. QED
        BY <2>1, <2>3, <2>4, <3>1 DEF Knows
    <2>5. CASE req[h].op \in CreateOps
      <3>1. req[h].op \in {"cr_task", "cr_free"}
        BY <2>5 DEF CreateOps
      <3>2. QED
        BY <1>2, <2>1, <3>1 DEF Knows
    <2>6. QED
      BY <2>1, <2>4, <2>5
  <1>5. \A h \in Working(a)' : Knows(req[h])'
    BY <1>4 DEF Working
  <1>6. QED
    BY <1>1, <1>2, <1>3, <1>5 DEF Calm

\* The only handler on an assignment goes on knowing what it has read, or ends.
LEMMA CalmSole ==
  ASSUME TypeOK, NEW a \in Assignments, NEW h \in Handlers, NEW r \in Request,
         req' = [req EXCEPT ![h] = r],
         \A k \in Working(a) : k = h,
         r.op \in DisputeOps => Knows(r)',
         \A d, e \in OpenOf(a)' : d = e,
         SoundMoney(a)'
  PROVE  Calm(a)'
  <1>1. \A k \in Handlers : req'[k] = IF k = h THEN r ELSE req[k]
    BY OneContinuation DEF TypeOK
  <1>2. \A k \in Working(a)' : k = h
    BY <1>1 DEF Working
  <1>3. ASSUME NEW k \in Handlers, k \in Working(a)' PROVE Knows(req[k])'
    <2>1. k = h /\ req'[k] = r /\ r.op \in DisputeOps
      BY <1>1, <1>2, <1>3 DEF Working, DisputeOps
    <2>2. Knows(r)'
      BY <2>1
    <2>3. QED
      BY <2>1, <2>2 DEF Knows, OpenOf
  <1>4. \A k \in Working(a)' : Knows(req[k])'
    BY <1>3 DEF Working
  <1>5. QED
    BY <1>2, <1>4 DEF Calm

LEMMA CalmEnds ==
  ASSUME TypeOK, NEW a \in Assignments, NEW h \in Handlers, Return(h),
         \A k \in Working(a) : k = h,
         \A d, e \in OpenOf(a)' : d = e,
         SoundMoney(a)'
  PROVE  Calm(a)'
  <1>1. req' = [req EXCEPT ![h] = Idle] /\ Idle.op \notin DisputeOps
    BY DEF Return, Continue, Idle, DisputeOps, CreateOps, RowOps
  <1>2. QED
    BY <1>1, IdleIsRequest, CalmSole

\* A handler changes its own dispute, if it has one, and no other row: the calm of
\* other assignments is kept.
LEMMA CalmElsewhere ==
  ASSUME TypeOK, NEW a \in Assignments, Calm(a), NEW h \in Handlers, NEW r \in Request,
         req' = [req EXCEPT ![h] = r],
         req[h].asg # a, r.op \in DisputeOps => r.asg # a,
         \A d \in Disputes : about'[d] = a => about[d] = a,
         \A d \in Disputes : about[d] = a =>
           /\ about'[d] = a /\ dispute'[d] = dispute[d]
           /\ files'[d] = files[d] /\ moved'[d] = moved[d]
  PROVE  Calm(a)'
  <1>1. \A k \in Handlers : req'[k] = IF k = h THEN r ELSE req[k]
    BY OneContinuation DEF TypeOK
  <1>2. ASSUME NEW k \in Handlers, k \in Working(a)'
        PROVE  k \in Working(a) /\ req'[k] = req[k]
    <2>1. k # h
      BY <1>1, <1>2 DEF Working, DisputeOps
    <2>2. QED
      BY <1>1, <1>2, <2>1 DEF Working
  <1>3. QED
    BY <1>2, CalmKept

\* What a dispute handler that goes on leaves alone: the disputes about other
\* assignments, and the handlers on those.
LEMMA OwnDisputesOnly ==
  ASSUME TypeOK, FreshRows, NEW h \in Handlers,
         \/ CreateLookup(h) \/ CreateWrite(h) \/ CreateRefuse(h) \/ EvidenceWrite(h)
         \/ AcceptWrite(h) \/ ResolveReadTask(h) \/ ResolveCommit(h)
         \/ PlatformResolveWrite(h) \/ CancelWrite(h)
  PROVE  /\ req[h].op \in DisputeOps /\ req[h].asg \in Assignments /\ raced' = raced
         /\ FreshRows'
         /\ \A a \in Assignments : a # req[h].asg /\ Calm(a) => Calm(a)'
  <1>a. req[h] \in Request
    BY DEF TypeOK
  <1>1. req[h].op \in DisputeOps
    BY DEF CreateLookup, CreateWrite, CreateRefuse, EvidenceWrite, AcceptWrite,
           ResolveReadTask, ResolveCommit, PlatformResolveWrite, CancelWrite,
           DisputeOps, CreateOps, RowOps
  <1>2. /\ req[h].asg \in Assignments
        /\ req[h].op \in RowOps => /\ req[h].on \in Disputes /\ dispute[req[h].on] # "none"
                                   /\ about[req[h].on] = req[h].asg
    <2>1. CASE req[h].op \in RowOps
      BY <1>a, <2>1, RequestFields DEF TypeOK
    <2>2. CASE req[h].op \in CreateOps
      BY <1>a, <2>2, RequestFields DEF CreateOps, RowOps
    <2>3. QED
      BY <1>1, <2>1, <2>2 DEF DisputeOps
  <1>3. raced' = raced
    BY DEF CreateLookup, CreateWrite, CreateRefuse, EvidenceWrite, AcceptWrite,
           ResolveReadTask, ResolveCommit, PlatformResolveWrite, CancelWrite, Return, Continue
  <1>4. \E r \in Request : /\ req' = [req EXCEPT ![h] = r]
                           /\ r.op \in DisputeOps => r.asg = req[h].asg
    <2>1. CASE CreateLookup(h)
      <3> DEFINE r == [req[h] EXCEPT !.op = "cr_free"]
      <3>1. r \in Request /\ r.asg = req[h].asg
        BY <1>a, <2>1, RequestFields DEF CreateLookup, Request
      <3>2. req' = [req EXCEPT ![h] = r]
        BY <2>1 DEF CreateLookup, Continue
      <3>3. QED
        BY <3>1, <3>2
    <2>2. CASE ResolveReadTask(h)
      BY <2>2, VerdictUnderWay
    <2>3. CASE Return(h)
      <3>1. req' = [req EXCEPT ![h] = Idle] /\ Idle.op \notin DisputeOps
        BY <2>3 DEF Return, Continue, Idle, DisputeOps, CreateOps, RowOps
      <3>2. QED
        BY <3>1, IdleIsRequest
    <2>4. QED
      BY <2>1, <2>2, <2>3
         DEF CreateWrite, CreateRefuse, EvidenceWrite, AcceptWrite, ResolveCommit,
             PlatformResolveWrite, CancelWrite
  \* One row changes, its own or a new one.
  <1>5. \/ UNCHANGED <<dispute, about, files, moved>>
        \/ \E d \in Disputes :
             /\ about[d] \in {"none", req[h].asg} /\ about'[d] = req[h].asg
             /\ dispute'[d] # "none"
             /\ \A e \in Disputes \ {d} :
                  /\ about'[e] = about[e] /\ dispute'[e] = dispute[e]
                  /\ files'[e] = files[e] /\ moved'[e] = moved[e]
    <2>1. CASE CreateLookup(h) \/ CreateRefuse(h) \/ ResolveReadTask(h)
      BY <2>1 DEF CreateLookup, CreateRefuse, ResolveReadTask, rowVars
    <2>2. CASE CreateWrite(h)
      <3>1. PICK d \in Disputes, F \in FileSets :
              /\ dispute[d] = "none"
              /\ dispute' = [dispute EXCEPT ![d] = "pending"]
              /\ about' = [about EXCEPT ![d] = req[h].asg]
              /\ by' = [by EXCEPT ![d] = req[h].who]
              /\ files' = [files EXCEPT ![d] = F]
        BY <2>2 DEF CreateWrite
      <3>2. about[d] = "none" /\ moved' = moved
        BY <2>2, <3>1 DEF CreateWrite, FreshRows
      <3>3. /\ about'[d] = req[h].asg /\ dispute'[d] # "none"
            /\ \A e \in Disputes \ {d} :
                 /\ about'[e] = about[e] /\ dispute'[e] = dispute[e]
                 /\ files'[e] = files[e] /\ moved'[e] = moved[e]
        BY <3>1, <3>2 DEF TypeOK
      <3>4. QED
        BY <3>2, <3>3
    <2>3. CASE \/ EvidenceWrite(h) \/ AcceptWrite(h) \/ ResolveCommit(h)
               \/ PlatformResolveWrite(h) \/ CancelWrite(h)
      <3> DEFINE d == req[h].on
      <3>1. req[h].op \in RowOps /\ about' = about
        BY <2>3 DEF EvidenceWrite, AcceptWrite, ResolveCommit, PlatformResolveWrite,
                    CancelWrite, RowOps
      <3>2. req[h].to # "none" \/ req[h].op \notin {"rs_task", "pr_read"}
        BY <1>a, StatusToWrite DEF Verdicts
      <3>3. dispute'[d] # "none"
        BY <1>2, <2>3, <3>1, <3>2
           DEF EvidenceWrite, AcceptWrite, ResolveCommit, PlatformResolveWrite, CancelWrite,
               TypeOK
      <3>4. \A e \in Disputes \ {d} :
              /\ about'[e] = about[e] /\ dispute'[e] = dispute[e]
              /\ files'[e] = files[e] /\ moved'[e] = moved[e]
        BY <2>3, <3>1
           DEF EvidenceWrite, AcceptWrite, ResolveCommit, PlatformResolveWrite, CancelWrite,
               TypeOK
      <3>5. QED
        BY <1>2, <3>1, <3>3, <3>4
    <2>4. QED
      BY <2>1, <2>2, <2>3
  <1>6. FreshRows'
    BY <1>5 DEF FreshRows, MovedBy
  <1>7. ASSUME NEW a \in Assignments, a # req[h].asg, Calm(a) PROVE Calm(a)'
    <2>1. a # "none"
      BY NamesAssumption
    <2>2. /\ \A d \in Disputes : about'[d] = a => about[d] = a
          /\ \A d \in Disputes : about[d] = a =>
               /\ about'[d] = a /\ dispute'[d] = dispute[d]
               /\ files'[d] = files[d] /\ moved'[d] = moved[d]
      BY <1>5, <1>7, <2>1
    <2>3. QED
      BY <1>4, <1>7, <2>2, CalmElsewhere
  <1>8. QED
    BY <1>1, <1>2, <1>3, <1>6, <1>7

\* On its own assignment, if nobody else is at work there.
LEMMA CalmStep ==
  ASSUME TypeOK, FreshRows, NEW h \in Handlers, NEW a \in Assignments, a = req[h].asg, Calm(a),
         \/ CreateLookup(h) \/ CreateWrite(h) \/ CreateRefuse(h) \/ EvidenceWrite(h)
         \/ AcceptWrite(h) \/ ResolveReadTask(h) \/ ResolveCommit(h)
         \/ PlatformResolveWrite(h) \/ CancelWrite(h)
  PROVE  Calm(a)'
  <1>a. req[h] \in Request /\ req[h].op \in DisputeOps
    BY OwnDisputesOnly DEF TypeOK
  <1>b. h \in Working(a) /\ Knows(req[h]) /\ \A k \in Working(a) : k = h
    BY <1>a DEF Calm, Working, DisputeOps
  <1>c. (\A d, e \in OpenOf(a) : d = e) /\ SoundMoney(a)
    BY DEF Calm
  <1>d. req[h].op \in RowOps => req[h].on \in Disputes /\ about[req[h].on] = a
    BY <1>a, RequestFields DEF TypeOK
  <1>e. ASSUME UNCHANGED <<dispute, about, moved>>
        PROVE  (\A d, e \in OpenOf(a)' : d = e) /\ SoundMoney(a)'
    BY <1>c, <1>e DEF OpenOf, SoundMoney, MovedBy
  <1>1. CASE CreateLookup(h)
    <2> DEFINE q == [req[h] EXCEPT !.op = "cr_free"]
    <2>1. q \in Request /\ q.op = "cr_free" /\ q.asg = a
      BY <1>1, <1>a, RequestFields DEF CreateLookup, Request
    <2>2. /\ req' = [req EXCEPT ![h] = q] /\ OpenOf(a) = {}
          /\ UNCHANGED <<dispute, about, files, moved>>
      BY <1>1 DEF CreateLookup, Continue, rowVars
    <2> HIDE DEF q
    <2>3. PICK r \in Request : r = q
      BY <2>1
    <2>4. OpenOf(a)' = {}
      BY <2>2 DEF OpenOf
    <2>5. Knows(r)'
      BY <2>1, <2>3, <2>4 DEF Knows
    <2>6. QED
      BY <1>b, <1>e, <2>2, <2>3, <2>5, CalmSole
  <1>2. CASE ResolveReadTask(h)
    <2>1. PICK r \in Request :
            /\ req' = [req EXCEPT ![h] = r]
            /\ r.op = "rs_task" /\ r.on = req[h].on /\ r.asg = req[h].asg
            /\ r.worker + r.company <= Locked
      BY <1>2, VerdictUnderWay
    <2>2. UNCHANGED <<dispute, about, files, moved>>
      BY <1>2 DEF ResolveReadTask, rowVars
    <2>3. dispute[r.on] = "investigating"
      BY <1>2, <1>b, <2>1 DEF ResolveReadTask, Knows
    <2>4. Knows(r)'
      BY <2>1, <2>2, <2>3 DEF Knows
    <2>5. QED
      BY <1>b, <1>e, <2>1, <2>2, <2>4, CalmSole
  <1>3. CASE CreateRefuse(h)
    <2>1. Return(h) /\ UNCHANGED <<dispute, about, moved>>
      BY <1>3 DEF CreateRefuse, rowVars
    <2>2. QED
      BY <1>b, <1>e, <2>1, CalmEnds
  <1>4. CASE EvidenceWrite(h)
    <2>1. Return(h) /\ UNCHANGED <<dispute, about, moved>>
      BY <1>4 DEF EvidenceWrite
    <2>2. QED
      BY <1>b, <1>e, <2>1, CalmEnds
  <1>5. CASE CreateWrite(h)
    <2>1. PICK d \in Disputes, F \in FileSets :
            /\ dispute[d] = "none"
            /\ dispute' = [dispute EXCEPT ![d] = "pending"]
            /\ about' = [about EXCEPT ![d] = req[h].asg]
            /\ by' = [by EXCEPT ![d] = req[h].who]
            /\ files' = [files EXCEPT ![d] = F]
      BY <1>5 DEF CreateWrite
    <2>2. Return(h) /\ moved' = moved /\ OpenOf(a) = {} /\ MovedBy(d) = 0
      BY <1>5, <1>b, <2>1 DEF CreateWrite, Knows, FreshRows
    <2>3. \A e \in Disputes \ {d} : about'[e] = about[e] /\ dispute'[e] = dispute[e]
      BY <2>1 DEF TypeOK
    <2>4. \A e \in OpenOf(a)' : e = d
      BY <2>2, <2>3 DEF OpenOf
    <2>5. SoundMoney(a)'
      BY <1>c, <2>2, <2>3, LockedAssumption DEF SoundMoney, MovedBy
    <2>6. QED
      BY <1>b, <2>2, <2>4, <2>5, CalmEnds
  \* A handler that only sets the status.
  <1>6. ASSUME NEW s, req[h].op \in RowOps, dispute[req[h].on] \in Open,
               dispute' = [dispute EXCEPT ![req[h].on] = s], UNCHANGED <<about, moved>>,
               Return(h)
        PROVE  Calm(a)'
    <2>1. MovedBy(req[h].on) = 0 /\ req[h].on \in OpenOf(a)
      BY <1>c, <1>d, <1>6 DEF SoundMoney, OpenOf
    <2>2. \A e \in Disputes : e # req[h].on => dispute'[e] = dispute[e]
      BY <1>6 DEF TypeOK
    <2>3. OpenOf(a)' \subseteq OpenOf(a)
      BY <1>6, <2>1, <2>2 DEF OpenOf
    <2>4. SoundMoney(a)'
      BY <1>c, <1>6, <2>1, <2>2, LockedAssumption DEF SoundMoney, MovedBy
    <2>5. QED
      BY <1>b, <1>c, <1>6, <2>3, <2>4, CalmEnds
  <1>7. CASE AcceptWrite(h) \/ PlatformResolveWrite(h) \/ CancelWrite(h)
    <2>1. req[h].op \in RowOps /\ dispute[req[h].on] \in Open
      BY <1>7, <1>b DEF AcceptWrite, PlatformResolveWrite, CancelWrite, Knows, RowOps, Open
    <2>2. PICK s : dispute' = [dispute EXCEPT ![req[h].on] = s]
      BY <1>7 DEF AcceptWrite, PlatformResolveWrite, CancelWrite
    <2>3. Return(h) /\ UNCHANGED <<about, moved>>
      BY <1>7 DEF AcceptWrite, PlatformResolveWrite, CancelWrite
    <2>4. QED
      BY <1>6, <2>1, <2>2, <2>3
  <1>8. CASE ResolveCommit(h)
    <2>1. req[h].op = "rs_task" /\ req[h].op \in RowOps
      BY <1>8 DEF ResolveCommit, RowOps
    <2>0. PICK d \in Disputes : d = req[h].on
      BY <1>d, <2>1
    <2>2. /\ d \in Disputes /\ about[d] = a /\ dispute[d] = "investigating"
          /\ req[h].worker + req[h].company <= Locked /\ req[h].to \in Verdicts
          /\ req[h].worker \in Nat /\ req[h].company \in Nat
      BY <1>a, <1>b, <1>d, <2>0, <2>1, StatusToWrite, RequestFields DEF Knows
    <2>3. /\ dispute' = [dispute EXCEPT ![d] = req[h].to] /\ about' = about
          /\ moved' = [moved EXCEPT ![d] = [worker |-> @.worker + req[h].worker,
                                            company |-> @.company + req[h].company]]
          /\ Return(h)
      BY <1>8, <2>0 DEF ResolveCommit
    <2>4. MovedBy(d) = 0
      BY <1>c, <2>2 DEF SoundMoney, Open
    <2>5. MovedBy(d)' = MovedBy(d) + req[h].worker + req[h].company
      BY <2>2, <2>3 DEF MovedBy, TypeOK
    <2>6. /\ dispute'[d] \notin {"cancelled"} \cup Open
          /\ \A e \in Disputes \ {d} : dispute'[e] = dispute[e] /\ moved'[e] = moved[e]
      BY <2>2, <2>3 DEF TypeOK, Verdicts, Open
    <2>7. OpenOf(a)' \subseteq OpenOf(a)
      BY <2>3, <2>6 DEF OpenOf
    <2>8. MovedBy(d)' <= Locked
      BY <2>2, <2>4, <2>5, LockedAssumption
    <2>9. SoundMoney(a)'
      BY <1>c, <2>3, <2>6, <2>8 DEF SoundMoney, MovedBy
    <2>10. QED
      BY <1>b, <1>c, <2>3, <2>7, <2>9, CalmEnds
  <1>9. QED
    BY <1>1, <1>2, <1>3, <1>4, <1>5, <1>7, <1>8

\* If the dispute handlers on an assignment never overlap, the assignment is calm.
THEOREM CalmTheorem == Spec => [](FreshRows /\ CalmUnlessRaced)
  <1> DEFINE Inv == FreshRows /\ CalmUnlessRaced
  <1>1. Init => Inv
    <2> SUFFICES ASSUME Init PROVE Inv
      OBVIOUS
    <2>1. \A d \in Disputes : /\ about[d] = "none" /\ files[d] = {} /\ MovedBy(d) = 0
                              /\ dispute[d] = "none"
      BY DEF Init, MovedBy
    <2>2. \A a \in Assignments : Working(a) = {} /\ OpenOf(a) = {}
      BY <2>1 DEF Init, Working, OpenOf, Idle, CreateOps, RowOps, Open
    <2>3. \A a \in Assignments : SoundMoney(a)
      BY <2>1, LockedAssumption DEF SoundMoney
    <2>4. QED
      BY <2>1, <2>2, <2>3 DEF FreshRows, CalmUnlessRaced, Calm
  <1>2. TypeOK /\ Inv /\ [Next]_vars => Inv'
    <2> SUFFICES ASSUME TypeOK, FreshRows, CalmUnlessRaced, [Next]_vars
                 PROVE  FreshRows' /\ CalmUnlessRaced'
      OBVIOUS
    \* Steps that leave the disputes as they are.
    <2>a. ASSUME UNCHANGED rowVars, UNCHANGED raced,
                 \A h \in Handlers : req'[h].op \in DisputeOps => req'[h] = req[h]
          PROVE  FreshRows' /\ CalmUnlessRaced'
      <3>1. UNCHANGED <<dispute, about, files, moved>>
        BY <2>a DEF rowVars
      <3>2. FreshRows'
        BY <3>1 DEF FreshRows, MovedBy
      <3>3. ASSUME NEW a \in Assignments, a \notin raced PROVE Calm(a)'
        <4>1. \A h \in Handlers : h \in Working(a)' => h \in Working(a) /\ req'[h] = req[h]
          BY <2>a DEF Working, DisputeOps
        <4>2. QED
          BY <3>1, <3>3, <4>1, CalmKept DEF CalmUnlessRaced
      <3>4. QED
        BY <2>a, <3>2, <3>3 DEF CalmUnlessRaced
    <2>b. Idle.op \notin DisputeOps
      BY DEF Idle, DisputeOps, CreateOps, RowOps
    <2>1. CASE UNCHANGED <<rowVars, raced, req>>
      BY <2>1, <2>a
    <2>2. CASE Restart
      BY <2>2, <2>a, <2>b DEF Restart
    <2>3. ASSUME NEW h \in Handlers, Aside(h) PROVE FreshRows' /\ CalmUnlessRaced'
      <3>1. PICK r \in Request : r.op \notin DisputeOps /\ req' = [req EXCEPT ![h] = r]
        BY <2>3 DEF Aside
      <3>2. \A k \in Handlers : req'[k] = IF k = h THEN r ELSE req[k]
        BY <3>1, OneContinuation DEF TypeOK
      <3>3. QED
        BY <2>3, <2>a, <3>1, <3>2 DEF Aside
    <2>4. ASSUME NEW h \in Handlers, NEW r \in Request, Starts(h, r)
          PROVE  FreshRows' /\ CalmUnlessRaced'
      <3>1. /\ req' = [req EXCEPT ![h] = r] /\ req[h] = Idle
            /\ raced' = IF Working(r.asg) = {} THEN raced ELSE raced \cup {r.asg}
            /\ UNCHANGED <<dispute, about, files, moved>>
            /\ r.asg \in Assignments /\ Knows(r)
        BY <2>4 DEF Starts, BeginDispute, Begin, rowVars
      <3>2. FreshRows'
        BY <3>1 DEF FreshRows, MovedBy
      <3>3. ASSUME NEW a \in Assignments, a \notin raced' PROVE Calm(a)'
        <4>1. Calm(a)
          BY <3>1, <3>3 DEF CalmUnlessRaced
        <4>2. CASE a = r.asg
          <5>1. Working(a) = {}
            BY <3>1, <3>3, <4>2
          <5>2. Knows(r)'
            BY <3>1 DEF Knows, OpenOf
          <5>3. (\A d, e \in OpenOf(a)' : d = e) /\ SoundMoney(a)'
            BY <3>1, <4>1 DEF Calm, OpenOf, SoundMoney, MovedBy
          <5>4. QED
            BY <3>1, <5>1, <5>2, <5>3, CalmSole
        <4>3. CASE a # r.asg
          <5>1. req[h].asg # a
            BY <3>1, NamesAssumption DEF Idle
          <5>2. QED
            BY <3>1, <4>1, <4>3, <5>1, CalmElsewhere
        <4>4. QED
          BY <4>2, <4>3
      <3>4. QED
        BY <3>2, <3>3 DEF CalmUnlessRaced
    <2>5. ASSUME NEW h \in Handlers,
                 \/ CreateLookup(h) \/ CreateWrite(h) \/ CreateRefuse(h) \/ EvidenceWrite(h)
                 \/ AcceptWrite(h) \/ ResolveReadTask(h) \/ ResolveCommit(h)
                 \/ PlatformResolveWrite(h) \/ CancelWrite(h)
          PROVE  FreshRows' /\ CalmUnlessRaced'
      <3>1. /\ raced' = raced /\ FreshRows'
            /\ \A a \in Assignments : a # req[h].asg /\ Calm(a) => Calm(a)'
        BY <2>5, OwnDisputesOnly
      <3>2. ASSUME NEW a \in Assignments, a \notin raced PROVE Calm(a)'
        <4>1. Calm(a)
          BY <3>2 DEF CalmUnlessRaced
        <4>2. CASE a = req[h].asg
          BY <2>5, <4>1, <4>2, CalmStep
        <4>3. CASE a # req[h].asg
          BY <3>1, <4>1, <4>3
        <4>4. QED
          BY <4>2, <4>3
      <3>3. QED
        BY <3>1, <3>2 DEF CalmUnlessRaced
    <2>6. QED
      BY <2>1, <2>2, <2>3, <2>4, <2>5, StepKinds
  <1>3. QED
    BY <1>1, <1>2, TypeCorrect, PTL DEF Spec

\* At most one dispute about such an assignment is open.
THEOREM OneOpen == Spec => []OneOpenUnlessRaced
  <1>1. CalmUnlessRaced => OneOpenUnlessRaced
    BY DEF CalmUnlessRaced, Calm, OneOpenUnlessRaced
  <1>2. QED
    BY <1>1, CalmTheorem, PTL

\* The verdicts on a dispute about it move the locked amount at most once, and
\* nothing while it is open or when it was withdrawn.
THEOREM MovedOnce == Spec => []MovedOnceUnlessRaced
  <1>1. TypeOK /\ FreshRows /\ CalmUnlessRaced /\ MovedWasAccepted => MovedOnceUnlessRaced
    <2> SUFFICES ASSUME TypeOK, FreshRows, CalmUnlessRaced, NEW d \in Disputes,
                        about[d] \notin raced
                 PROVE  /\ MovedBy(d) <= Locked
                        /\ dispute[d] \in {"cancelled"} \cup Open => MovedBy(d) = 0
      BY DEF MovedOnceUnlessRaced
    <2>1. CASE dispute[d] = "none"
      BY <2>1, LockedAssumption DEF FreshRows
    <2>2. CASE dispute[d] # "none"
      <3>1. about[d] \in Assignments \ raced
        BY <2>2 DEF TypeOK
      <3>2. SoundMoney(about[d])
        BY <3>1 DEF CalmUnlessRaced, Calm
      <3>3. QED
        BY <3>2 DEF SoundMoney
    <2>3. QED
      BY <2>1, <2>2
  <1>2. QED
    BY <1>1, CalmTheorem, TypeCorrect, OnlyAcceptedMove, PTL

\* Evidence that was brought stays.
THEOREM EvidenceKept == Spec => EvidenceKeptUnlessRaced
  <1>1. TypeOK /\ FreshRows /\ CalmUnlessRaced /\ [Next]_vars
          => [\A d \in Disputes : about[d] \notin raced => files[d] \subseteq files'[d]]_vars
    <2> SUFFICES ASSUME TypeOK, FreshRows, CalmUnlessRaced, [Next]_vars,
                        NEW d \in Disputes, about[d] \notin raced
                 PROVE  files[d] \subseteq files'[d]
      OBVIOUS
    <2>1. ASSUME NEW h \in Handlers, EvidenceWrite(h) PROVE files[d] \subseteq files'[d]
      <3>1. req[h].op = "ev_read" /\ req[h] \in Request /\ req[h].op \in RowOps
        BY <2>1 DEF EvidenceWrite, TypeOK, RowOps
      <3>2. /\ req[h].on \in Disputes /\ req[h].asg = about[req[h].on]
            /\ about[req[h].on] \in Assignments
        BY <3>1, RequestFields DEF TypeOK
      <3>3. CASE d = req[h].on
        <4>1. h \in Working(about[d]) /\ about[d] \in Assignments \ raced
          BY <3>1, <3>2, <3>3 DEF Working
        <4>2. Knows(req[h])
          BY <4>1 DEF CalmUnlessRaced, Calm
        <4>3. QED
          BY <2>1, <3>1, <3>3, <4>2 DEF Knows, EvidenceWrite, TypeOK
      <3>4. CASE d # req[h].on
        BY <2>1, <3>4 DEF EvidenceWrite, TypeOK
      <3>5. QED
        BY <3>3, <3>4
    <2>2. ASSUME NEW h \in Handlers, CreateWrite(h) PROVE files[d] \subseteq files'[d]
      <3>1. PICK e \in Disputes, F \in FileSets :
              dispute[e] = "none" /\ files' = [files EXCEPT ![e] = F]
        BY <2>2 DEF CreateWrite
      <3>2. files[e] = {}
        BY <3>1 DEF FreshRows
      <3>3. QED
        BY <3>1, <3>2 DEF TypeOK
    <2>3. ASSUME NEW h \in Handlers,
                 \/ CreateLookup(h) \/ CreateRefuse(h) \/ AcceptWrite(h) \/ ResolveReadTask(h)
                 \/ ResolveCommit(h) \/ PlatformResolveWrite(h) \/ CancelWrite(h)
          PROVE  files' = files
      BY <2>3 DEF CreateLookup, CreateRefuse, AcceptWrite, ResolveReadTask, ResolveCommit,
                  PlatformResolveWrite, CancelWrite, rowVars
    <2>4. CASE UNCHANGED rowVars
      BY <2>4 DEF rowVars
    <2>5. QED
      BY <2>1, <2>2, <2>3, <2>4, StepKinds DEF Restart, Aside, Starts
  <1>2. QED
    BY <1>1, CalmTheorem, TypeCorrect, PTL DEF Spec, EvidenceKeptUnlessRaced

=============================================================================
