---------------------------- MODULE Services_proofs ----------------------------
(***************************************************************************)
(* Proofs about Services, for any rows, any people and any bounds, one part   *)
(* for each service.  Each has the same course: every action keeps the       *)
(* invariant that Services_invariants gives for the service, which follows for *)
(* the behaviours with that service at work, and the properties with it.      *)
(***************************************************************************)
EXTENDS Services_invariants, FiniteSetTheorems, SequenceTheorems,
        WellFoundedInduction, TLAPS

------------
(* Sums.  SumFunctionOnSet is defined by recursion over the subsets, an       *)
(* element chosen at each step: such a function exists and is one, and the    *)
(* choice does not matter.                                                  *)

\* Induction over the subsets of a finite set.
LEMMA SubsetInduction ==
  ASSUME NEW S, IsFiniteSet(S), NEW Good,
         \A s \in SUBSET S : (\A u \in SUBSET s : u # s => u \in Good) => s \in Good
  PROVE  \A s \in SUBSET S : s \in Good
  <1> DEFINE Bad == {s \in SUBSET S : s \notin Good}
  <1>1. SUFFICES ASSUME Bad # {} PROVE FALSE OBVIOUS
  <1>2. PICK s \in Bad : \A u \in Bad : <<u, s>> \notin StrictSubsetOrdering(S)
    <2>1. IsWellFoundedOn(StrictSubsetOrdering(S), SUBSET S)
      BY FS_StrictSubsetOrderingWellFounded, FS_FiniteSubsetsOfFinite
    <2>2. Bad \subseteq SUBSET S OBVIOUS
    <2> HIDE DEF Bad
    <2>3. QED BY <1>1, <2>1, <2>2, WFMin
  <1>3. \A u \in SUBSET s : u # s => u \in Good BY <1>2 DEF StrictSubsetOrdering
  <1>4. QED BY <1>3

LEMMA RestOf == \A s : s # {} => One(s) \in s /\ Rest(s) \in SUBSET s /\ Rest(s) # s BY DEF One, Rest

LEMMA SumIsAdder == \A f, s : SumFunctionOnSet(f, s) = Adder(f, s)[s]
  BY DEF SumFunctionOnSet, FoldFunctionOnSet, MapThenFoldSet, Adder, Adds, One, Rest

\* Functions that add up f agree where both are defined.
LEMMA AddsOnce ==
  ASSUME NEW f, NEW S, IsFiniteSet(S), NEW D, NEW E, SUBSET S \subseteq D, SUBSET S \subseteq E,
         NEW g, Adds(f, D, g), NEW h, Adds(f, E, h)
  PROVE  g[S] = h[S]
  <1> DEFINE Good == {s \in SUBSET S : g[s] = h[s]}
  <1>1. ASSUME NEW s \in SUBSET S, \A u \in SUBSET s : u # s => u \in Good PROVE s \in Good
    <2>1. /\ g[s] = IF s = {} THEN 0 ELSE f[One(s)] + g[Rest(s)]
          /\ h[s] = IF s = {} THEN 0 ELSE f[One(s)] + h[Rest(s)] BY DEF Adds
    <2>2. s # {} => g[Rest(s)] = h[Rest(s)] BY <1>1, RestOf
    <2>3. QED BY <2>1, <2>2
  <1>2. \A s \in SUBSET S : s \in Good
    <2> HIDE DEF Good
    <2>1. QED BY <1>1, SubsetInduction
  <1>3. QED BY <1>2

\* If there are such functions for a set and for the rest of it, the sum is taken apart.
LEMMA AddsGive ==
  ASSUME NEW f, NEW S, IsFiniteSet(S),
         \A s \in {S, Rest(S)} : s \in SUBSET S => Adds(f, SUBSET s, Adder(f, s))
  PROVE  SumFunctionOnSet(f, S) = IF S = {} THEN 0 ELSE f[One(S)] + SumFunctionOnSet(f, Rest(S))
  <1>1. Adds(f, SUBSET S, Adder(f, S)) /\ S \in SUBSET S OBVIOUS
  <1>2. Adder(f, S)[S] = IF S = {} THEN 0 ELSE f[One(S)] + Adder(f, S)[Rest(S)] BY <1>1 DEF Adds
  <1>3. ASSUME S # {} PROVE Adder(f, S)[Rest(S)] = Adder(f, Rest(S))[Rest(S)]
    <2>1. Rest(S) \in SUBSET S /\ SUBSET Rest(S) \subseteq SUBSET S /\ IsFiniteSet(Rest(S)) BY <1>3, RestOf, FS_Subset
    <2>2. Adds(f, SUBSET Rest(S), Adder(f, Rest(S))) BY <2>1
    <2>3. QED BY <1>1, <2>1, <2>2, AddsOnce
  <1>4. QED BY <1>2, <1>3, SumIsAdder

\* There always are: the sums of the smaller sets make one up.
LEMMA SumOf ==
  ASSUME NEW f, NEW S, IsFiniteSet(S)
  PROVE  SumFunctionOnSet(f, S) = IF S = {} THEN 0 ELSE f[One(S)] + SumFunctionOnSet(f, Rest(S))
  <1> DEFINE Good == {s \in SUBSET S : Adds(f, SUBSET s, Adder(f, s))}
  <1>1. ASSUME NEW s \in SUBSET S, \A u \in SUBSET s : u # s => u \in Good PROVE s \in Good
    <2> DEFINE k == [u \in SUBSET s |-> IF u = {} THEN 0
                                        ELSE f[One(u)] + SumFunctionOnSet(f, Rest(u))]
    <2>1. ASSUME NEW u \in SUBSET s, u # s PROVE k[u] = SumFunctionOnSet(f, u)
      <3>1. IsFiniteSet(u) BY FS_Subset
      <3>2. \A r \in {u, Rest(u)} : r \in SUBSET u => Adds(f, SUBSET r, Adder(f, r)) BY <1>1, <2>1
      <3>3. QED BY <3>1, <3>2, AddsGive
    <2>2. \A u \in SUBSET s : k[u] = IF u = {} THEN 0 ELSE f[One(u)] + k[Rest(u)]
      <3>1. \A u \in SUBSET s : u # {} => Rest(u) \in SUBSET s /\ Rest(u) # s BY RestOf
      <3>2. QED BY <2>1, <3>1
    <2>3. k = [u \in SUBSET s |-> k[u]] OBVIOUS
    <2> HIDE DEF k
    <2>4. Adds(f, SUBSET s, k) BY <2>2, <2>3 DEF Adds
    <2>5. QED BY <2>4 DEF Adder
  <1>2. \A s \in SUBSET S : s \in Good
    <2> HIDE DEF Good
    <2>1. QED BY <1>1, SubsetInduction
  <1>3. S # {} => Rest(S) \in SUBSET S BY RestOf
  <1>4. QED BY <1>2, AddsGive

\* A sum is of the kind its terms are.
LEMMA SumWithin ==
  ASSUME NEW f, NEW S, IsFiniteSet(S), NEW T \in {Int, Nat, {0}}, \A x \in S : f[x] \in T
  PROVE  SumFunctionOnSet(f, S) \in T
  <1> DEFINE Good == {s \in SUBSET S : SumFunctionOnSet(f, s) \in T}
  <1>1. ASSUME NEW s \in SUBSET S, \A u \in SUBSET s : u # s => u \in Good PROVE s \in Good
    <2>1. IsFiniteSet(s) BY FS_Subset
    <2>2. s # {} => SumFunctionOnSet(f, Rest(s)) \in T /\ f[One(s)] \in T BY <1>1, RestOf
    <2>3. QED BY <2>1, <2>2, SumOf
  <1> HIDE DEF Good
  <1>2. S \in Good BY <1>1, SubsetInduction
  <1>3. QED BY <1>2 DEF Good

\* Any element can be taken out.
LEMMA SumTakes ==
  ASSUME NEW f, NEW S, IsFiniteSet(S), \A x \in S : f[x] \in Int
  PROVE  \A x \in S : SumFunctionOnSet(f, S) = f[x] + SumFunctionOnSet(f, S \ {x})
  <1> DEFINE Sub(s) == SumFunctionOnSet(f, s)
             Good == {s \in SUBSET S : \A x \in s : Sub(s) = f[x] + Sub(s \ {x})}
  <1>1. \A s \in SUBSET S : Sub(s) \in Int BY FS_Subset, SumWithin
  <1>2. \A s \in SUBSET S : s # {} => Sub(s) = f[One(s)] + Sub(s \ {One(s)}) BY FS_Subset, SumOf DEF Rest
  <1> HIDE DEF Sub
  <1>3. ASSUME NEW s \in SUBSET S, \A u \in SUBSET s : u # s => u \in Good PROVE s \in Good
    <2>1. SUFFICES ASSUME NEW x \in s PROVE Sub(s) = f[x] + Sub(s \ {x}) OBVIOUS
    <2> DEFINE c == One(s)
               r == s \ {x, c}
    <2>2. c \in s /\ Sub(s) = f[c] + Sub(s \ {c}) BY <1>2, RestOf
    <2> HIDE DEF c
    <2>3. ASSUME c # x PROVE Sub(s \ {c}) = f[x] + Sub(r) /\ Sub(s \ {x}) = f[c] + Sub(r)
      <3>1. /\ (s \ {c}) \ {x} = r /\ s \ {c} \in SUBSET s /\ s \ {c} # s /\ x \in s \ {c}
            /\ (s \ {x}) \ {c} = r /\ s \ {x} \in SUBSET s /\ s \ {x} # s /\ c \in s \ {x} BY <2>2, <2>3
      <3>2. QED BY <1>3, <3>1
    <2>4. f[c] \in Int /\ f[x] \in Int /\ Sub(r) \in Int BY <1>1, <2>2
    <2>5. QED BY <2>2, <2>3, <2>4
  <1> HIDE DEF Good
  <1>4. S \in Good BY <1>3, SubsetInduction
  <1>5. QED BY <1>4 DEF Good, Sub

\* A sum goes by the values at the elements only.
LEMMA SameSum ==
  ASSUME NEW S, IsFiniteSet(S), NEW f, NEW h, \A x \in S : f[x] = h[x]
  PROVE  SumFunctionOnSet(f, S) = SumFunctionOnSet(h, S)
  <1> DEFINE Good == {s \in SUBSET S : SumFunctionOnSet(f, s) = SumFunctionOnSet(h, s)}
  <1>1. ASSUME NEW s \in SUBSET S, \A u \in SUBSET s : u # s => u \in Good PROVE s \in Good
    <2>1. IsFiniteSet(s) BY FS_Subset
    <2>2. s # {} => /\ SumFunctionOnSet(f, Rest(s)) = SumFunctionOnSet(h, Rest(s))
                    /\ f[One(s)] = h[One(s)] BY <1>1, RestOf
    <2>3. QED BY <2>1, <2>2, SumOf
  <1> HIDE DEF Good
  <1>2. S \in Good BY <1>1, SubsetInduction
  <1>3. QED BY <1>2 DEF Good

\* A change at one element changes the sum by as much.
LEMMA SumAfterChange ==
  ASSUME NEW S, IsFiniteSet(S), NEW x \in S, NEW f, NEW h,
         \A y \in S : f[y] \in Int /\ h[y] \in Int,
         \A y \in S \ {x} : f[y] = h[y]
  PROVE  SumFunctionOnSet(h, S) = SumFunctionOnSet(f, S) + (h[x] - f[x])
  <1> DEFINE r == SumFunctionOnSet(f, S \ {x})
  <1>1. r = SumFunctionOnSet(h, S \ {x}) /\ r \in Int BY FS_Subset, SameSum, SumWithin
  <1>2. SumFunctionOnSet(f, S) = f[x] + r /\ SumFunctionOnSet(h, S) = h[x] + r BY <1>1, SumTakes
  <1> HIDE DEF r
  <1>3. QED BY <1>1, <1>2

------------
(* Sequences *)

LEMMA ElementsOf ==
  ASSUME NEW S, NEW s \in Seq(S)
  PROVE  /\ Len(s) \in Nat /\ DOMAIN s = 1..Len(s)
         /\ \A i \in 1..Len(s) : s[i] \in S OBVIOUS

LEMMA Appended ==
  ASSUME NEW S, NEW s \in Seq(S), NEW x \in S
  PROVE  /\ Append(s, x) \in Seq(S) /\ Len(Append(s, x)) = Len(s) + 1
         /\ \A i \in 1..Len(s) : Append(s, x)[i] = s[i]
         /\ Append(s, x)[Len(s) + 1] = x OBVIOUS

LEMMA Replaced ==
  ASSUME NEW S, NEW s \in Seq(S), NEW i \in 1..Len(s), NEW x \in S
  PROVE  /\ [s EXCEPT ![i] = x] \in Seq(S) /\ Len([s EXCEPT ![i] = x]) = Len(s)
         /\ [s EXCEPT ![i] = x][i] = x
         /\ \A j \in 1..Len(s) : j # i => [s EXCEPT ![i] = x][j] = s[j] OBVIOUS

\* Numbers with a bound have a largest one.
LEMMA Largest ==
  ASSUME NEW b \in Nat, NEW A \in SUBSET (0..b), A # {} PROVE \E t \in A : \A a \in A : a <= t
  <1> DEFINE S == 0..b
             Good == {s \in SUBSET S : s = {} \/ \E t \in s : \A a \in s : a <= t}
  <1>1. ASSUME NEW s \in SUBSET S, \A u \in SUBSET s : u # s => u \in Good PROVE s \in Good
    <2>1. SUFFICES ASSUME s # {} PROVE \E t \in s : \A a \in s : a <= t OBVIOUS
    <2>2. One(s) \in s /\ Rest(s) \in Good /\ Rest(s) = s \ {One(s)} BY <1>1, <2>1, RestOf DEF Rest
    <2>3. CASE Rest(s) = {}
      <3>1. s = {One(s)} /\ One(s) \in 0..b BY <2>2, <2>3
      <3>2. QED BY <3>1
    <2>4. QED BY <2>2, <2>3
  <1>2. IsFiniteSet(S) /\ A \in SUBSET S BY FS_Interval
  <1> HIDE DEF Good, S
  <1>3. \A s \in SUBSET S : s \in Good BY <1>1, <1>2, SubsetInduction
  <1>4. QED BY <1>2, <1>3 DEF Good

------------
(* Projects *)

\* A step of the services in a project is one of Project.
LEMMA ProjectStep ==
  ASSUME area = "project", [Next]_vars PROVE area' = "project" /\ (Plan!Next \/ UNCHANGED Project)
  BY DEF Next, vars, Project, projects

LEMMA ProjectTypes ==
  ASSUME ProjectTyped, Plan!Next PROVE ProjectTyped'
  <1> USE DEF ProjectTyped, Plan!Exists, Plan!There, Plan!rows
  <1> DEFINE Ops == {"status", "accepted", "sync", "create", "link", "rebind", "complete", "drop",
                     "delete"}
             Ons == Milestones \cup {"new", "phase"}
             Tos == Plan!Phases \cup Plan!ProjectStatus \cup {"none"}
  <1>a. ASSUME NEW h \in run
        PROVE  /\ h.on \in Ons /\ h.tasks \in SUBSET Tasks /\ h.to \in Tos /\ h.op \in Ops
               /\ \A op \in Ops, on \in Ons, to \in Tos :
                    [h EXCEPT !.op = op, !.on = on] \in Plan!Call
                      /\ [h EXCEPT !.op = op, !.to = to] \in Plan!Call BY DEF Plan!Call
  <1>b. ASSUME NEW op \in Ops, NEW on \in Ons, NEW tasks \in SUBSET Tasks, NEW to \in Tos
        PROVE  [n |-> calls, op |-> op, on |-> on, tasks |-> tasks, to |-> to] \in Plan!Call BY DEF Plan!Call
  <1>c. ASSUME NEW op \in Ops, NEW on \in Ons, NEW tasks \in SUBSET Tasks, NEW to \in Tos,
               Plan!Begin(op, on, tasks, to), UNCHANGED Plan!rows,
               op \in {"status", "sync"} => to # "none"
        PROVE  ProjectTyped'
    <2> DEFINE new == [n |-> calls, op |-> op, on |-> on, tasks |-> tasks, to |-> to]
    <2>1. new \in Plan!Call /\ (new.op \in {"status", "sync"} => new.to # "none") BY <1>b, <1>c
    <2>2. run' = run \cup {new} /\ calls' = calls + 1 BY <1>c DEF Plan!Begin
    <2> HIDE DEF new
    <2>3. QED BY <1>c, <2>1, <2>2
  <1>1. ASSUME NEW to \in Plan!Phases \cup (Plan!ProjectStatus \ {"gone"}),
               Plan!StatusRead(to)
        PROVE  ProjectTyped'
    <2>1. to # "none" BY DEF Plan!Phases, Plan!ProjectStatus
    <2>2. QED BY <1>1, <2>1, <1>c DEF Plan!StatusRead
  <1>2. ASSUME NEW t \in Tasks, Plan!Accept(t) PROVE ProjectTyped'
    <2>1. [task[t] EXCEPT !.status = "in_progress"] \in Plan!Task BY DEF Plan!Task, Plan!TaskStatus
    <2> DEFINE new == [n |-> calls, op |-> "accepted", on |-> "phase", tasks |-> {}, to |-> "none"]
    <2>2. new \in Plan!Call /\ new.op = "accepted" BY <1>b
    <2>3. task' = [task EXCEPT ![t] = [task[t] EXCEPT !.status = "in_progress"]] BY <1>2 DEF Plan!Accept
    <2>4. \/ run' = run \cup {new} /\ calls' = calls + 1
          \/ UNCHANGED <<run, calls>> BY <1>2 DEF Plan!Accept
    <2> HIDE DEF new
    <2>5. QED BY <1>2, <2>1, <2>2, <2>3, <2>4 DEF Plan!Accept
  <1>3. ASSUME NEW t \in Tasks, Plan!TaskGoesOn(t) PROVE ProjectTyped'
    BY <1>3 DEF Plan!TaskGoesOn, Plan!Task, Plan!TaskStatus
  <1>4. ASSUME NEW t \in Tasks, NEW m \in Milestones \cup {None}, Plan!SaveDraft(t, m) PROVE ProjectTyped'
    BY <1>4 DEF Plan!SaveDraft, Plan!Task
  <1>5. ASSUME NEW t \in Tasks, NEW in \in BOOLEAN, NEW m \in Milestones \cup {None},
               Plan!CreateTask(t, in, m)
        PROVE  ProjectTyped' BY <1>5 DEF Plan!CreateTask, Plan!Task, Plan!TaskStatus
  <1>6. ASSUME NEW tasks \in SUBSET Tasks, Plan!CreateRead(tasks) PROVE ProjectTyped'
    BY <1>6, <1>c DEF Plan!CreateRead
  <1>7. ASSUME NEW tasks \in SUBSET Tasks, NEW m \in Milestones, Plan!RebindRead(m, tasks) PROVE ProjectTyped'
    BY <1>7, <1>c DEF Plan!RebindRead
  <1>8. ASSUME NEW m \in Milestones, Plan!CompleteRead(m) \/ Plan!DropRead(m) PROVE ProjectTyped'
    BY <1>8, <1>c DEF Plan!CompleteRead, Plan!DropRead
  <1>9. ASSUME NEW m \in Milestones, Plan!Pass(m) PROVE ProjectTyped' BY <1>9 DEF Plan!Pass
  <1>10. ASSUME NEW m \in Milestones, Plan!JobMark(m) PROVE ProjectTyped' BY <1>10 DEF Plan!JobMark
  <1>11. ASSUME NEW h \in run, Plan!SyncRead(h) PROVE ProjectTyped'
    <2>1. Plan!Target \in Plan!Phases BY DEF Plan!Target, Plan!Phases
    <2> DEFINE new == [h EXCEPT !.op = "sync", !.to = Plan!Target]
    <2>2. new \in Plan!Call BY <1>a, <2>1
    <2>3. new.to # "none" BY <2>1 DEF Plan!Call, Plan!Phases
    <2>4. run' \subseteq run \cup {new} BY <1>11 DEF Plan!SyncRead
    <2> HIDE DEF new
    <2>5. QED BY <1>11, <2>2, <2>3, <2>4 DEF Plan!SyncRead
  <1>12. ASSUME NEW h \in run, Plan!SetWrite(h) PROVE ProjectTyped'
    <2>1. h.to \in Plan!Phases \cup Plan!ProjectStatus BY <1>12, <1>a DEF Plan!SetWrite
    <2>2. project' \in [status: Plan!ProjectStatus, phase: Plan!Phases] BY <1>12, <2>1 DEF Plan!SetWrite
    <2>3. QED BY <1>12, <2>2 DEF Plan!SetWrite
  <1>13. ASSUME NEW h \in run, Plan!LinkWrite(h) PROVE ProjectTyped' BY <1>13, <1>a DEF Plan!LinkWrite, Plan!Task
  <1>14. ASSUME NEW h \in run, Plan!RebindWrite(h) PROVE ProjectTyped'
    BY <1>14, <1>a DEF Plan!RebindWrite, Plan!Tie, Plan!Task
  <1>15. ASSUME NEW h \in run, Plan!CompleteWrite(h) PROVE ProjectTyped' BY <1>15 DEF Plan!CompleteWrite
  <1>16. ASSUME NEW h \in run, Plan!DropWrite(h) PROVE ProjectTyped'
    <2>1. task' \in [Tasks -> Plan!Task] BY <1>16 DEF Plan!DropWrite, Plan!Tie, Plan!Task
    <2>2. milestone' \in [Milestones -> {"none", "pending", "completed", "overdue"}] BY <1>16 DEF Plan!DropWrite
    <2>3. QED BY <1>16, <2>1, <2>2 DEF Plan!DropWrite
  <1>17. ASSUME NEW h \in run, Plan!DeleteWrite(h) PROVE ProjectTyped'
    <2>1. task' \in [Tasks -> Plan!Task]
      <3>1. \A t \in Tasks : [task[t] EXCEPT !.in = FALSE, !.of = None] \in Plan!Task BY DEF Plan!Task
      <3>2. QED BY <1>17, <3>1 DEF Plan!DeleteWrite
    <2>2. milestone' \in [Milestones -> {"none", "pending", "completed", "overdue"}] BY <1>17 DEF Plan!DeleteWrite
    <2>3. project' \in [status: Plan!ProjectStatus, phase: Plan!Phases]
      BY <1>17 DEF Plan!DeleteWrite, Plan!ProjectStatus
    <2>4. QED BY <1>17, <2>1, <2>2, <2>3 DEF Plan!DeleteWrite
  <1>18. ASSUME NEW h \in run, NEW m \in Milestones, Plan!CreateWrite(h, m) PROVE ProjectTyped'
    <2> DEFINE new == [h EXCEPT !.op = "link", !.on = m]
    <2>1. new \in Plan!Call BY <1>a
    <2>2. new.op = "link" BY DEF Plan!Call
    <2>3. run' \subseteq run \cup {new} BY <1>18 DEF Plan!CreateWrite, Plan!Unused, Plan!There
    <2> HIDE DEF new
    <2>4. QED BY <1>18, <2>1, <2>2, <2>3 DEF Plan!CreateWrite, Plan!Unused, Plan!There
  <1>19. ASSUME Plan!DeleteRead PROVE ProjectTyped' BY <1>19, <1>c DEF Plan!DeleteRead
  <1>20. ASSUME Plan!JobRead PROVE ProjectTyped' BY <1>20 DEF Plan!JobRead
  <1>21. QED
    BY <1>1, <1>2, <1>3, <1>4, <1>5, <1>6, <1>7, <1>8, <1>9, <1>10, <1>11, <1>12, <1>13, <1>14, <1>15, <1>16, <1>17,
       <1>18, <1>19, <1>20 DEF Plan!Next

\* Calls that end, or go on with what they are about, leave a milestone calm.
LEMMA CalmWhenCallsEnd ==
  ASSUME NEW m, MilestoneCalm(m), run' \subseteq run,
         UNCHANGED <<project, milestone, job, done>>
  PROVE  MilestoneCalm(m)' BY DEF MilestoneCalm

LEMMA CalmAfterBegin ==
  ASSUME ProjectTyped, NEW m \in Milestones, MilestoneCalm(m),
         NEW op, NEW on, NEW tasks, NEW to, Plan!Begin(op, on, tasks, to),
         UNCHANGED Plan!rows, m \notin raced',
         on = m => milestone[m] # "none" /\ (op = "drop" => milestone[m] = "pending")
  PROVE  MilestoneCalm(m)' /\ m \notin raced
  <1> DEFINE new == [n |-> calls, op |-> op, on |-> on, tasks |-> tasks, to |-> to]
  <1>1. run' = run \cup {new} /\ project.status # "gone" BY DEF Plan!Begin, Plan!Exists
  <1>2. /\ new.on = on /\ new.op = op
        /\ UNCHANGED <<project, milestone, job, done>> BY DEF Plan!rows
  <1>3. m \notin raced /\ (on = m => m \notin job /\ \A h \in run : h.on # m) BY DEF Plan!Begin
  <1>4. on = m /\ op = "drop" => m \notin done BY <1>1 DEF MilestoneCalm
  <1> HIDE DEF new
  <1>5. QED BY <1>1, <1>2, <1>3, <1>4 DEF MilestoneCalm

LEMMA CalmPreserved ==
  ASSUME ProjectTyped, \A m \in Milestones \ raced : MilestoneCalm(m), Plan!Next
  PROVE  \A m \in Milestones \ raced' : MilestoneCalm(m)'
  <1> SUFFICES ASSUME NEW m \in Milestones, m \notin raced' PROVE MilestoneCalm(m)' OBVIOUS
  <1>a. m # "new" /\ m # "phase" BY NamesAssumption
  <1>b. ASSUME raced \subseteq raced' PROVE MilestoneCalm(m) BY <1>b
  <1>c. ASSUME raced \subseteq raced', run' \subseteq run, UNCHANGED <<project, milestone, job, done>>
        PROVE  MilestoneCalm(m)' BY <1>b, <1>c, CalmWhenCallsEnd
  <1>d. ASSUME NEW op, NEW on, NEW tasks, NEW to, Plan!Begin(op, on, tasks, to),
               UNCHANGED Plan!rows,
               on = m => milestone[m] # "none" /\ (op = "drop" => milestone[m] = "pending")
        PROVE  MilestoneCalm(m)'
    <2>1. raced \subseteq raced' BY <1>d DEF Plan!Begin
    <2>2. QED BY <1>b, <1>d, <2>1, CalmAfterBegin
  <1>1. ASSUME NEW to, Plan!StatusRead(to) PROVE MilestoneCalm(m)' BY <1>1, <1>a, <1>d DEF Plan!StatusRead
  <1>2. ASSUME NEW t \in Tasks, Plan!Accept(t) PROVE MilestoneCalm(m)'
    <2>1. MilestoneCalm(m) /\ UNCHANGED <<project, milestone, job, done>> BY <1>2, <1>b DEF Plan!Accept
    <2>2. run' \subseteq run \cup {[n |-> calls, op |-> "accepted", on |-> "phase",
                                     tasks |-> {}, to |-> "none"]} BY <1>2 DEF Plan!Accept
    <2>3. QED BY <1>a, <2>1, <2>2 DEF MilestoneCalm
  <1>3. ASSUME NEW t \in Tasks, NEW in, NEW x,
               Plan!TaskGoesOn(t) \/ Plan!SaveDraft(t, x) \/ Plan!CreateTask(t, in, x)
        PROVE  MilestoneCalm(m)' BY <1>3, <1>c DEF Plan!TaskGoesOn, Plan!SaveDraft, Plan!CreateTask
  <1>4. ASSUME NEW tasks, Plan!CreateRead(tasks) PROVE MilestoneCalm(m)' BY <1>4, <1>a, <1>d DEF Plan!CreateRead
  <1>5. ASSUME NEW tasks, NEW x \in Milestones, Plan!RebindRead(x, tasks) PROVE MilestoneCalm(m)'
    BY <1>5, <1>d DEF Plan!RebindRead, Plan!There
  <1>6. ASSUME NEW x \in Milestones, Plan!CompleteRead(x) PROVE MilestoneCalm(m)'
    BY <1>6, <1>d DEF Plan!CompleteRead, Plan!There
  <1>7. ASSUME NEW x \in Milestones, Plan!DropRead(x) PROVE MilestoneCalm(m)' BY <1>7, <1>d DEF Plan!DropRead
  <1>8. ASSUME NEW x \in Milestones, Plan!Pass(x) PROVE MilestoneCalm(m)' BY <1>8, <1>c DEF Plan!Pass
  <1>9. ASSUME NEW x \in Milestones, Plan!JobMark(x) PROVE MilestoneCalm(m)'
    <2>1. MilestoneCalm(m) /\ UNCHANGED <<project, run, done>> BY <1>9, <1>b DEF Plan!JobMark
    <2>2. job' \subseteq job BY <1>9 DEF Plan!JobMark
    <2>3. milestone'[m] = milestone[m] \/ (m \in job /\ milestone'[m] # "none") BY <1>9 DEF Plan!JobMark, ProjectTyped
    <2>4. QED BY <2>1, <2>2, <2>3 DEF MilestoneCalm
  <1>10. ASSUME NEW h \in run, Plan!SyncRead(h) PROVE MilestoneCalm(m)'
    <2>1. MilestoneCalm(m) /\ UNCHANGED <<project, milestone, job, done>> BY <1>10, <1>b DEF Plan!SyncRead, Plan!rows
    <2> DEFINE new == [h EXCEPT !.op = "sync", !.to = Plan!Target]
    <2>2. new.on = h.on /\ new.op = "sync" BY DEF ProjectTyped, Plan!Call
    <2>3. run' \subseteq (run \ {h}) \cup {new} BY <1>10 DEF Plan!SyncRead
    <2> HIDE DEF new
    <2>4. QED BY <2>1, <2>2, <2>3 DEF MilestoneCalm
  <1>11. ASSUME NEW h \in run, Plan!SetWrite(h) PROVE MilestoneCalm(m)'
    <2>1. MilestoneCalm(m) /\ UNCHANGED <<milestone, job, done>> /\ run' \subseteq run
      BY <1>11, <1>b DEF Plan!SetWrite
    <2>2. project'.status # "gone" => project.status # "gone" BY <1>11 DEF Plan!SetWrite, Plan!Exists
    <2>3. QED BY <2>1, <2>2 DEF MilestoneCalm
  <1>12. ASSUME NEW h \in run, Plan!LinkWrite(h) \/ Plan!RebindWrite(h) PROVE MilestoneCalm(m)'
    BY <1>12, <1>c DEF Plan!LinkWrite, Plan!RebindWrite
  <1>13. ASSUME NEW h \in run, Plan!CompleteWrite(h) PROVE MilestoneCalm(m)'
    <2>1. MilestoneCalm(m) /\ UNCHANGED <<project, job>> /\ run' = run \ {h} BY <1>13, <1>b DEF Plan!CompleteWrite
    <2>2. CASE h.on = m /\ h.on \in Plan!There
      <3>1. milestone'[m] = "completed" /\ m \notin job
        BY <1>13, <2>1, <2>2 DEF Plan!CompleteWrite, ProjectTyped, MilestoneCalm
      <3>2. \A g \in run' : g.on # m BY <2>1, <2>2 DEF MilestoneCalm
      <3>3. QED BY <2>1, <3>1, <3>2 DEF MilestoneCalm
    <2>3. CASE ~(h.on = m /\ h.on \in Plan!There)
      <3>1. milestone'[m] = milestone[m] /\ (m \in done' <=> m \in done)
        BY <1>13, <2>3 DEF Plan!CompleteWrite, ProjectTyped
      <3>2. QED BY <2>1, <3>1 DEF MilestoneCalm
    <2>4. QED BY <2>2, <2>3
  <1>14. ASSUME NEW h \in run, Plan!DropWrite(h) PROVE MilestoneCalm(m)'
    <2>1. MilestoneCalm(m) /\ UNCHANGED <<project, job, done>> /\ run' = run \ {h} /\ h.op = "drop"
      BY <1>14, <1>b DEF Plan!DropWrite
    <2>2. CASE h.on = m
      <3>1. m \notin done /\ \A g \in run' : g.on # m BY <2>1, <2>2 DEF MilestoneCalm
      <3>2. QED BY <2>1, <3>1 DEF MilestoneCalm
    <2>3. CASE h.on # m
      <3>1. milestone'[m] = milestone[m] BY <1>14, <2>3 DEF Plan!DropWrite, ProjectTyped
      <3>2. QED BY <2>1, <3>1 DEF MilestoneCalm
    <2>4. QED BY <2>2, <2>3
  <1>15. ASSUME NEW h \in run, Plan!DeleteWrite(h) PROVE MilestoneCalm(m)'
    <2>1. MilestoneCalm(m) /\ UNCHANGED <<job, done>> /\ run' \subseteq run BY <1>15, <1>b DEF Plan!DeleteWrite
    <2>2. project'.status = "gone" \/ UNCHANGED <<project, milestone>> BY <1>15 DEF Plan!DeleteWrite, ProjectTyped
    <2>3. QED BY <2>1, <2>2 DEF MilestoneCalm
  <1>16. ASSUME NEW h \in run, NEW x \in Milestones, Plan!CreateWrite(h, x) PROVE MilestoneCalm(m)'
    <2>1. MilestoneCalm(m) /\ UNCHANGED <<project, job, done>>
      BY <1>16, <1>b DEF Plan!CreateWrite, Plan!Unused, Plan!There
    <2> DEFINE new == [h EXCEPT !.op = "link", !.on = x]
    <2>2. new.on = x /\ new.op = "link" BY DEF ProjectTyped, Plan!Call
    <2>3. CASE project.status = "gone" BY <1>16, <1>c, <2>3 DEF Plan!CreateWrite, Plan!Unused, Plan!There, Plan!Exists
    <2>4. CASE project.status # "gone" /\ x = m
      <3>1. /\ milestone'[m] = "pending" /\ m \notin done /\ m \notin job
            /\ \A g \in run : g.on # m
        BY <1>16, <2>1, <2>4 DEF Plan!CreateWrite, Plan!Unused, Plan!There, Plan!Exists, ProjectTyped, MilestoneCalm
      <3>2. run' \subseteq (run \ {h}) \cup {new} BY <1>16 DEF Plan!CreateWrite, Plan!Unused, Plan!There
      <3> HIDE DEF new
      <3>3. QED BY <2>1, <2>2, <3>1, <3>2 DEF MilestoneCalm
    <2>5. CASE project.status # "gone" /\ x # m
      <3>1. milestone'[m] = milestone[m] BY <1>16, <2>5 DEF Plan!CreateWrite, Plan!Unused, Plan!There, ProjectTyped
      <3>2. run' \subseteq (run \ {h}) \cup {new} BY <1>16 DEF Plan!CreateWrite, Plan!Unused, Plan!There
      <3> HIDE DEF new
      <3>3. QED BY <2>1, <2>2, <2>5, <3>1, <3>2 DEF MilestoneCalm
    <2>6. QED BY <2>3, <2>4, <2>5
  <1>17. ASSUME Plan!DeleteRead PROVE MilestoneCalm(m)' BY <1>17, <1>a, <1>d DEF Plan!DeleteRead
  <1>18. ASSUME Plan!JobRead PROVE MilestoneCalm(m)'
    <2>1. MilestoneCalm(m) /\ UNCHANGED <<project, milestone, run, done>> BY <1>18, <1>b DEF Plan!JobRead
    <2>2. m \in job' => milestone[m] = "pending" /\ \A h \in run : h.on # m BY <1>18 DEF Plan!JobRead
    <2>3. QED BY <2>1, <2>2 DEF MilestoneCalm
  <1>19. QED
    BY <1>1, <1>2, <1>3, <1>4, <1>5, <1>6, <1>7, <1>8, <1>9, <1>10, <1>11, <1>12, <1>13, <1>14, <1>15, <1>16, <1>17,
       <1>18 DEF Plan!Next

\* A tie to a milestone that is there, in the project, stays one until the milestone is
\* deleted with its ties, or the project with its own.
LEMMA TiedPreserved ==
  ASSUME ProjectTyped, Plan!TiedInProjectUnlessDrafted, Plan!Next PROVE Plan!TiedInProjectUnlessDrafted'
  <1> SUFFICES ASSUME NEW t \in Tasks, t \notin loose', task'[t].of # None
               PROVE  task'[t].of \in Plan!There' /\ task'[t].in BY DEF Plan!TiedInProjectUnlessDrafted
  <1> DEFINE Tied == task[t].of # None => task[t].of \in Plan!There /\ task[t].in
  <1>a. task[t] \in Plan!Task BY DEF ProjectTyped
  <1>b. ASSUME loose \subseteq loose' PROVE Tied BY <1>b DEF Plan!TiedInProjectUnlessDrafted
  <1>c. ASSUME loose \subseteq loose', task'[t].of = task[t].of, task'[t].in = task[t].in,
               Plan!There \subseteq Plan!There'
        PROVE  Tied' BY <1>b, <1>c
  <1>d. ASSUME UNCHANGED <<milestone, task, loose>> PROVE Tied' BY <1>c, <1>d DEF Plan!There
  <1>1. ASSUME NEW x, NEW y, \/ Plan!StatusRead(x) \/ Plan!CreateRead(x)
                             \/ Plan!RebindRead(y, x) \/ Plan!CompleteRead(x)
                             \/ Plan!DropRead(x) \/ Plan!Pass(x)
                             \/ Plan!DeleteRead \/ Plan!JobRead
                             \/ Plan!SyncRead(x) \/ Plan!SetWrite(x)
        PROVE  Tied'
    BY <1>1, <1>d DEF Plan!StatusRead, Plan!CreateRead, Plan!RebindRead, Plan!CompleteRead, Plan!DropRead, Plan!Pass,
       Plan!DeleteRead, Plan!JobRead, Plan!SyncRead, Plan!SetWrite, Plan!rows
  <1>2. ASSUME NEW x \in Tasks, Plan!Accept(x) \/ Plan!TaskGoesOn(x) PROVE Tied'
    <2>1. task'[t].of = task[t].of /\ task'[t].in = task[t].in
      BY <1>2, <1>a DEF Plan!Accept, Plan!TaskGoesOn, ProjectTyped, Plan!Task
    <2>2. UNCHANGED <<milestone, loose>> BY <1>2 DEF Plan!Accept, Plan!TaskGoesOn
    <2>3. QED BY <1>c, <2>1, <2>2 DEF Plan!There
  <1>3. ASSUME NEW x \in Tasks, NEW m, Plan!SaveDraft(x, m) PROVE Tied'
    <2>1. t # x \/ m = None BY <1>3 DEF Plan!SaveDraft
    <2>2. t # x BY <1>3, <1>a, <2>1 DEF Plan!SaveDraft, ProjectTyped, Plan!Task
    <2>3. loose \subseteq loose' /\ task'[t] = task[t] /\ milestone' = milestone
      BY <1>3, <2>2 DEF Plan!SaveDraft, ProjectTyped
    <2>4. QED BY <1>c, <2>3 DEF Plan!There
  <1>4. ASSUME NEW x \in Tasks, NEW in, NEW m, Plan!CreateTask(x, in, m) PROVE Tied'
    <2>1. t # x \/ m = None BY <1>4 DEF Plan!CreateTask
    <2>2. t # x BY <1>4, <2>1 DEF Plan!CreateTask, ProjectTyped
    <2>3. loose \subseteq loose' /\ task'[t] = task[t] /\ milestone' = milestone
      BY <1>4, <2>2 DEF Plan!CreateTask, ProjectTyped
    <2>4. QED BY <1>c, <2>3 DEF Plan!There
  <1>5. ASSUME NEW m \in Milestones, Plan!JobMark(m) PROVE Tied'
    <2>1. Plan!There' = Plan!There BY <1>5 DEF Plan!JobMark, Plan!There, ProjectTyped
    <2>2. QED BY <1>5, <1>c, <2>1 DEF Plan!JobMark
  <1>6. ASSUME NEW h \in run, Plan!LinkWrite(h) PROVE Tied'
    <2>1. Tied /\ Plan!There' = Plan!There BY <1>6, <1>b DEF Plan!LinkWrite, Plan!There
    <2>2. QED BY <1>6, <1>a, <2>1 DEF Plan!LinkWrite, Plan!Task
  <1>7. ASSUME NEW h \in run, Plan!RebindWrite(h) PROVE Tied'
    <2>1. Tied /\ Plan!There' = Plan!There BY <1>7, <1>b DEF Plan!RebindWrite, Plan!There
    <2>2. QED BY <1>7, <1>a, <2>1 DEF Plan!RebindWrite, Plan!Tie, Plan!Task
  <1>8. ASSUME NEW h \in run, Plan!CompleteWrite(h) PROVE Tied'
    <2>1. Plan!There \subseteq Plan!There' BY <1>8 DEF Plan!CompleteWrite, Plan!There, ProjectTyped
    <2>2. QED BY <1>8, <1>c, <2>1 DEF Plan!CompleteWrite
  <1>9. ASSUME NEW h \in run, Plan!DropWrite(h) PROVE Tied'
    <2>1. Tied /\ Plan!There \ {h.on} \subseteq Plan!There' BY <1>9, <1>b DEF Plan!DropWrite, Plan!There, ProjectTyped
    <2>2. CASE h.on \in Plan!There
      <3>1. task[t].of # h.on /\ task'[t] = task[t] BY <1>9, <1>a, <2>2 DEF Plan!DropWrite, Plan!Tie, Plan!Task
      <3>2. QED BY <2>1, <3>1
    <2>3. CASE h.on \notin Plan!There BY <1>9, <2>1, <2>3 DEF Plan!DropWrite
    <2>4. QED BY <2>2, <2>3
  <1>10. ASSUME NEW h \in run, Plan!DeleteWrite(h) PROVE Tied'
    <2>1. CASE UNCHANGED <<project, milestone, task>> BY <1>10, <1>d, <2>1 DEF Plan!DeleteWrite
    <2>2. CASE task' = [x \in Tasks |-> [task[x] EXCEPT !.in = FALSE, !.of = None]]
      <3>1. task'[t].of = None BY <1>a, <2>2 DEF Plan!Task
      <3>2. QED BY <3>1
    <2>3. QED BY <1>10, <2>1, <2>2 DEF Plan!DeleteWrite
  <1>11. ASSUME NEW h \in run, NEW m \in Milestones, Plan!CreateWrite(h, m) PROVE Tied'
    <2>1. Plan!There \subseteq Plan!There' BY <1>11 DEF Plan!CreateWrite, Plan!Unused, Plan!There, ProjectTyped
    <2>2. QED BY <1>11, <1>c, <2>1 DEF Plan!CreateWrite, Plan!Unused, Plan!There
  <1>12. QED BY <1>1, <1>2, <1>3, <1>4, <1>5, <1>6, <1>7, <1>8, <1>9, <1>10, <1>11 DEF Plan!Next

LEMMA MilestoneInvariant == Spec => [](area = "project" => MilestoneInv)
  <1>1. Init => (area = "project" => MilestoneInv)
    <2> SUFFICES ASSUME Init PROVE MilestoneInv OBVIOUS
    <2> USE DEF Init, Plan!Init
    <2>1. ProjectTyped BY DEF ProjectTyped, Plan!Task, Plan!TaskStatus, Plan!ProjectStatus, Plan!Phases
    <2>2. \A m \in Milestones : MilestoneCalm(m) BY DEF MilestoneCalm
    <2>3. Plan!TiedInProjectUnlessDrafted BY DEF Plan!TiedInProjectUnlessDrafted
    <2>4. QED BY <2>1, <2>2, <2>3 DEF MilestoneInv
  <1>2. (area = "project" => MilestoneInv) /\ [Next]_vars
          => (area = "project" => MilestoneInv)'
    <2> SUFFICES ASSUME area = "project", MilestoneInv, [Next]_vars PROVE MilestoneInv' BY DEF Next, vars
    <2>1. CASE Plan!Next BY <2>1, ProjectTypes, CalmPreserved, TiedPreserved DEF MilestoneInv
    <2>2. CASE UNCHANGED Project
      BY <2>2 DEF Project, MilestoneInv, ProjectTyped, MilestoneCalm, Plan!TiedInProjectUnlessDrafted, Plan!There
    <2>3. QED BY <2>1, <2>2, ProjectStep
  <1>3. QED BY <1>1, <1>2, PTL DEF Spec

\* What is tied to a milestone is in the project, and a completed milestone stays so.
THEOREM MilestonesKept == Spec => []MilestonesHold
  <1>1. MilestoneInv => Plan!CompletedStaysUnlessRaced
    BY DEF MilestoneInv, MilestoneCalm, ProjectTyped, Plan!CompletedStaysUnlessRaced, Plan!Exists
  <1>2. (area = "project" => MilestoneInv) => MilestonesHold BY <1>1 DEF MilestoneInv, MilestonesHold
  <1>3. QED BY <1>2, MilestoneInvariant, PTL

------------
(* Reviews *)

LEMMA ReviewStep ==
  ASSUME area = "reviews", [Next]_vars PROVE area' = "reviews" /\ (Review!Next \/ UNCHANGED ReviewVars)
  BY DEF Next, vars, ReviewVars, reviews

LEMMA TwoSides ==
  ASSUME NEW s \in Review!Sides
  PROVE  /\ Review!Other(s) \in Review!Sides /\ Review!Other(s) # s
         /\ \A x \in Review!Sides : x = s \/ x = Review!Other(s) BY DEF Review!Sides, Review!Other

LEMMA CallFields ==
  ASSUME NEW h \in Review!Call
  PROVE  /\ h.of \in Assignments /\ h.side \in Review!Sides
         /\ h.at \in {"other", "create", "show", "sum", "rate"}
         /\ h.other \in {"none", "hidden", "shown"} BY DEF Review!Call

\* What becomes of a call: it looks, goes on, or takes the sum.
LEMMA CallLooks ==
  ASSUME NEW h \in Review!Call, NEW o \in {"none", "hidden", "shown"}
  PROVE  LET g == [h EXCEPT !.at = "create", !.other = o]
         IN g \in Review!Call /\ g.of = h.of /\ g.side = h.side /\ g.at = "create" /\ g.other = o BY DEF Review!Call

LEMMA CallGoesOn ==
  ASSUME NEW h \in Review!Call, NEW at \in {"show", "sum"} PROVE LET g == [h EXCEPT !.at = at]
         IN g \in Review!Call /\ g.of = h.of /\ g.side = h.side /\ g.at = at
              /\ g.other = h.other /\ g.sum = h.sum BY DEF Review!Call

LEMMA CallSums ==
  ASSUME NEW h \in Review!Call PROVE LET g == [h EXCEPT !.at = "rate", !.sum = Review!ByCompany]
         IN g \in Review!Call /\ g.of = h.of /\ g.side = h.side /\ g.at = "rate"
              /\ g.other = h.other /\ g.sum = Review!ByCompany
  <1>1. Review!ByCompany \in SUBSET Assignments BY DEF Review!ByCompany
  <1>2. QED BY <1>1 DEF Review!Call

LEMMA NewCall ==
  ASSUME NEW a \in Assignments, NEW s \in Review!Sides, calls \in Nat
  PROVE  LET g == [n |-> calls, of |-> a, side |-> s, at |-> "other", other |-> "none",
                   sum |-> {}]
         IN g \in Review!Call /\ g.of = a /\ g.side = s /\ g.at = "other" /\ g.other = "none" BY DEF Review!Call

LEMMA BeginStarts ==
  ASSUME NEW a \in Assignments, NEW s \in Review!Sides, Review!Begin(a, s)
  PROVE  /\ Starts(a, s) /\ raced \subseteq raced'
         /\ \A h \in run : h.of = a => a \in raced'
         /\ \A h \in run : s = "company" /\ h.side = "company" => a \in raced'
  <1> DEFINE meets(h) == h.of = a \/ (s = "company" /\ h.side = s)
  <1>1. raced' = raced \cup UNION {{a, h.of} : h \in {g \in run : meets(g)}} BY DEF Review!Begin
  <1>2. ASSUME NEW h \in run, meets(h) PROVE a \in raced'
    <2>1. {a, h.of} \in {{a, g.of} : g \in {x \in run : meets(x)}} BY <1>2
    <2>2. QED BY <1>1, <2>1
  <1>3. Starts(a, s) BY DEF Review!Begin, Review!reviewVars, Starts
  <1>4. QED BY <1>1, <1>2, <1>3

LEMMA ReviewTypes ==
  ASSUME ReviewTyped, Review!Next PROVE ReviewTyped'
  <1> USE DEF ReviewTyped, Review!Goes, Review!Ends, Review!reviewVars
  <1>a. /\ \A h \in run : h \in Review!Call
        /\ \A h \in run : h.of \in Assignments /\ h.side \in Review!Sides
                            /\ Review!Other(h.side) \in Review!Sides BY CallFields, TwoSides
  <1>1. ASSUME NEW a \in Assignments, NEW s \in Review!Sides, Review!Begin(a, s) PROVE ReviewTyped'
    BY <1>1, BeginStarts, NewCall DEF Starts
  <1>2. ASSUME NEW h \in run, Review!LookOther(h) PROVE ReviewTyped'
    <2> DEFINE g == [h EXCEPT !.at = "create", !.other = review[h.of][Review!Other(h.side)]]
    <2>1. review[h.of][Review!Other(h.side)] \in {"none", "hidden", "shown"} BY <1>a
    <2>2. /\ g \in Review!Call /\ g.of = h.of /\ g.side = h.side /\ g.at = "create"
          /\ g.other = review[h.of][Review!Other(h.side)] BY <1>a, <2>1, CallLooks
    <2>3. run' = (run \ {h}) \cup {g} /\ UNCHANGED <<review, calls>> BY <1>2 DEF Review!LookOther
    <2> HIDE DEF g
    <2>4. QED BY <2>2, <2>3
  <1>3. ASSUME NEW h \in run, h.at \in {"create", "show"},
               review' \in [Assignments -> [Review!Sides -> {"none", "hidden", "shown"}]],
               \A a \in Assignments, s \in Review!Sides :
                 review[a][s] # "none" => review'[a][s] # "none",
               NEW g \in Review!Call, g.of = h.of, g.side = h.side, g.other = h.other,
               g.at = "show" => review'[h.of][h.side] # "none" /\ h.other # "none",
               g.at \in {"sum", "rate"} => h.side = "company",
               h.other # "none" => review'[h.of][Review!Other(h.side)] # "none",
               run' \subseteq (run \ {h}) \cup {g}, calls' = calls
        PROVE  ReviewTyped' BY <1>a, <1>3
  <1>4. ASSUME NEW h \in run, Review!Create(h) PROVE ReviewTyped'
    <2> DEFINE g(at) == [h EXCEPT !.at = at]
    <2>1. \A at \in {"show", "sum"} : /\ g(at) \in Review!Call /\ g(at).of = h.of
                                      /\ g(at).side = h.side /\ g(at).other = h.other
                                      /\ g(at).at = at BY <1>a, CallGoesOn
    <2>2. /\ review' \in [Assignments -> [Review!Sides -> {"none", "hidden", "shown"}]]
          /\ \A a \in Assignments, s \in Review!Sides :
               review[a][s] # "none" => review'[a][s] # "none"
          /\ review'[h.of][h.side] # "none" BY <1>4, <1>a DEF Review!Create
    <2>3. h.other # "none" => review'[h.of][Review!Other(h.side)] # "none" BY <1>4, <1>a, <2>2 DEF Review!Create
    <2>4. CASE h.other = "hidden"
      <3>1. run' \subseteq (run \ {h}) \cup {g("show")} BY <1>4, <2>4 DEF Review!Create
      <3> HIDE DEF g
      <3>2. QED BY <1>3, <1>4, <2>1, <2>2, <2>3, <2>4, <3>1 DEF Review!Create
    <2>5. CASE h.other # "hidden" /\ h.side = "company"
      <3>1. run' \subseteq (run \ {h}) \cup {g("sum")} BY <1>4, <2>5 DEF Review!Create, Review!Then
      <3> HIDE DEF g
      <3>2. QED BY <1>3, <1>4, <2>1, <2>2, <2>3, <2>5, <3>1 DEF Review!Create
    <2>6. CASE h.other # "hidden" /\ h.side # "company"
      <3>1. run' \subseteq run /\ calls' = calls BY <1>4, <2>6 DEF Review!Create, Review!Then
      <3>2. QED BY <1>a, <2>2, <3>1
    <2>7. QED BY <2>4, <2>5, <2>6
  <1>5. ASSUME NEW h \in run, Review!Show(h) PROVE ReviewTyped'
    <2>1. /\ review' \in [Assignments -> [Review!Sides -> {"none", "hidden", "shown"}]]
          /\ \A a \in Assignments, s \in Review!Sides :
               review[a][s] # "none" => review'[a][s] # "none" BY <1>5, <1>a DEF Review!Show
    <2>2. CASE h.side = "company"
      <3> DEFINE g == [h EXCEPT !.at = "sum"]
      <3>1. /\ g \in Review!Call /\ g.of = h.of /\ g.side = h.side /\ g.other = h.other
            /\ g.at = "sum" BY <1>a, CallGoesOn
      <3>2. run' = (run \ {h}) \cup {g} /\ calls' = calls /\ h.at = "show" BY <1>5, <2>2 DEF Review!Show, Review!Then
      <3> HIDE DEF g
      <3>3. h.other # "none" => review'[h.of][Review!Other(h.side)] # "none" BY <1>a, <2>1, <3>2
      <3>4. QED BY <1>3, <2>1, <2>2, <3>1, <3>2, <3>3
    <2>3. CASE h.side # "company"
      <3>1. run' \subseteq run /\ calls' = calls BY <1>5, <2>3 DEF Review!Show, Review!Then
      <3>2. QED BY <1>a, <2>1, <3>1
    <2>4. QED BY <2>2, <2>3
  <1>6. ASSUME NEW h \in run, Review!Sum(h) PROVE ReviewTyped'
    <2> DEFINE g == [h EXCEPT !.at = "rate", !.sum = Review!ByCompany]
    <2>1. /\ g \in Review!Call /\ g.of = h.of /\ g.side = h.side /\ g.other = h.other
          /\ g.at = "rate" BY <1>a, CallSums
    <2>2. run' = (run \ {h}) \cup {g} /\ UNCHANGED <<review, calls>> /\ h.at = "sum" BY <1>6 DEF Review!Sum
    <2> HIDE DEF g
    <2>3. QED BY <2>1, <2>2
  <1>7. ASSUME NEW h \in run, Review!Rate(h) \/ Review!Stop(h) PROVE ReviewTyped'
    <2>1. run' \subseteq run /\ UNCHANGED <<review, calls>> BY <1>7 DEF Review!Rate, Review!Stop
    <2>2. QED BY <2>1
  <1>8. QED BY <1>1, <1>2, <1>4, <1>5, <1>6, <1>7 DEF Review!Next

\* Reviews are kept.
LEMMA ReviewsStay ==
  ASSUME ReviewTyped, Review!Next
  PROVE  \A a \in Assignments, s \in Review!Sides : review[a][s] # "none" => review'[a][s] # "none"
  <1> SUFFICES ASSUME NEW a \in Assignments, NEW s \in Review!Sides, review[a][s] # "none"
               PROVE  review'[a][s] # "none" OBVIOUS
  <1>a. \A h \in run : h.of \in Assignments /\ h.side \in Review!Sides
                         /\ Review!Other(h.side) \in Review!Sides BY CallFields, TwoSides DEF ReviewTyped
  <1>1. ASSUME NEW x \in Assignments, NEW y \in Review!Sides, Review!Begin(x, y) PROVE review'[a][s] # "none"
    BY <1>1 DEF Review!Begin, Review!reviewVars
  <1>2. ASSUME NEW h \in run, \/ Review!LookOther(h) \/ Review!Sum(h)
                              \/ Review!Rate(h) \/ Review!Stop(h)
        PROVE  review'[a][s] # "none"
    BY <1>2 DEF Review!LookOther, Review!Sum, Review!Rate, Review!Stop, Review!reviewVars
  <1>3. ASSUME NEW h \in run, Review!Create(h) \/ Review!Show(h) PROVE review'[a][s] # "none"
    BY <1>3, <1>a DEF Review!Create, Review!Show, ReviewTyped
  <1>4. QED BY <1>1, <1>2, <1>3 DEF Review!Next

\* A review is shown only after both are there.
LEMMA BlindPreserved ==
  ASSUME ReviewTyped, Review!Next,
         \A a \in Assignments : (\E s \in Review!Sides : review[a][s] = "shown") => Both(a)
  PROVE  \A a \in Assignments : (\E s \in Review!Sides : review'[a][s] = "shown") => Both(a)'
  <1> SUFFICES ASSUME NEW a \in Assignments, NEW s \in Review!Sides, review'[a][s] = "shown"
               PROVE  Both(a)' OBVIOUS
  <1>a. \A h \in run : h.of \in Assignments /\ h.side \in Review!Sides
                         /\ Review!Other(h.side) \in Review!Sides BY CallFields, TwoSides DEF ReviewTyped
  <1>b. Both(a) => Both(a)' BY ReviewsStay DEF Both
  <1>c. review[a][s] = "shown" => Both(a)' BY <1>b
  <1>1. ASSUME NEW h \in run, h.of = a, review[a][h.side] # "none" \/ review'[a][h.side] # "none",
               review[a][Review!Other(h.side)] # "none"
        PROVE  Both(a)'
    <2>1. review'[a][h.side] # "none" /\ review'[a][Review!Other(h.side)] # "none" BY <1>a, <1>1, ReviewsStay
    <2>2. QED BY <1>a, <2>1, TwoSides DEF Both
  <1>2. CASE review'[a][s] # review[a][s]
    <2>1. PICK h \in run : Review!Create(h) \/ Review!Show(h)
      BY <1>2 DEF Review!Next, Review!Begin, Review!LookOther, Review!Sum, Review!Rate, Review!Stop, Review!reviewVars
    <2>2. CASE Review!Create(h)
      <3>1. /\ h.of = a /\ h.side = s /\ h.other # "none" /\ h.at = "create"
        BY <1>2, <1>a, <2>2 DEF Review!Create, ReviewTyped
      <3>2. review[a][Review!Other(h.side)] # "none" BY <3>1 DEF ReviewTyped
      <3>3. QED BY <1>1, <3>1, <3>2
    <2>3. CASE Review!Show(h)
      <3>1. h.of = a /\ h.at = "show" BY <1>2, <1>a, <2>3 DEF Review!Show, ReviewTyped
      <3>2. review[a][h.side] # "none" /\ review[a][Review!Other(h.side)] # "none" BY <3>1 DEF ReviewTyped
      <3>3. QED BY <1>1, <3>1, <3>2
    <2>4. QED BY <2>1, <2>2, <2>3
  <1>3. QED BY <1>2, <1>c

\* A step that is about another assignment.
LEMMA CalmElsewhere ==
  ASSUME NEW a, ReviewCalm(a), review'[a] = review[a],
         \A h \in run' : h.of = a => h \in run, \A h \in run : h.of = a => h \in run'
  PROVE  ReviewCalm(a)' BY DEF ReviewCalm, Both, BothShown

\* The one call about an assignment ends.
LEMMA CalmAfterLast ==
  ASSUME NEW a, ReviewCalm(a), NEW h \in run, h.of = a, run' \subseteq run \ {h},
         Both(a)' => BothShown(a)'
  PROVE  ReviewCalm(a)'
  <1>1. \A g \in run' : g.of # a BY DEF ReviewCalm
  <1>2. QED BY <1>1 DEF ReviewCalm

\* The one call about an assignment becomes g.
LEMMA CalmAfterMove ==
  ASSUME NEW a, ReviewCalm(a), NEW h \in run, h.of = a, NEW g,
         g.of = a, run' \subseteq (run \ {h}) \cup {g}, g \in run',
         g.at \in {"other", "create"} => review'[a][g.side] = "none",
         g.at = "create" => g.other = review'[a][Review!Other(g.side)],
         g.at = "show" => review'[a][g.side] = "shown",
         g.at # "show" /\ Both(a)' => BothShown(a)'
  PROVE  ReviewCalm(a)'
  <1>1. \A x \in run' : x.of = a => x = g BY DEF ReviewCalm
  <1>2. QED BY <1>1 DEF ReviewCalm

LEMMA ReviewCalmPreserved ==
  ASSUME ReviewTyped, \A a \in Assignments \ raced : ReviewCalm(a), Review!Next
  PROVE  \A a \in Assignments \ raced' : ReviewCalm(a)'
  <1> SUFFICES ASSUME NEW a \in Assignments, a \notin raced' PROVE ReviewCalm(a)' OBVIOUS
  <1> USE DEF Review!Goes, Review!Ends, Review!reviewVars
  <1>a. \A h \in run : /\ h \in Review!Call /\ h.of \in Assignments /\ h.side \in Review!Sides
                       /\ Review!Other(h.side) \in Review!Sides /\ Review!Other(h.side) # h.side
                       /\ \A x \in Review!Sides : x = h.side \/ x = Review!Other(h.side)
    BY CallFields, TwoSides DEF ReviewTyped
  <1>b. ASSUME raced \subseteq raced' PROVE ReviewCalm(a) BY <1>b
  <1>c. review \in [Assignments -> [Review!Sides -> {"none", "hidden", "shown"}]] BY DEF ReviewTyped
  <1>1. ASSUME NEW x \in Assignments, NEW s \in Review!Sides, Review!Begin(x, s) PROVE ReviewCalm(a)'
    <2> DEFINE g == [n |-> calls, of |-> x, side |-> s, at |-> "other", other |-> "none", sum |-> {}]
    <2>1. g.of = x /\ g.side = s /\ g.at = "other" OBVIOUS
    <2>2. /\ review[x][s] = "none" /\ run' = run \cup {g} /\ review' = review
          /\ ReviewCalm(a) /\ (x = a => \A h \in run : h.of # a) BY <1>1, <1>b, BeginStarts DEF Starts
    <2> HIDE DEF g
    <2>3. CASE x # a BY <2>1, <2>2, <2>3, CalmElsewhere
    <2>4. CASE x = a
      <3>1. ~Both(a)' BY <2>2, <2>4 DEF Both
      <3>2. \A h \in run' : h.of = a => h = g BY <2>2, <2>4
      <3>3. QED BY <2>1, <2>2, <2>4, <3>1, <3>2 DEF ReviewCalm
    <2>5. QED BY <2>3, <2>4
  <1>2. ASSUME NEW h \in run, h.of # a, ReviewCalm(a), review'[a] = review[a],
               run' \subseteq run \/ \E g : g.of = h.of /\ run' \subseteq (run \ {h}) \cup {g},
               run \ {h} \subseteq run'
        PROVE  ReviewCalm(a)' BY <1>2, CalmElsewhere
  <1>3. ASSUME NEW h \in run, Review!LookOther(h) PROVE ReviewCalm(a)'
    <2> DEFINE o == review[h.of][Review!Other(h.side)]
               g == [h EXCEPT !.at = "create", !.other = o]
    <2>1. o \in {"none", "hidden", "shown"} BY <1>a, <1>c
    <2>2. g.of = h.of /\ g.side = h.side /\ g.at = "create" /\ g.other = o BY <1>a, <2>1, CallLooks
    <2>3. /\ run' = (run \ {h}) \cup {g} /\ review' = review /\ h.at = "other" /\ ReviewCalm(a)
      BY <1>3, <1>b DEF Review!LookOther
    <2> HIDE DEF g
    <2>4. CASE h.of # a BY <1>2, <2>2, <2>3, <2>4
    <2>5. CASE h.of = a
      <3>1. review[a][h.side] = "none" /\ ~Both(a)' BY <1>a, <2>3, <2>5 DEF ReviewCalm, Both
      <3>2. QED BY <2>2, <2>3, <2>5, <3>1, CalmAfterMove
    <2>6. QED BY <2>4, <2>5
  <1>4. ASSUME NEW h \in run, Review!Create(h) PROVE ReviewCalm(a)'
    <2> DEFINE g(at) == [h EXCEPT !.at = at]
    <2>1. \A at \in {"show", "sum"} : g(at).of = h.of /\ g(at).side = h.side /\ g(at).at = at BY <1>a, CallGoesOn
    <2>2. ReviewCalm(a) /\ h.at = "create" BY <1>4, <1>b DEF Review!Create
    <2>3. CASE h.of # a
      <3>1. review'[a] = review[a] BY <1>4, <1>a, <1>c, <2>3 DEF Review!Create
      <3>2. run \ {h} \subseteq run' BY <1>4 DEF Review!Create, Review!Then
      <3>3. \/ run' \subseteq run
            \/ run' \subseteq (run \ {h}) \cup {g("show")}
            \/ run' \subseteq (run \ {h}) \cup {g("sum")} BY <1>4 DEF Review!Create, Review!Then
      <3> HIDE DEF g
      <3>4. QED BY <1>2, <2>1, <2>2, <2>3, <3>1, <3>2, <3>3
    <2>4. CASE h.of = a
      <3>1. review[a][h.side] = "none" /\ h.other = review[a][Review!Other(h.side)] BY <2>2, <2>4 DEF ReviewCalm
      <3>2. /\ review'[a][h.side] = IF h.other = "none" THEN "hidden" ELSE "shown"
            /\ review'[a][Review!Other(h.side)] = h.other BY <1>4, <1>a, <1>c, <2>4, <3>1 DEF Review!Create
      <3>3. h.other # "hidden" => (Both(a)' => BothShown(a)') BY <1>a, <1>c, <2>4, <3>1, <3>2 DEF Both, BothShown
      <3>4. CASE h.other = "hidden"
        <4>1. run' = (run \ {h}) \cup {g("show")} BY <1>4, <2>4, <3>1, <3>4 DEF Review!Create
        <4> HIDE DEF g
        <4>2. QED BY <2>1, <2>2, <2>4, <3>2, <3>4, <4>1, CalmAfterMove
      <3>5. CASE h.other # "hidden" /\ h.side = "company"
        <4>1. run' = (run \ {h}) \cup {g("sum")} BY <1>4, <2>4, <3>1, <3>5 DEF Review!Create, Review!Then
        <4> HIDE DEF g
        <4>2. QED BY <2>1, <2>2, <2>4, <3>3, <3>5, <4>1, CalmAfterMove
      <3>6. CASE h.other # "hidden" /\ h.side # "company"
        <4>1. run' = run \ {h} BY <1>4, <2>4, <3>1, <3>6 DEF Review!Create, Review!Then
        <4>2. QED BY <2>2, <2>4, <3>3, <3>6, <4>1, CalmAfterLast
      <3>7. QED BY <3>4, <3>5, <3>6
    <2>5. QED BY <2>3, <2>4
  <1>5. ASSUME NEW h \in run, Review!Show(h) PROVE ReviewCalm(a)'
    <2> DEFINE g == [h EXCEPT !.at = "sum"]
    <2>1. g.of = h.of /\ g.side = h.side /\ g.at = "sum" BY <1>a, CallGoesOn
    <2>2. ReviewCalm(a) /\ h.at = "show" BY <1>5, <1>b DEF Review!Show
    <2>3. run' = (run \ {h}) \cup {g} \/ run' = run \ {h} BY <1>5 DEF Review!Show, Review!Then
    <2>4. CASE h.of # a
      <3>1. review'[a] = review[a] BY <1>5, <1>a, <1>c, <2>4 DEF Review!Show
      <3> HIDE DEF g
      <3>2. QED BY <1>2, <2>1, <2>2, <2>3, <2>4, <3>1
    <2>5. CASE h.of = a
      <3>1. review[a][h.side] = "shown" BY <2>2, <2>5 DEF ReviewCalm
      <3>2. BothShown(a)' BY <1>5, <1>a, <1>c, <2>5, <3>1 DEF Review!Show, BothShown
      <3> HIDE DEF g
      <3>3. QED BY <2>1, <2>2, <2>3, <2>5, <3>2, CalmAfterMove, CalmAfterLast
    <2>6. QED BY <2>4, <2>5
  <1>6. ASSUME NEW h \in run, Review!Sum(h) PROVE ReviewCalm(a)'
    <2> DEFINE g == [h EXCEPT !.at = "rate", !.sum = Review!ByCompany]
    <2>1. g.of = h.of /\ g.side = h.side /\ g.at = "rate" BY <1>a, CallSums
    <2>2. /\ run' = (run \ {h}) \cup {g} /\ review' = review /\ h.at = "sum" /\ ReviewCalm(a)
      BY <1>6, <1>b DEF Review!Sum
    <2> HIDE DEF g
    <2>3. CASE h.of # a BY <1>2, <2>1, <2>2, <2>3
    <2>4. CASE h.of = a
      <3>1. Both(a)' => BothShown(a)' BY <2>2, <2>4 DEF ReviewCalm, Both, BothShown
      <3>2. QED BY <2>1, <2>2, <2>4, <3>1, CalmAfterMove
    <2>5. QED BY <2>3, <2>4
  <1>7. ASSUME NEW h \in run, Review!Rate(h) PROVE ReviewCalm(a)'
    <2>1. run' = run \ {h} /\ review' = review /\ h.at = "rate" /\ ReviewCalm(a) BY <1>7, <1>b DEF Review!Rate
    <2>2. CASE h.of # a BY <1>2, <2>1, <2>2
    <2>3. CASE h.of = a
      <3>1. Both(a)' => BothShown(a)' BY <2>1, <2>3 DEF ReviewCalm, Both, BothShown
      <3>2. QED BY <2>1, <2>3, <3>1, CalmAfterLast
    <2>4. QED BY <2>2, <2>3
  <1>8. ASSUME NEW h \in run, Review!Stop(h) PROVE ReviewCalm(a)'
    <2>1. h.of # a /\ run' = run \ {h} /\ review' = review /\ ReviewCalm(a) BY <1>8, <1>b DEF Review!Stop
    <2>2. QED BY <1>2, <2>1
  <1>9. QED BY <1>1, <1>3, <1>4, <1>5, <1>6, <1>7, <1>8 DEF Review!Next

\* The one call of a company becomes g, or another call does.
LEMMA RatingAfterMove ==
  ASSUME RatingCalm, NEW h \in run, NEW g, g.side = h.side, run' = (run \ {h}) \cup {g},
         UNCHANGED rated, Review!ByCompany' = Review!ByCompany, h.at = "other" \/ h.at = "show" \/ h.at = "sum",
         g.side = "company" /\ h.at = "other" => g.at = "create",
         g.side = "company" /\ h.at # "other" => g.at \in {"sum", "rate"},
         g.at = "rate" => g.sum = Review!ByCompany
  PROVE  RatingCalm'
  <1>1. CASE h.side = "company"
    <2>1. \A x \in run' : x.side = "company" => x = g BY <1>1 DEF RatingCalm
    <2>2. \A x \in run : x.side = "company" => x = h BY <1>1 DEF RatingCalm
    <2>3. \A x \in run' : x.at = "rate" => x.sum = Review!ByCompany BY DEF RatingCalm
    <2>4. CASE h.at = "other" BY <1>1, <2>1, <2>2, <2>3, <2>4 DEF RatingCalm
    <2>5. CASE h.at # "other"
      <3>1. g \in run' /\ g.side = "company" /\ g.at \in {"sum", "rate"} BY <1>1, <2>5
      <3>2. QED BY <2>1, <2>3, <3>1 DEF RatingCalm
    <2>6. QED BY <2>4, <2>5
  <1>2. CASE h.side # "company"
    <2>1. \A x \in run' : x.side = "company" => x \in run BY <1>2
    <2>2. \A x \in run : x.side = "company" => x \in run' BY <1>2
    <2>3. \A x \in run' : x.at = "rate" => x.sum = Review!ByCompany BY DEF RatingCalm
    <2>4. QED BY <2>1, <2>2, <2>3 DEF RatingCalm
  <1>3. QED BY <1>1, <1>2

\* The call of a worker ends, or its review makes no difference to the rating.
LEMMA RatingElsewhere ==
  ASSUME RatingCalm, run' \subseteq run, \A x \in run : x.side = "company" => x \in run',
         UNCHANGED rated, Review!ByCompany' = Review!ByCompany
  PROVE  RatingCalm' BY DEF RatingCalm

LEMMA RatingPreserved ==
  ASSUME ReviewTyped, raced = {} => RatingCalm, Review!Next PROVE raced' = {} => RatingCalm'
  <1> SUFFICES ASSUME raced' = {} PROVE RatingCalm' OBVIOUS
  <1> USE DEF Review!Goes, Review!Ends, Review!reviewVars
  <1>a. \A h \in run : /\ h \in Review!Call /\ h.of \in Assignments /\ h.side \in Review!Sides
                       /\ Review!Other(h.side) \in Review!Sides /\ Review!Other(h.side) # h.side
                       /\ \A x \in Review!Sides : x = h.side \/ x = Review!Other(h.side)
                       /\ h.side # "company" => h.side = "worker" /\ Review!Other(h.side) = "company"
    BY CallFields, TwoSides DEF ReviewTyped, Review!Sides, Review!Other
  <1>b. raced \subseteq raced' => RatingCalm OBVIOUS
  <1>c. review \in [Assignments -> [Review!Sides -> {"none", "hidden", "shown"}]] BY DEF ReviewTyped
  <1>d. review' = review => Review!ByCompany' = Review!ByCompany BY DEF Review!ByCompany
  <1>1. ASSUME NEW a \in Assignments, NEW s \in Review!Sides, Review!Begin(a, s) PROVE RatingCalm'
    <2> DEFINE g == [n |-> calls, of |-> a, side |-> s, at |-> "other", other |-> "none", sum |-> {}]
    <2>1. g.side = s /\ g.at = "other" OBVIOUS
    <2>2. /\ run' = run \cup {g} /\ UNCHANGED <<review, rated>> /\ RatingCalm
          /\ s = "company" => \A h \in run : h.side # "company" BY <1>1, <1>b, BeginStarts DEF Starts
    <2>3. Review!ByCompany' = Review!ByCompany BY <1>d, <2>2
    <2> HIDE DEF g
    <2>4. QED BY <2>1, <2>2, <2>3 DEF RatingCalm
  <1>2. ASSUME NEW h \in run, Review!LookOther(h) PROVE RatingCalm'
    <2> DEFINE o == review[h.of][Review!Other(h.side)]
               g == [h EXCEPT !.at = "create", !.other = o]
    <2>0. o \in {"none", "hidden", "shown"} BY <1>a, <1>c
    <2>1. g.side = h.side /\ g.at = "create" BY <1>a, <2>0, CallLooks
    <2>2. /\ run' = (run \ {h}) \cup {g} /\ UNCHANGED <<review, rated>> /\ h.at = "other"
          /\ RatingCalm BY <1>2, <1>b DEF Review!LookOther
    <2> HIDE DEF g
    <2>3. QED BY <1>d, <2>1, <2>2, RatingAfterMove
  <1>3. ASSUME NEW h \in run, Review!Create(h) PROVE RatingCalm'
    <2> DEFINE g(at) == [h EXCEPT !.at = at]
    <2>1. \A at \in {"show", "sum"} : g(at).side = h.side /\ g(at).at = at /\ g(at).sum = h.sum BY <1>a, CallGoesOn
    <2>2. RatingCalm /\ h.at = "create" /\ rated' = rated BY <1>3, <1>b DEF Review!Create
    <2>3. CASE h.side = "company"
      <3>1. \A x \in run : x.side = "company" => x = h BY <2>2, <2>3 DEF RatingCalm
      <3>2. CASE review[h.of][h.side] # "none"
        <4>1. run' = run \ {h} /\ review' = review BY <1>3, <3>2 DEF Review!Create
        <4>2. rated = Review!ByCompany /\ Review!ByCompany' = Review!ByCompany
          BY <1>d, <2>2, <3>1, <4>1 DEF RatingCalm
        <4>3. \A x \in run' : x.side # "company" BY <3>1, <4>1
        <4>4. \A x \in run' : x.at # "rate" BY <4>1, <4>3 DEF ReviewTyped
        <4>5. QED BY <2>2, <4>2, <4>3, <4>4 DEF RatingCalm
      <3>3. CASE review[h.of][h.side] = "none"
        <4>1. PICK at \in {"show", "sum"} : run' = (run \ {h}) \cup {g(at)}
          BY <1>3, <2>3, <3>3 DEF Review!Create, Review!Then
        <4>2. g(at).side = "company" /\ g(at).at \in {"show", "sum"} BY <2>1, <2>3
        <4> HIDE DEF g
        <4>3. \A x \in run' : x.side = "company" => x = g(at) BY <3>1, <4>1
        <4>4. \A x \in run' : x.at # "rate" BY <3>1, <4>1, <4>2 DEF ReviewTyped
        <4>5. g(at) \in run' /\ g(at).at \notin {"other", "create"} BY <4>1, <4>2
        <4>6. QED BY <4>2, <4>3, <4>4, <4>5 DEF RatingCalm
      <3>4. QED BY <3>2, <3>3
    <2>4. CASE h.side # "company"
      <3>1. Review!ByCompany' = Review!ByCompany BY <1>3, <1>a, <1>c, <2>4 DEF Review!Create, Review!ByCompany
      <3>2. CASE run' = run \ {h} BY <2>2, <2>4, <3>1, <3>2, RatingElsewhere
      <3>3. CASE run' = (run \ {h}) \cup {g("show")}
        <4>1. g("show").side # "company" /\ g("show").at = "show" BY <2>1, <2>4
        <4> HIDE DEF g
        <4>2. QED BY <2>2, <2>4, <3>1, <3>3, <4>1 DEF RatingCalm
      <3>4. QED BY <1>3, <2>4, <3>2, <3>3 DEF Review!Create, Review!Then
    <2>5. QED BY <2>3, <2>4
  <1>4. ASSUME NEW h \in run, Review!Show(h) PROVE RatingCalm'
    <2> DEFINE g == [h EXCEPT !.at = "sum"]
    <2>1. g.side = h.side /\ g.at = "sum" BY <1>a, CallGoesOn
    <2>2. RatingCalm /\ h.at = "show" /\ rated' = rated BY <1>4, <1>b DEF Review!Show
    <2>3. review[h.of][h.side] # "none" /\ review[h.of][Review!Other(h.side)] # "none" BY <2>2 DEF ReviewTyped
    <2>4. Review!ByCompany' = Review!ByCompany BY <1>4, <1>a, <1>c, <2>3 DEF Review!Show, Review!ByCompany
    <2>5. CASE h.side = "company"
      <3>1. run' = (run \ {h}) \cup {g} BY <1>4, <2>5 DEF Review!Show, Review!Then
      <3> HIDE DEF g
      <3>2. QED BY <2>1, <2>2, <2>4, <2>5, <3>1, RatingAfterMove
    <2>6. CASE h.side # "company"
      <3>1. run' = run \ {h} BY <1>4, <2>6 DEF Review!Show, Review!Then
      <3>2. QED BY <2>2, <2>4, <2>6, <3>1, RatingElsewhere
    <2>7. QED BY <2>5, <2>6
  <1>5. ASSUME NEW h \in run, Review!Sum(h) PROVE RatingCalm'
    <2> DEFINE g == [h EXCEPT !.at = "rate", !.sum = Review!ByCompany]
    <2>1. g.side = h.side /\ g.at = "rate" /\ g.sum = Review!ByCompany BY <1>a, CallSums
    <2>2. /\ run' = (run \ {h}) \cup {g} /\ UNCHANGED <<review, rated>> /\ h.at = "sum"
          /\ RatingCalm BY <1>5, <1>b DEF Review!Sum
    <2> HIDE DEF g
    <2>3. QED BY <1>d, <2>1, <2>2, RatingAfterMove
  <1>6. ASSUME NEW h \in run, Review!Rate(h) PROVE RatingCalm'
    <2>1. /\ run' = run \ {h} /\ review' = review /\ rated' = h.sum /\ h.at = "rate"
          /\ RatingCalm BY <1>6, <1>b DEF Review!Rate
    <2>2. h.side = "company" /\ h.sum = Review!ByCompany /\ Review!ByCompany' = Review!ByCompany
      BY <1>d, <2>1 DEF RatingCalm, ReviewTyped
    <2>3. \A x \in run' : x.side # "company" BY <2>1, <2>2 DEF RatingCalm
    <2>4. \A x \in run' : x.at # "rate" BY <2>1, <2>3 DEF ReviewTyped
    <2>5. QED BY <2>1, <2>2, <2>3, <2>4 DEF RatingCalm
  <1>7. ASSUME NEW h \in run, Review!Stop(h) PROVE RatingCalm' BY <1>7 DEF Review!Stop
  <1>8. QED BY <1>1, <1>2, <1>3, <1>4, <1>5, <1>6, <1>7 DEF Review!Next

LEMMA ReviewInvariant == Spec => [](area = "reviews" => ReviewInv)
  <1>1. Init => (area = "reviews" => ReviewInv)
    <2> SUFFICES ASSUME Init PROVE ReviewInv OBVIOUS
    <2> USE DEF Init, Review!Init, Review!Sides
    <2>1. ReviewTyped BY DEF ReviewTyped
    <2>2. \A a \in Assignments, s \in Review!Sides : review[a][s] = "none" OBVIOUS
    <2>3. \A a \in Assignments : ReviewCalm(a) BY <2>2 DEF ReviewCalm, Both
    <2>4. RatingCalm BY DEF RatingCalm, Review!ByCompany
    <2>5. QED BY <2>1, <2>2, <2>3, <2>4 DEF ReviewInv
  <1>2. (area = "reviews" => ReviewInv) /\ [Next]_vars => (area = "reviews" => ReviewInv)'
    <2> SUFFICES ASSUME area = "reviews", ReviewInv, [Next]_vars PROVE ReviewInv' BY DEF Next, vars
    <2>1. CASE Review!Next BY <2>1, ReviewTypes, BlindPreserved, ReviewCalmPreserved, RatingPreserved DEF ReviewInv
    <2>2. CASE UNCHANGED ReviewVars
      BY <2>2 DEF ReviewVars, ReviewInv, ReviewTyped, ReviewCalm, RatingCalm, Both, BothShown, Review!ByCompany
    <2>3. QED BY <2>1, <2>2, ReviewStep
  <1>3. QED BY <1>1, <1>2, PTL DEF Spec

\* No review is on the public page before both are given, and the rating counts every one.
THEOREM ReviewsKept == Spec => []ReviewsHold
  <1>1. ReviewInv => Review!VisibleAfterBoth
    BY DEF ReviewInv, ReviewCalm, Both, BothShown, Review!VisibleAfterBoth, Review!BothRated
  <1>2. ReviewInv => Review!RatingCountsAll BY DEF ReviewInv, RatingCalm, Review!RatingCountsAll
  <1>3. (area = "reviews" => ReviewInv) => ReviewsHold BY <1>1, <1>2 DEF ReviewsHold
  <1>4. QED BY <1>3, ReviewInvariant, PTL

------------
(* Identity cards: the sums *)

\* A number has eighteen values.
LEMMA Spread ==
  ASSUME NEW c \in Numerals
  PROVE  \E a1, a2, a3, a4, a5, a6, a7, a8, a9, a10, a11, a12, a13, a14, a15, a16, a17, a18 \in 0..10 :
           Spells(c, a1, a2, a3, a4, a5, a6, a7, a8, a9, a10, a11, a12, a13, a14, a15, a16, a17, a18)
  <1> USE DEF Numerals, Spells
  <1> WITNESS c[1] \in 0..10, c[2] \in 0..10, c[3] \in 0..10, c[4] \in 0..10,
              c[5] \in 0..10, c[6] \in 0..10, c[7] \in 0..10, c[8] \in 0..10,
              c[9] \in 0..10, c[10] \in 0..10, c[11] \in 0..10, c[12] \in 0..10,
              c[13] \in 0..10, c[14] \in 0..10, c[15] \in 0..10, c[16] \in 0..10,
              c[17] \in 0..10, c[18] \in 0..10
  <1> QED OBVIOUS

\* Its weighted sum is a number.
LEMMA SumIsNumber ==
  ASSUME NEW c \in Numerals PROVE Identity!Sum(c) \in Int
  <1> USE DEF Spells
  <1>1. PICK a1, a2, a3, a4, a5, a6, a7, a8, a9, a10, a11, a12, a13, a14, a15, a16, a17, a18 \in 0..10 :
          Spells(c, a1, a2, a3, a4, a5, a6, a7, a8, a9, a10, a11, a12, a13, a14, a15, a16, a17, a18) BY Spread
  <1>2. QED BY <1>1 DEF Identity!Sum

\* The weights of the code are those of the standard, modulo 11.
LEMMA StandardSum ==
  ASSUME NEW c \in Numerals PROVE Identity!Standard(c) % 11 = (Identity!Sum(c) + c[18]) % 11
  <1> USE DEF Spells
  <1>1. PICK a1, a2, a3, a4, a5, a6, a7, a8, a9, a10, a11, a12, a13, a14, a15, a16, a17, a18 \in 0..10 :
          Spells(c, a1, a2, a3, a4, a5, a6, a7, a8, a9, a10, a11, a12, a13, a14, a15, a16, a17, a18) BY Spread
  <1>2. Identity!Standard(c) = (Identity!Sum(c) + c[18])
          + 11 * (11915*a1 + 5957*a2 + 2978*a3 + 1489*a4 + 744*a5 + 372*a6
                    + 186*a7 + 93*a8 + 46*a9 + 23*a10 + 11*a11 + 5*a12 + 2*a13 + a14)
    BY <1>1 DEF Identity!Standard, Identity!Sum
  <1>3. Identity!Sum(c) \in Int /\ c[18] \in Int BY <1>1 DEF Identity!Sum
  <1>4. QED BY <1>2, <1>3

\* Two numbers that pass, and differ in one value or by two neighbours that have changed
\* places, are one.
LEMMA Slip ==
  ASSUME NEW c \in Numerals, NEW t \in Numerals,
         (Identity!Sum(c) + c[18]) % 11 = 1, (Identity!Sum(t) + t[18]) % 11 = 1,
         NEW i \in 1..17, \A j \in 1..18 : j \notin {i, i + 1} => t[j] = c[j],
         \/ t[i] = c[i]
         \/ t[i + 1] = c[i + 1]
         \/ t[i] = c[i + 1] /\ t[i + 1] = c[i]
  PROVE  \A j \in 1..18 : t[j] = c[j]
  <1> USE DEF Spells
  <1>1. PICK a1, a2, a3, a4, a5, a6, a7, a8, a9, a10, a11, a12, a13, a14, a15, a16, a17, a18 \in 0..10 :
          Spells(c, a1, a2, a3, a4, a5, a6, a7, a8, a9, a10, a11, a12, a13, a14, a15, a16, a17, a18) BY Spread
  <1>2. PICK b1, b2, b3, b4, b5, b6, b7, b8, b9, b10, b11, b12, b13, b14, b15, b16, b17, b18 \in 0..10 :
          Spells(t, b1, b2, b3, b4, b5, b6, b7, b8, b9, b10, b11, b12, b13, b14, b15, b16, b17, b18) BY Spread
  <1> DEFINE S == Identity!Sum(c) + c[18]
             T == Identity!Sum(t) + t[18]
  <1>3. S \in Int /\ T \in Int BY <1>1, <1>2 DEF Identity!Sum
  <1>4. t[i] = c[i] /\ t[i + 1] = c[i + 1]
    <2>1. CASE i = 1
      <3>1. T = S + 7 * (b1 - a1) + 9 * (b2 - a2) BY <1>1, <1>2, <2>1 DEF Identity!Sum
      <3>2. QED BY <1>1, <1>2, <1>3, <2>1, <3>1
    <2>2. CASE i = 2
      <3>1. T = S + 9 * (b2 - a2) + 10 * (b3 - a3) BY <1>1, <1>2, <2>2 DEF Identity!Sum
      <3>2. QED BY <1>1, <1>2, <1>3, <2>2, <3>1
    <2>3. CASE i = 3
      <3>1. T = S + 10 * (b3 - a3) + 5 * (b4 - a4) BY <1>1, <1>2, <2>3 DEF Identity!Sum
      <3>2. QED BY <1>1, <1>2, <1>3, <2>3, <3>1
    <2>4. CASE i = 4
      <3>1. T = S + 5 * (b4 - a4) + 8 * (b5 - a5) BY <1>1, <1>2, <2>4 DEF Identity!Sum
      <3>2. QED BY <1>1, <1>2, <1>3, <2>4, <3>1
    <2>5. CASE i = 5
      <3>1. T = S + 8 * (b5 - a5) + 4 * (b6 - a6) BY <1>1, <1>2, <2>5 DEF Identity!Sum
      <3>2. QED BY <1>1, <1>2, <1>3, <2>5, <3>1
    <2>6. CASE i = 6
      <3>1. T = S + 4 * (b6 - a6) + 2 * (b7 - a7) BY <1>1, <1>2, <2>6 DEF Identity!Sum
      <3>2. QED BY <1>1, <1>2, <1>3, <2>6, <3>1
    <2>7. CASE i = 7
      <3>1. T = S + 2 * (b7 - a7) + 1 * (b8 - a8) BY <1>1, <1>2, <2>7 DEF Identity!Sum
      <3>2. QED BY <1>1, <1>2, <1>3, <2>7, <3>1
    <2>8. CASE i = 8
      <3>1. T = S + 1 * (b8 - a8) + 6 * (b9 - a9) BY <1>1, <1>2, <2>8 DEF Identity!Sum
      <3>2. QED BY <1>1, <1>2, <1>3, <2>8, <3>1
    <2>9. CASE i = 9
      <3>1. T = S + 6 * (b9 - a9) + 3 * (b10 - a10) BY <1>1, <1>2, <2>9 DEF Identity!Sum
      <3>2. QED BY <1>1, <1>2, <1>3, <2>9, <3>1
    <2>10. CASE i = 10
      <3>1. T = S + 3 * (b10 - a10) + 7 * (b11 - a11) BY <1>1, <1>2, <2>10 DEF Identity!Sum
      <3>2. QED BY <1>1, <1>2, <1>3, <2>10, <3>1
    <2>11. CASE i = 11
      <3>1. T = S + 7 * (b11 - a11) + 9 * (b12 - a12) BY <1>1, <1>2, <2>11 DEF Identity!Sum
      <3>2. QED BY <1>1, <1>2, <1>3, <2>11, <3>1
    <2>12. CASE i = 12
      <3>1. T = S + 9 * (b12 - a12) + 10 * (b13 - a13) BY <1>1, <1>2, <2>12 DEF Identity!Sum
      <3>2. QED BY <1>1, <1>2, <1>3, <2>12, <3>1
    <2>13. CASE i = 13
      <3>1. T = S + 10 * (b13 - a13) + 5 * (b14 - a14) BY <1>1, <1>2, <2>13 DEF Identity!Sum
      <3>2. QED BY <1>1, <1>2, <1>3, <2>13, <3>1
    <2>14. CASE i = 14
      <3>1. T = S + 5 * (b14 - a14) + 8 * (b15 - a15) BY <1>1, <1>2, <2>14 DEF Identity!Sum
      <3>2. QED BY <1>1, <1>2, <1>3, <2>14, <3>1
    <2>15. CASE i = 15
      <3>1. T = S + 8 * (b15 - a15) + 4 * (b16 - a16) BY <1>1, <1>2, <2>15 DEF Identity!Sum
      <3>2. QED BY <1>1, <1>2, <1>3, <2>15, <3>1
    <2>16. CASE i = 16
      <3>1. T = S + 4 * (b16 - a16) + 2 * (b17 - a17) BY <1>1, <1>2, <2>16 DEF Identity!Sum
      <3>2. QED BY <1>1, <1>2, <1>3, <2>16, <3>1
    <2>17. CASE i = 17
      <3>1. T = S + 2 * (b17 - a17) + 1 * (b18 - a18) BY <1>1, <1>2, <2>17 DEF Identity!Sum
      <3>2. QED BY <1>1, <1>2, <1>3, <2>17, <3>1
    <2>18. QED
      BY <2>1, <2>2, <2>3, <2>4, <2>5, <2>6, <2>7, <2>8, <2>9, <2>10, <2>11, <2>12, <2>13, <2>14, <2>15, <2>16, <2>17
  <1>5. QED BY <1>4

\* The table of check digits: the digit brings the sum to 1.
LEMMA CheckDigit ==
  ASSUME NEW s \in Int, NEW v \in 0..10 PROVE v = Identity!checkCodes[(s % 11) + 1] <=> (s + v) % 11 = 1
  <1>1. s % 11 \in 0..10 OBVIOUS
  <1>2. Identity!checkCodes[(s % 11) + 1] = (IF s % 11 \in {0, 1} THEN 1 ELSE 12) - (s % 11)
    BY <1>1 DEF Identity!checkCodes, Identity!X
  <1>3. QED BY <1>1, <1>2

------------
(* The check *)

\* A number that was issued is one of values, and its sum is 1.
LEMMA IssuedSum ==
  ASSUME NEW c \in IdNumbers
  PROVE  /\ c \in Numerals /\ \A i \in 1..17 : c[i] \in 0..9
         /\ Identity!Sum(c) \in Int
         /\ (Identity!Sum(c) + c[18]) % 11 = 1
  <1>1. c \in Numerals /\ Identity!Issued(c) BY IdNumbersAssumption DEF Numerals
  <1>2. \A i \in 1..17 : c[i] \in 0..9 BY <1>1 DEF Numerals, Identity!Issued, Identity!X
  <1>3. Identity!Standard(c) % 11 = (Identity!Sum(c) + c[18]) % 11 BY <1>1, StandardSum
  <1>4. Identity!Sum(c) \in Int BY <1>1, SumIsNumber
  <1>5. QED BY <1>1, <1>2, <1>3, <1>4 DEF Identity!Issued

\* What a number that passes reads as has the sum 1, too.
LEMMA PassesSum ==
  ASSUME NEW t \in Identity!Numbers
  PROVE  /\ Read(t) \in Numerals
         /\ Identity!validateIdCard(t) <=>
              /\ \A i \in 1..17 : t[i] < 10
              /\ (Identity!Sum(Read(t)) + Read(t)[18]) % 11 = 1
  <1>1. \A j \in 1..18 : t[j] \in 0..11 /\ Read(t)[j] = Identity!Upper(t[j])
                           /\ Read(t)[j] \in 0..10 /\ (t[j] < 10 => Read(t)[j] = t[j])
    BY DEF Read, Identity!Numbers, Identity!SmallX, Identity!X, Identity!Upper
  <1>2. Read(t) \in Numerals BY <1>1 DEF Read, Numerals
  <1>3. ASSUME \A i \in 1..17 : t[i] < 10 PROVE Identity!Sum(Read(t)) = Identity!Sum(t) /\ Identity!Sum(t) \in Int
    <2>1. /\ Read(t)[1] = t[1] /\ Read(t)[2] = t[2] /\ Read(t)[3] = t[3] /\ Read(t)[4] = t[4]
          /\ Read(t)[5] = t[5] /\ Read(t)[6] = t[6] /\ Read(t)[7] = t[7] /\ Read(t)[8] = t[8]
          /\ Read(t)[9] = t[9] /\ Read(t)[10] = t[10] /\ Read(t)[11] = t[11] /\ Read(t)[12] = t[12]
          /\ Read(t)[13] = t[13] /\ Read(t)[14] = t[14] /\ Read(t)[15] = t[15] /\ Read(t)[16] = t[16]
          /\ Read(t)[17] = t[17] BY <1>1, <1>3
    <2>2. Identity!Sum(Read(t)) = Identity!Sum(t) BY <2>1 DEF Identity!Sum
    <2>3. QED BY <1>2, <2>2, SumIsNumber
  <1>4. ASSUME \A i \in 1..17 : t[i] < 10
        PROVE  Identity!Upper(t[18]) = Identity!checkCodes[(Identity!Sum(t) % 11) + 1]
                 <=> (Identity!Sum(Read(t)) + Read(t)[18]) % 11 = 1
    <2>1. Read(t)[18] \in 0..10 /\ Read(t)[18] = Identity!Upper(t[18]) BY <1>1
    <2>2. QED BY <1>3, <1>4, <2>1, CheckDigit
  <1>5. QED BY <1>2, <1>4 DEF Identity!validateIdCard, Identity!X

\* What is typed with one mistake at most, and passes, is the number of the card.
LEMMA Refused ==
  ASSUME card \in IdNumbers, NEW t \in Identity!Numbers, Slipped(t), Identity!validateIdCard(t)
  PROVE  Identity!Same(t, card)
  <1> DEFINE u == Read(t)
  <1>1. u \in Numerals /\ (Identity!Sum(u) + u[18]) % 11 = 1 BY PassesSum
  <1>2. card \in Numerals /\ (Identity!Sum(card) + card[18]) % 11 = 1 BY IssuedSum
  <1>3. \A j \in 1..18 : u[j] = Identity!Upper(t[j]) BY DEF Read
  <1>4. \A j \in 1..18 : Identity!Upper(card[j]) = card[j] BY <1>2 DEF Numerals, Identity!Upper, Identity!SmallX
  <1>5. PICK c \in Identity!Right :
          \/ t = c
          \/ \E i \in 1..18, d \in 0..Identity!SmallX : t = [c EXCEPT ![i] = d]
          \/ \E i \in 1..17 : t = [c EXCEPT ![i] = c[i + 1], ![i + 1] = c[i]] BY DEF Slipped
  <1>6. \A j \in 1..18 : Identity!Upper(c[j]) = card[j] BY <1>4 DEF Identity!Right, Identity!Same
  <1>7. c \in [1..18 -> 0..11] BY <1>2 DEF Identity!Right, Numerals, Identity!SmallX
  <1> SUFFICES \A j \in 1..18 : u[j] = card[j] BY <1>3, <1>4 DEF Identity!Same
  <1> HIDE DEF u
  <1>8. CASE t = c BY <1>3, <1>6, <1>8
  <1>9. ASSUME NEW i \in 1..18, NEW d \in 0..Identity!SmallX, t = [c EXCEPT ![i] = d]
        PROVE  \A j \in 1..18 : u[j] = card[j]
    <2>1. \A j \in 1..18 : j # i => u[j] = card[j] BY <1>3, <1>6, <1>7, <1>9
    <2>2. CASE i = 18 BY <1>1, <1>2, <2>1, <2>2, Slip
    <2>3. CASE i \in 1..17 BY <1>1, <1>2, <2>1, <2>3, Slip
    <2>4. QED BY <2>2, <2>3
  <1>10. ASSUME NEW i \in 1..17, t = [c EXCEPT ![i] = c[i + 1], ![i + 1] = c[i]] PROVE \A j \in 1..18 : u[j] = card[j]
    <2>1. i + 1 \in 1..18 /\ i \in 1..18 /\ i # i + 1 OBVIOUS
    <2>2. \A j \in 1..18 : j \notin {i, i + 1} => u[j] = card[j] BY <1>3, <1>6, <1>7, <1>10
    <2>3. u[i] = card[i + 1] /\ u[i + 1] = card[i] BY <1>3, <1>6, <1>7, <1>10, <2>1
    <2>4. QED BY <1>1, <1>2, <2>2, <2>3, Slip
  <1>11. QED BY <1>5, <1>8, <1>9, <1>10

\* What is typed without a mistake passes.
LEMMA Accepted ==
  ASSUME card \in IdNumbers, NEW t \in Identity!Numbers, Identity!Same(t, card) PROVE Identity!validateIdCard(t)
  <1>1. \A i \in 1..18 : t[i] \in 0..11 /\ card[i] \in 0..10
    BY IssuedSum DEF Identity!Numbers, Identity!SmallX, Numerals
  <1>2. \A i \in 1..18 : Identity!Upper(t[i]) = card[i] BY <1>1 DEF Identity!Same, Identity!Upper, Identity!SmallX
  <1>3. \A i \in 1..17 : t[i] < 10 BY <1>1, <1>2, IssuedSum DEF Identity!Upper, Identity!SmallX, Identity!X
  <1>4. Read(t) = card BY <1>2, IssuedSum DEF Read, Numerals
  <1>5. QED BY <1>3, <1>4, IssuedSum, PassesSum

\* Without an X, the number of a card can be typed in one way.
LEMMA OneWay ==
  ASSUME card \in IdNumbers, card[18] # 10, NEW t \in Identity!Numbers, Identity!Same(t, card) PROVE t = card
  <1>1. card \in [1..18 -> 0..10] /\ t \in [1..18 -> 0..11]
    BY IssuedSum DEF Identity!Numbers, Identity!SmallX, Numerals
  <1>2. \A i \in 1..18 : card[i] \in 0..9
    <2>1. \A i \in 1..18 : i = 18 \/ i \in 1..17 OBVIOUS
    <2>2. card[18] \in 0..9 BY <1>1
    <2>3. QED BY <2>1, <2>2, IssuedSum
  <1>3. \A i \in 1..18 : t[i] = card[i] BY <1>1, <1>2 DEF Identity!Same, Identity!Upper, Identity!SmallX, Identity!X
  <1>4. QED BY <1>1, <1>3

------------
(* The steps *)

\* A step of Services in this area is one of IdCard.
LEMMA IdentityStep ==
  ASSUME area = "identity", [Next]_vars PROVE area' = "identity" /\ (Identity!Next \/ UNCHANGED <<card, typed, held>>)
  BY DEF Next, vars, identity

\* What is typed is a number.
LEMMA TypedNumber ==
  ASSUME card \in IdNumbers, NEW t, Slipped(t) PROVE t \in Identity!Numbers
  <1>1. PICK c \in Identity!Right :
          \/ t = c
          \/ \E i \in 1..18, d \in 0..Identity!SmallX : t = [c EXCEPT ![i] = d]
          \/ \E i \in 1..17 : t = [c EXCEPT ![i] = c[i + 1], ![i + 1] = c[i]] BY DEF Slipped
  <1>2. card \in [1..18 -> 0..10] BY IssuedSum DEF Numerals
  <1>3. c \in [1..18 -> 0..11] BY <1>2 DEF Identity!Right, Identity!SmallX
  <1>4. \A i \in 1..17 : i + 1 \in 1..18 /\ i \in 1..18 OBVIOUS
  <1>5. QED BY <1>1, <1>3, <1>4 DEF Identity!Numbers, Identity!SmallX

LEMMA IdentityInvStep ==
  ASSUME IdentityInv, Identity!Next PROVE IdentityInv'
  <1> USE DEF IdentityInv
  <1>1. ASSUME NEW t, Slipped(t), Identity!Type(t) PROVE IdentityInv'
    <2>1. card' = card /\ held' = held /\ typed' = t BY <1>1 DEF Identity!Type
    <2>2. t \in Identity!Numbers BY <1>1, TypedNumber
    <2>3. Slipped(t)' BY <1>1, <2>1 DEF Slipped, Identity!Right, Identity!Same
    <2>4. QED BY <2>1, <2>2, <2>3 DEF Identity!Same
  <1>2. CASE Identity!TypeRight BY <1>1, <1>2 DEF Identity!TypeRight, Slipped
  <1>3. CASE Identity!TypeWrong BY <1>1, <1>3 DEF Identity!TypeWrong, Slipped
  <1>4. CASE Identity!TypeSwapped BY <1>1, <1>4 DEF Identity!TypeSwapped, Slipped
  <1>5. CASE Identity!verifyIdentity
    <2>1. card' = card /\ typed' = << >> BY <1>5 DEF Identity!verifyIdentity
    <2>2. CASE held' = held BY <2>1, <2>2 DEF Identity!Same
    <2>3. CASE held' # held
      <3>1. /\ held' = Append(held, typed) /\ Identity!validateIdCard(typed)
            /\ \A i \in DOMAIN held : held[i] # typed BY <1>5, <2>3 DEF Identity!verifyIdentity
      <3>2. typed \in Identity!Numbers /\ Slipped(typed) BY <1>5 DEF Identity!verifyIdentity
      <3>3. Identity!Same(typed, card) BY <3>1, <3>2, Refused
      <3>4. held' \in Seq(Identity!Numbers) /\ Len(held') = Len(held) + 1
            /\ \A i \in DOMAIN held' : held'[i] = IF i = Len(held) + 1 THEN typed ELSE held[i] BY <3>1, <3>2
      <3>5. \A i \in DOMAIN held' : Identity!Same(held'[i], card) BY <3>3, <3>4
      <3>6. card[18] # 10 => Len(held) = 0
        <4>1. SUFFICES ASSUME card[18] # 10, Len(held) # 0 PROVE FALSE OBVIOUS
        <4>2. 1 \in 1..Len(held) /\ 1 \in DOMAIN held /\ held[1] \in Identity!Numbers BY <4>1
        <4>3. held[1] = card /\ typed = card BY <4>1, <4>2, <3>2, <3>3, OneWay
        <4>4. QED BY <4>2, <4>3, <3>1
      <3>7. QED BY <2>1, <3>4, <3>5, <3>6 DEF Identity!Same
    <2>4. QED BY <2>2, <2>3
  <1>6. QED BY <1>2, <1>3, <1>4, <1>5 DEF Identity!Next

\* For any numbers that follow the standard: whoever is verified has typed the number of the
\* card, who types it as it was issued passes the check, and a card that does not end in X
\* verifies one account.
THEOREM IdentityHolds ==
  Spec => [](area = "identity" =>
               /\ Identity!MistakeIsRefused /\ Identity!CardPasses
               /\ Identity!OneAccountUnlessX)
  <1> DEFINE Inv == area = "identity" => IdentityInv
  <1>1. Init => Inv
    <2> SUFFICES ASSUME Init, area = "identity" PROVE IdentityInv OBVIOUS
    <2>1. card \in IdNumbers /\ typed = << >> /\ held = << >> BY DEF Init, Identity!Init
    <2>2. QED BY <2>1 DEF IdentityInv
  <1>2. Inv /\ [Next]_vars => Inv'
    <2> SUFFICES ASSUME Inv, [Next]_vars, area' = "identity" PROVE IdentityInv' OBVIOUS
    <2>1. area = "identity" BY DEF Next, vars
    <2>2. Identity!Next \/ UNCHANGED <<card, typed, held>> BY <2>1, IdentityStep
    <2>3. CASE UNCHANGED <<card, typed, held>> BY <2>1, <2>3 DEF IdentityInv, Slipped, Identity!Right, Identity!Same
    <2>4. QED BY <2>1, <2>2, <2>3, IdentityInvStep
  <1>3. Inv => (area = "identity" =>
                  /\ Identity!MistakeIsRefused /\ Identity!CardPasses
                  /\ Identity!OneAccountUnlessX)
    BY Accepted DEF IdentityInv, Identity!MistakeIsRefused, Identity!CardPasses, Identity!OneAccountUnlessX,
       Identity!X
  <1>4. QED BY <1>1, <1>2, <1>3, PTL DEF Spec

------------
(* Invoices *)

LEMMA BillingStep ==
  ASSUME area = "billing", [Next]_vars PROVE area' = "billing" /\ (Invoice!Next \/ UNCHANGED Billing)
  BY DEF Next, vars, Billing, billing

LEMMA BilledIsSum == BillingTyped => BilledAdds
  <1> SUFFICES ASSUME BillingTyped PROVE BilledAdds OBVIOUS
  <1>1. DOMAIN invoice = 1..Len(invoice) /\ Len(invoice) \in Nat BY DEF BillingTyped, Invoice!TypeOK
  <1>2. Billed = SumFunctionOnSet(BilledOf, 1..Len(invoice))
    <2>1. DOMAIN BilledOf = 1..Len(invoice) BY <1>1 DEF BilledOf
    <2>2. Billed = Invoice!SumFunctionOnSet(BilledOf, DOMAIN BilledOf)
      BY DEF Billed, BilledOf, Invoice!Total, Invoice!SumFunction
    <2>3. QED
      BY <2>1, <2>2 DEF Invoice!SumFunctionOnSet, Invoice!FoldFunctionOnSet, Invoice!MapThenFoldSet, SumFunctionOnSet,
         FoldFunctionOnSet, MapThenFoldSet
  <1>3. IsFiniteSet(1..Len(invoice)) BY <1>1, FS_Interval
  <1>4. \A i \in 1..Len(invoice) : invoice[i].amount \in Nat
    <2>1. invoice \in Seq([amount: 1..MaxSettled, status: Invoice!Status]) BY DEF BillingTyped, Invoice!TypeOK
    <2>2. \A i \in 1..Len(invoice) : invoice[i] \in [amount: 1..MaxSettled, status: Invoice!Status]
      BY <2>1, <1>1, ElementsOf
    <2>3. MaxSettled \in Nat BY LimitsAssumption
    <2>4. QED BY <2>2, <2>3
  <1>5. \A i \in 1..Len(invoice) : BilledOf[i] \in Nat BY <1>1, <1>4 DEF BilledOf
  <1>6. Billed \in Nat BY <1>2, <1>3, <1>5, SumWithin
  <1>7. QED BY <1>1, <1>2, <1>3, <1>5, <1>6 DEF BilledAdds

LEMMA BilledIsSumNext == BillingTyped' => BilledAdds' BY BilledIsSum, PTL

\* The invoices after an application, and after a decision.
LEMMA AppliedFor ==
  ASSUME BillingTyped, NEW a \in 1..MaxSettled,
         invoice' = Append(invoice, [amount |-> a, status |-> "pending"])
  PROVE  /\ invoice' \in Seq([amount: 1..MaxSettled, status: Invoice!Status])
         /\ Len(invoice') = Len(invoice) + 1 /\ DOMAIN invoice' = 1..(Len(invoice) + 1)
         /\ \A i \in DOMAIN invoice : invoice'[i] = invoice[i]
         /\ invoice'[Len(invoice) + 1] = [amount |-> a, status |-> "pending"]
  <1> DEFINE Rec == [amount: 1..MaxSettled, status: Invoice!Status]
             new == [amount |-> a, status |-> "pending"]
  <1>1. new \in Rec BY DEF Invoice!Status
  <1>2. invoice \in Seq(Rec) BY DEF BillingTyped, Invoice!TypeOK
  <1> HIDE DEF Rec, new
  <1>3. /\ invoice' \in Seq(Rec) /\ Len(invoice') = Len(invoice) + 1
        /\ \A i \in 1..Len(invoice) : invoice'[i] = invoice[i]
        /\ invoice'[Len(invoice) + 1] = new BY <1>1, <1>2, Appended DEF new
  <1>4. DOMAIN invoice = 1..Len(invoice) /\ DOMAIN invoice' = 1..Len(invoice') BY <1>2, <1>3, ElementsOf
  <1>5. QED BY <1>3, <1>4 DEF Rec, new

LEMMA Decided ==
  ASSUME BillingTyped, NEW i \in DOMAIN invoice, NEW st \in Invoice!Status,
         invoice' = [invoice EXCEPT ![i].status = st]
  PROVE  /\ invoice' \in Seq([amount: 1..MaxSettled, status: Invoice!Status])
         /\ DOMAIN invoice' = DOMAIN invoice /\ Len(invoice') = Len(invoice)
         /\ \A j \in DOMAIN invoice : j # i => invoice'[j] = invoice[j]
         /\ invoice'[i] = [invoice[i] EXCEPT !.status = st]
         /\ invoice'[i].amount = invoice[i].amount /\ invoice'[i].status = st
  <1> DEFINE Rec == [amount: 1..MaxSettled, status: Invoice!Status]
             new == [invoice[i] EXCEPT !.status = st]
  <1>1. invoice \in Seq(Rec) BY DEF BillingTyped, Invoice!TypeOK
  <1>2. invoice[i] \in Rec /\ i \in 1..Len(invoice) /\ DOMAIN invoice = 1..Len(invoice)
    <2> HIDE DEF Rec
    <2>1. QED BY <1>1, ElementsOf
  <1>3. new \in Rec /\ new.amount = invoice[i].amount /\ new.status = st BY <1>2
  <1>4. invoice' = [invoice EXCEPT ![i] = new] OBVIOUS
  <1> HIDE DEF Rec, new
  <1>5. /\ invoice' \in Seq(Rec) /\ Len(invoice') = Len(invoice) /\ invoice'[i] = new
        /\ \A j \in 1..Len(invoice) : j # i => invoice'[j] = invoice[j] BY <1>1, <1>2, <1>3, <1>4, Replaced
  <1>6. DOMAIN invoice' = 1..Len(invoice') BY <1>5, ElementsOf
  <1>7. QED BY <1>2, <1>3, <1>5, <1>6 DEF Rec, new

LEMMA BillingTypes ==
  ASSUME BillingTyped, Invoice!Next PROVE BillingTyped'
  <1> USE DEF BillingTyped, Invoice!TypeOK
  <1>a. MaxSettled \in Nat /\ Calls["billing"] \in Nat BY LimitsAssumption, BoundsAssumption DEF Areas
  <1>b. ASSUME run' \subseteq run, UNCHANGED <<settled, raced, calls>>,
               invoice' \in Seq([amount: 1..MaxSettled, status: Invoice!Status]),
               DOMAIN invoice \subseteq DOMAIN invoice'
        PROVE  BillingTyped' BY <1>b
  <1>c. ASSUME NEW op \in {"apply", "issued", "rejected"}, NEW i \in Nat, NEW a \in 0..MaxSettled,
               Invoice!Begin(op, i, a),
               IF op = "apply" THEN i = 0 /\ a > 0 ELSE i \in DOMAIN invoice
        PROVE  BillingTyped'
    <2> DEFINE new == [n |-> calls, op |-> op, i |-> i, amount |-> a]
    <2>1. new \in Invoice!Call /\ new.op = op /\ new.i = i /\ new.amount = a BY <1>a DEF Invoice!Call
    <2>2. /\ run' = run \cup {new} /\ UNCHANGED <<settled, invoice>>
          /\ calls' \in 0..Calls["billing"] BY <1>a, <1>c DEF Invoice!Begin
    <2>3. raced' \subseteq Nat BY <1>c DEF Invoice!Begin, Invoice!Call
    <2> HIDE DEF new
    <2>4. QED BY <1>c, <2>1, <2>2, <2>3
  <1>1. CASE Invoice!Settle BY <1>1, <1>a DEF Invoice!Settle
  <1>2. ASSUME NEW a \in 1..MaxSettled, Invoice!ApplyRead(a) PROVE BillingTyped'
    <2>1. Invoice!Begin("apply", 0, a) /\ a \in 0..MaxSettled /\ a > 0 BY <1>2, <1>a DEF Invoice!ApplyRead
    <2>2. QED BY <1>c, <2>1
  <1>3. ASSUME NEW i \in DOMAIN invoice, NEW v \in {"issued", "rejected"}, Invoice!DecideRead(i, v)
        PROVE  BillingTyped'
    <2>1. i \in Nat BY BilledIsSum DEF BilledAdds
    <2>2. QED BY <1>3, <1>a, <1>c, <2>1 DEF Invoice!DecideRead
  <1>4. ASSUME NEW h \in run, Invoice!ApplyWrite(h) PROVE BillingTyped'
    <2>1. h.amount \in 1..MaxSettled BY <1>4, <1>a DEF Invoice!ApplyWrite, Invoice!Call
    <2>2. PICK a \in 1..MaxSettled :
            invoice' = Append(invoice, [amount |-> a, status |-> "pending"]) BY <1>4, <2>1 DEF Invoice!ApplyWrite
    <2>3. invoice' \in Seq([amount: 1..MaxSettled, status: Invoice!Status])
          /\ DOMAIN invoice \subseteq DOMAIN invoice'
      <3>1. Len(invoice) \in Nat /\ DOMAIN invoice = 1..Len(invoice) BY BilledIsSum DEF BilledAdds
      <3> HIDE DEF BillingTyped, Invoice!TypeOK
      <3>2. /\ invoice' \in Seq([amount: 1..MaxSettled, status: Invoice!Status])
            /\ DOMAIN invoice' = 1..(Len(invoice) + 1) BY <2>2, AppliedFor
      <3>3. QED BY <3>1, <3>2
    <2>4. QED BY <1>4, <1>b, <2>3 DEF Invoice!ApplyWrite
  <1>5. ASSUME NEW h \in run, Invoice!DecideWrite(h) PROVE BillingTyped'
    <2>1. h.i \in DOMAIN invoice /\ h.op \in Invoice!Status
      BY <1>5 DEF Invoice!DecideWrite, Invoice!Call, Invoice!Status
    <2>2. invoice' \in Seq([amount: 1..MaxSettled, status: Invoice!Status])
          /\ DOMAIN invoice' = DOMAIN invoice BY <1>5, <2>1, Decided DEF Invoice!DecideWrite
    <2>3. QED BY <1>5, <1>b, <2>2 DEF Invoice!DecideWrite
  <1>6. QED BY <1>1, <1>2, <1>3, <1>4, <1>5 DEF Invoice!Next

LEMMA BillingCalmKept ==
  ASSUME BillingTyped, BillingTyped', raced = {} => BillingCalm, Invoice!Next PROVE raced' = {} => BillingCalm'
  <1> SUFFICES ASSUME raced' = {} PROVE BillingCalm' OBVIOUS
  <1>a. settled \in Nat /\ run \subseteq Invoice!Call /\ Billed \in Nat /\ Billed' \in Nat
        /\ \A h \in run : h.amount \in Nat
    <2>1. MaxSettled \in Nat /\ settled \in 0..MaxSettled /\ run \subseteq Invoice!Call
      BY LimitsAssumption DEF BillingTyped, Invoice!TypeOK
    <2>2. \A h \in run : h.amount \in 0..MaxSettled BY <2>1 DEF Invoice!Call
    <2>3. Billed \in Nat /\ Billed' \in Nat BY BilledIsSum, BilledIsSumNext DEF BilledAdds
    <2>4. QED BY <2>1, <2>2, <2>3
  <1>b. UNCHANGED invoice => Billed' = Billed BY DEF Billed, Invoice!Total
  <1>c. ASSUME NEW op, NEW i, NEW a, Invoice!Begin(op, i, a),
               IF op = "apply" THEN a \in Nat /\ Billed + a <= settled
                               ELSE invoice[i].status = "pending"
        PROVE  BillingCalm'
    <2> DEFINE new == [n |-> calls, op |-> op, i |-> i, amount |-> a]
    <2>1. new.op = op /\ new.i = i /\ new.amount = a OBVIOUS
    <2>2. run' = run \cup {new} /\ UNCHANGED <<settled, invoice>> /\ raced \subseteq raced' BY <1>c DEF Invoice!Begin
    <2>3. BillingCalm /\ \A h \in run : h.i # i BY <1>c, <2>2 DEF Invoice!Begin
    <2> HIDE DEF new
    <2>4. QED BY <1>b, <1>c, <2>1, <2>2, <2>3 DEF BillingCalm
  <1>1. CASE Invoice!Settle
    <2>1. UNCHANGED <<invoice, run>> /\ BillingCalm /\ settled' = settled + 1 BY <1>1 DEF Invoice!Settle
    <2>2. QED BY <2>1, <1>a, <1>b DEF BillingCalm
  <1>2. ASSUME NEW a \in 1..MaxSettled, Invoice!ApplyRead(a) PROVE BillingCalm'
    <2>1. a \in Nat /\ a > 0 /\ a <= Invoice!Unbilled BY <1>2, LimitsAssumption DEF Invoice!ApplyRead
    <2>2. Billed + a <= settled BY <1>a, <2>1 DEF Invoice!Unbilled, Billed
    <2>3. QED BY <1>2, <1>c, <2>1, <2>2 DEF Invoice!ApplyRead
  <1>3. ASSUME NEW i \in DOMAIN invoice, NEW v \in {"issued", "rejected"}, Invoice!DecideRead(i, v) PROVE BillingCalm'
    BY <1>3, <1>c DEF Invoice!DecideRead
  <1> DEFINE n == Len(invoice)
  <1>4. ASSUME NEW h \in run, Invoice!ApplyWrite(h) PROVE BillingCalm'
    <2>1. /\ h.op = "apply" /\ run' = run \ {h} /\ UNCHANGED <<settled, raced>> /\ BillingCalm
          /\ invoice' = Append(invoice, [amount |-> h.amount, status |-> "pending"]) BY <1>4 DEF Invoice!ApplyWrite
    <2>2. h.amount \in 1..MaxSettled BY <2>1, <1>a, LimitsAssumption DEF BillingTyped, Invoice!TypeOK, Invoice!Call
    <2>3. /\ DOMAIN invoice' = 1..(n + 1) /\ Len(invoice') = n + 1
          /\ \A i \in DOMAIN invoice : invoice'[i] = invoice[i]
          /\ invoice'[n + 1] = [amount |-> h.amount, status |-> "pending"] BY <2>1, <2>2, AppliedFor
    <2>4. n \in Nat /\ DOMAIN invoice = 1..n BY BilledIsSum DEF BilledAdds
    <2>5. /\ BilledOf'[n + 1] = h.amount
          /\ \A i \in 1..n : BilledOf[i] = BilledOf'[i] BY <2>3, <2>4 DEF BilledOf
    <2>6. Billed' = Billed + h.amount
      <3>1. Billed' = SumFunctionOnSet(BilledOf', 1..(n + 1)) /\ IsFiniteSet(1..(n + 1))
            /\ \A i \in 1..(n + 1) : BilledOf'[i] \in Int BY <2>3, <2>4, BilledIsSumNext DEF BilledAdds
      <3>2. n + 1 \in 1..(n + 1) /\ (1..(n + 1)) \ {n + 1} = 1..n BY <2>4
      <3>3. Billed' = h.amount + SumFunctionOnSet(BilledOf', 1..n) BY <2>5, <3>1, <3>2, SumTakes
      <3>4. SumFunctionOnSet(BilledOf', 1..n) = Billed BY <2>5, BilledIsSum, SameSum DEF BilledAdds
      <3>5. QED BY <1>a, <2>2, <3>3, <3>4
    <2>7. \A g \in run' : g.op # "apply" BY <2>1 DEF BillingCalm, BillingTyped
    <2>8. Billed' <= settled BY <2>1, <2>6 DEF BillingCalm
    <2>9. \A g \in run' : invoice'[g.i].status = "pending" BY <2>1, <2>3, <2>7 DEF BillingCalm, BillingTyped
    <2>10. QED BY <2>1, <2>7, <2>8, <2>9 DEF BillingCalm
  <1>5. ASSUME NEW h \in run, Invoice!DecideWrite(h) PROVE BillingCalm'
    <2>1. /\ h.op # "apply" /\ run' = run \ {h} /\ UNCHANGED <<settled, raced>> /\ BillingCalm
          /\ invoice' = [invoice EXCEPT ![h.i].status = h.op]
          /\ h.i \in DOMAIN invoice /\ h.op \in Invoice!Status
      BY <1>5, <1>a DEF Invoice!DecideWrite, BillingTyped, Invoice!Status, Invoice!Call
    <2>2. /\ DOMAIN invoice' = DOMAIN invoice /\ Len(invoice') = n
          /\ \A i \in DOMAIN invoice : i # h.i => invoice'[i] = invoice[i]
          /\ invoice'[h.i].amount = invoice[h.i].amount BY <2>1, Decided
    <2>3. n \in Nat /\ DOMAIN invoice = 1..n BY BilledIsSum DEF BilledAdds
    <2>4. invoice[h.i].status = "pending" BY <2>1 DEF BillingCalm
    <2>5. /\ \A i \in 1..n : BilledOf[i] \in Int /\ BilledOf'[i] \in Int
          /\ \A i \in (1..n) \ {h.i} : BilledOf[i] = BilledOf'[i]
          /\ BilledOf'[h.i] - BilledOf[h.i] <= 0 /\ BilledOf'[h.i] - BilledOf[h.i] \in Int
      <3>1. \A i \in 1..n : BilledOf[i] \in Nat /\ BilledOf'[i] \in Nat
        BY <2>2, BilledIsSum, BilledIsSumNext DEF BilledAdds
      <3>2. \A i \in (1..n) \ {h.i} : BilledOf[i] = BilledOf'[i] BY <2>2, <2>3 DEF BilledOf
      <3>3. BilledOf[h.i] = invoice[h.i].amount BY <2>1, <2>4 DEF BilledOf
      <3>4. BilledOf'[h.i] = invoice[h.i].amount \/ BilledOf'[h.i] = 0 BY <2>1, <2>2 DEF BilledOf
      <3>5. QED BY <2>1, <2>3, <3>1, <3>2, <3>3, <3>4
    <2>6. Billed' <= Billed
      <3>1. Billed = SumFunctionOnSet(BilledOf, 1..n) /\ Billed' = SumFunctionOnSet(BilledOf', 1..n)
            /\ IsFiniteSet(1..n) BY <2>2, BilledIsSum, BilledIsSumNext DEF BilledAdds
      <3>2. Billed' = Billed + (BilledOf'[h.i] - BilledOf[h.i])
        <4> DEFINE S == 1..n
        <4>1. h.i \in S BY <2>1, <2>3
        <4>2. \A i \in S \ {h.i} : BilledOf[i] = BilledOf'[i] BY <2>5
        <4>3. \A i \in S : BilledOf[i] \in Int /\ BilledOf'[i] \in Int BY <2>5
        <4>4. IsFiniteSet(S) BY <3>1
        <4> HIDE DEF n, S
        <4>5. SumFunctionOnSet(BilledOf', S)
                = SumFunctionOnSet(BilledOf, S) + (BilledOf'[h.i] - BilledOf[h.i])
          BY <4>1, <4>2, <4>3, <4>4, SumAfterChange
        <4>6. QED BY <3>1, <4>5 DEF S
      <3>3. QED BY <1>a, <2>5, <3>2
    <2>7. \A g \in run' : g.op # "apply" => g.i # h.i /\ invoice'[g.i].status = "pending"
      BY <2>1, <2>2 DEF BillingCalm, BillingTyped
    <2>8. \A g \in run' : g.op = "apply" => Billed' + g.amount <= settled BY <1>a, <2>1, <2>6 DEF BillingCalm
    <2>9. Billed' <= settled BY <1>a, <2>1, <2>6 DEF BillingCalm
    <2>10. QED BY <2>1, <2>7, <2>8, <2>9 DEF BillingCalm
  <1>6. QED BY <1>1, <1>2, <1>3, <1>4, <1>5 DEF Invoice!Next

LEMMA BillingInvariant == Spec => [](area = "billing" => BillingInv)
  <1>1. Init => (area = "billing" => BillingInv)
    <2> SUFFICES ASSUME Init PROVE BillingInv OBVIOUS
    <2>1. /\ settled = 0 /\ invoice = << >> /\ run = {} /\ raced = {} /\ calls = 0
          /\ MaxSettled \in Nat /\ Calls["billing"] \in Nat
      BY LimitsAssumption, BoundsAssumption DEF Init, Invoice!Init, Areas
    <2>2. BillingTyped BY <2>1 DEF BillingTyped, Invoice!TypeOK
    <2>3. Billed = 0
      <3>1. 1..Len(invoice) = {} BY <2>1
      <3>2. QED BY <2>2, <3>1, BilledIsSum, FS_EmptySet, SumOf DEF BilledAdds
    <2>4. QED BY <2>1, <2>2, <2>3 DEF BillingInv, BillingCalm
  <1>2. (area = "billing" => BillingInv) /\ [Next]_vars => (area = "billing" => BillingInv)'
    <2> SUFFICES ASSUME area = "billing", BillingInv, [Next]_vars PROVE BillingInv' BY DEF Next, vars
    <2>1. CASE Invoice!Next BY <2>1, BillingTypes, BillingCalmKept DEF BillingInv
    <2>2. CASE UNCHANGED Billing
      BY <2>2 DEF Billing, BillingInv, BillingTyped, Invoice!TypeOK, BillingCalm, Billed, Invoice!Total
    <2>3. QED BY <2>1, <2>2, BillingStep
  <1>3. QED BY <1>1, <1>2, PTL DEF Spec

\* A company is never invoiced for more than it has settled, unless calls overlapped.
THEOREM BilledAtMostSettled == Spec => []BilledWithinSettled
  <1>1. (area = "billing" => BillingInv) => BilledWithinSettled
    BY DEF BillingInv, BillingCalm, Billed, BilledWithinSettled, Invoice!BilledWithinSettled
  <1>2. QED BY <1>1, BillingInvariant, PTL

------------
(* Companies *)

LEMMA FirmStep ==
  ASSUME area = "companies", [Next]_vars PROVE area' = "companies" /\ (Firm!Next \/ UNCHANGED Companies)
  BY DEF Next, vars, Companies, companies

LEMMA FirmCalls ==
  /\ \A n \in Nat, f \in Firms, op \in {"register", "login"} \cup Firm!Rulings,
        step \in {"write", "log"} :
       [n |-> n, op |-> op, on |-> f, step |-> step] \in Firm!Call
  /\ \A h \in Firm!Call :
       /\ h.on \in Firms /\ h.op \in {"register", "login"} \cup Firm!Rulings
       /\ h.step \in {"write", "log"}
       /\ [h EXCEPT !.step = "log"] \in Firm!Call
       /\ [h EXCEPT !.step = "log"].op = h.op /\ [h EXCEPT !.step = "log"].on = h.on
       /\ [h EXCEPT !.step = "log"].step = "log" BY DEF Firm!Call

LEMMA FirmTypes ==
  ASSUME FirmTyped, Firm!Next PROVE FirmTyped'
  <1> USE DEF FirmTyped, Firm!TypeOK, Firm!Keeps, Firm!platform, Firm!page, Firm!tokens
  <1>a. Calls["companies"] \in Nat /\ MaxFaults \in Nat BY BoundsAssumption DEF Areas
  <1>b. ASSUME NEW op \in {"register", "login"} \cup Firm!Rulings, NEW f \in Firms,
               NEW step \in {"write", "log"}, Firm!Begin(op, f, step),
               step = "log" <=> op = "reject"
        PROVE  FirmTyped'
    <2>1. calls \in Nat /\ calls' \in 0..Calls["companies"] BY <1>a, <1>b DEF Firm!Begin
    <2> DEFINE new == [n |-> calls, op |-> op, on |-> f, step |-> step]
    <2>2. new \in Firm!Call /\ new.op = op /\ new.step = step BY <2>1, FirmCalls
    <2>3. raced' \subseteq Firms BY <1>b, FirmCalls DEF Firm!Begin
    <2>4. run' = run \cup {new} /\ UNCHANGED <<Firm!platform, Firm!page, Firm!tokens, faults>> BY <1>b DEF Firm!Begin
    <2>5. op = "reject" => op \in Firm!Rulings BY DEF Firm!Rulings
    <2> HIDE DEF new
    <2>6. QED BY <1>b, <2>1, <2>2, <2>3, <2>4, <2>5
  <1>1. ASSUME NEW f \in Firms, Firm!RegisterRead(f) \/ Firm!LoginRead(f) PROVE FirmTyped'
    BY <1>1, <1>b DEF Firm!RegisterRead, Firm!LoginRead
  <1>2. ASSUME NEW f \in Firms, NEW op \in Firm!Rulings, Firm!RulingRead(f, op) PROVE FirmTyped'
    BY <1>2, <1>b DEF Firm!RulingRead
  <1>3. ASSUME NEW f \in Firms, \/ Firm!SetStatus(f) \/ Firm!RenewRead(f)
                                \/ Firm!RenewAnswer(f) \/ Firm!Expire(f)
        PROVE  FirmTyped' BY <1>3 DEF Firm!SetStatus, Firm!RenewRead, Firm!RenewAnswer, Firm!Expire
  <1>4. CASE Firm!Load BY <1>4 DEF Firm!Load
  <1>5. ASSUME NEW table \in loads, Firm!ShowList(table) PROVE FirmTyped' BY <1>5 DEF Firm!ShowList
  <1>6. ASSUME NEW h \in run, Firm!RegisterWrite(h) PROVE FirmTyped'
    BY <1>6 DEF Firm!RegisterWrite, Firm!Ends, Firm!Status
  <1>7. ASSUME NEW h \in run, Firm!RulingWrite(h) PROVE FirmTyped'
    <2> DEFINE new == [h EXCEPT !.step = "log"]
    <2>1. /\ new \in Firm!Call /\ new.op \in Firm!Rulings /\ new.step = "log"
          /\ run' = (run \ {h}) \cup {new} BY <1>7, FirmCalls DEF Firm!RulingWrite
    <2>2. firm' \in [Firms -> Firm!Status] /\ approved' \in [Firms -> BOOLEAN]
      BY <1>7 DEF Firm!RulingWrite, Firm!Status
    <2> HIDE DEF new
    <2>3. QED BY <1>7, <2>1, <2>2 DEF Firm!RulingWrite
  <1>8. ASSUME NEW h \in run, Firm!Log(h) PROVE FirmTyped' BY <1>8 DEF Firm!Log, Firm!Ends
  <1>9. ASSUME NEW h \in run, Firm!LoginWrite(h) PROVE FirmTyped' BY <1>9 DEF Firm!LoginWrite, Firm!Ends
  <1>10. ASSUME NEW h \in run, Firm!Stop(h) PROVE FirmTyped'
    <2>1. h.on \in Firms BY FirmCalls
    <2>2. QED BY <1>10, <1>a, <2>1 DEF Firm!Stop, Firm!Ends
  <1>11. QED BY <1>1, <1>2, <1>3, <1>4, <1>5, <1>6, <1>7, <1>8, <1>9, <1>10 DEF Firm!Next

LEMMA ApprovalKept ==
  ASSUME FirmTyped, Approval, Firm!Next PROVE Approval'
  <1> USE DEF Firm!Keeps, Firm!platform, Firm!page, Firm!tokens
  <1>a. /\ firm \in [Firms -> Firm!Status] /\ approved \in [Firms -> BOOLEAN]
        /\ seen \in [Firms -> Firm!Status] /\ run \subseteq Firm!Call BY DEF FirmTyped, Firm!TypeOK
  <1>b. ASSUME UNCHANGED <<firm, approved, seen, loads>>, run' \subseteq run PROVE Approval' BY <1>b DEF Approval
  <1>c. ASSUME NEW op, NEW f \in Firms, NEW step, Firm!Begin(op, f, step),
               op \in {"freeze", "unfreeze"} => approved[f]
        PROVE  Approval'
    <2> DEFINE new == [n |-> calls, op |-> op, on |-> f, step |-> step]
    <2>1. run' = run \cup {new} /\ UNCHANGED <<firm, approved, seen, loads>> BY <1>c DEF Firm!Begin
    <2>2. new.op = op /\ new.on = f OBVIOUS
    <2> HIDE DEF new
    <2>3. QED BY <1>c, <2>1, <2>2 DEF Approval
  <1>1. ASSUME NEW f \in Firms, Firm!RegisterRead(f) \/ Firm!LoginRead(f) PROVE Approval'
    BY <1>1, <1>c DEF Firm!RegisterRead, Firm!LoginRead
  <1>2. ASSUME NEW f \in Firms, NEW op \in Firm!Rulings, Firm!RulingRead(f, op) PROVE Approval'
    <2>1. op = "freeze" => seen[f] = "active" BY <1>2, <1>a DEF Firm!RulingRead, Firm!Link
    <2>2. op = "unfreeze" => seen[f] = "suspended" BY <1>2, <1>a DEF Firm!RulingRead, Firm!Link
    <2>3. op \in {"freeze", "unfreeze"} => approved[f] BY <2>1, <2>2 DEF Approval
    <2>4. QED BY <1>2, <1>c, <2>3 DEF Firm!RulingRead
  <1>3. ASSUME NEW f \in Firms, \/ Firm!SetStatus(f) \/ Firm!RenewRead(f)
                                \/ Firm!RenewAnswer(f) \/ Firm!Expire(f)
        PROVE  Approval' BY <1>3, <1>b DEF Firm!SetStatus, Firm!RenewRead, Firm!RenewAnswer, Firm!Expire
  <1>4. CASE Firm!Load BY <1>4 DEF Firm!Load, Approval
  <1>5. ASSUME NEW table \in loads, Firm!ShowList(table) PROVE Approval' BY <1>5 DEF Firm!ShowList, Approval
  <1>6. ASSUME NEW h \in run, Firm!RegisterWrite(h) PROVE Approval'
    <2>1. \A f \in Firms : firm'[f] \in {"active", "suspended"} => firm[f] \in {"active", "suspended"}
      BY <1>6, <1>a DEF Firm!RegisterWrite
    <2>2. UNCHANGED <<approved, seen, loads>> /\ run' \subseteq run BY <1>6 DEF Firm!RegisterWrite, Firm!Ends
    <2>3. QED BY <2>1, <2>2 DEF Approval
  <1>7. ASSUME NEW h \in run, Firm!RulingWrite(h) PROVE Approval'
    <2> DEFINE new == [h EXCEPT !.step = "log"]
    <2>1. new.op = h.op /\ new.on = h.on /\ h.on \in Firms /\ h.op \in Firm!Rulings
      BY <1>7, <1>a, FirmCalls DEF Firm!RulingWrite
    <2>2. run' = (run \ {h}) \cup {new} /\ UNCHANGED <<seen, loads>> BY <1>7 DEF Firm!RulingWrite
    <2>3. h.op = "approve" \/ approved[h.on]
      <3>1. h.op \in {"freeze", "unfreeze"} => approved[h.on] BY DEF Approval
      <3>2. CASE h.op = "reject" BY <1>7, <3>2 DEF Firm!RulingWrite, FirmTyped
      <3>3. QED BY <2>1, <3>1, <3>2 DEF Firm!Rulings
    <2>4. \A f \in Firms : /\ approved[f] => approved'[f]
                           /\ f # h.on => firm'[f] = firm[f] BY <1>7, <1>a, <2>1 DEF Firm!RulingWrite
    <2>5. approved'[h.on] BY <1>7, <1>a, <2>1, <2>3 DEF Firm!RulingWrite
    <2> HIDE DEF new
    <2>6. \A g \in run' : g.op \in {"freeze", "unfreeze"} => approved'[g.on]
      <3>1. \A g \in run : g.on \in Firms BY <1>a, FirmCalls
      <3>2. QED BY <2>1, <2>2, <2>4, <3>1 DEF Approval
    <2>7. QED BY <2>2, <2>4, <2>5, <2>6 DEF Approval
  <1>8. ASSUME NEW h \in run, Firm!Log(h) \/ Firm!LoginWrite(h) \/ Firm!Stop(h) PROVE Approval'
    BY <1>8, <1>b DEF Firm!Log, Firm!LoginWrite, Firm!Stop, Firm!Ends
  <1>9. QED BY <1>1, <1>2, <1>3, <1>4, <1>5, <1>6, <1>7, <1>8 DEF Firm!Next

\* What a step leaves alone of a company.
LEMMA FirmElsewhere ==
  ASSUME NEW f, FirmCalm(f), firm'[f] = firm[f], logged'[f] = logged[f],
         \A h : h \in run' /\ h.op \in Firm!Rulings /\ h.on = f
                  <=> h \in run /\ h.op \in Firm!Rulings /\ h.on = f
  PROVE  FirmCalm(f)'
  <1>1. /\ \A h \in run' : h.op \in Firm!Rulings /\ h.on = f => h \in run
        /\ \A h \in run : h.op \in Firm!Rulings /\ h.on = f => h \in run' OBVIOUS
  <1>2. LogAgrees(f)' = LogAgrees(f) BY DEF LogAgrees
  <1>3. \A h, g : {h.op, g.op} \subseteq Firm!Rulings <=> h.op \in Firm!Rulings /\ g.op \in Firm!Rulings OBVIOUS
  <1>4. QED BY <1>1, <1>2, <1>3 DEF FirmCalm

LEMMA FirmCalmKept ==
  ASSUME FirmTyped, \A f \in Firms \ raced : FirmCalm(f), Firm!Next PROVE \A f \in Firms \ raced' : FirmCalm(f)'
  <1> SUFFICES ASSUME NEW f \in Firms, f \notin raced' PROVE FirmCalm(f)' OBVIOUS
  <1> USE DEF Firm!Keeps, Firm!platform, Firm!page, Firm!tokens
  <1>a. /\ firm \in [Firms -> Firm!Status] /\ logged \in [Firms -> Firm!Rulings \cup {"none"}]
        /\ run \subseteq Firm!Call
        /\ \A h \in run : h.on \in Firms BY FirmCalls DEF FirmTyped, Firm!TypeOK
  <1>b. ASSUME raced \subseteq raced' PROVE FirmCalm(f) BY <1>b
  <1>c. ASSUME NEW op, NEW x \in Firms, NEW step, Firm!Begin(op, x, step),
               op \in Firm!Rulings =>
                 /\ Firm!Possible(op, firm[x]) /\ step = (IF op = "reject" THEN "log" ELSE "write")
        PROVE  FirmCalm(f)'
    <2> DEFINE new == [n |-> calls, op |-> op, on |-> x, step |-> step]
    <2>1. run' = run \cup {new} /\ UNCHANGED <<firm, logged>> /\ raced \subseteq raced' BY <1>c DEF Firm!Begin
    <2>2. new.op = op /\ new.on = x /\ new.step = step OBVIOUS
    <2>3. op \in Firm!Rulings /\ x = f => \A g \in run : g.on = f => g.op \notin Firm!Rulings BY <1>c DEF Firm!Begin
    <2> HIDE DEF new
    <2>4. CASE op \in Firm!Rulings /\ x = f
      <3>1. LogAgrees(f) /\ \A h \in run' : h.op \in Firm!Rulings /\ h.on = f => h = new
        BY <1>b, <2>1, <2>2, <2>3, <2>4 DEF FirmCalm
      <3>2. LogAgrees(f)' /\ firm'[f] = firm[f] BY <2>1, <3>1 DEF LogAgrees
      <3>3. op = "reject" => firm[f] = "pending" BY <1>c, <2>4 DEF Firm!Possible
      <3>4. CASE op = "reject"
        <4>1. new.step = "log" /\ new.op = "reject" BY <1>c, <2>2, <2>4, <3>4
        <4>2. QED BY <2>1, <2>2, <2>4, <3>1, <3>2, <3>3, <4>1 DEF FirmCalm
      <3>5. CASE op # "reject"
        <4>1. new.step = "write" /\ Firm!Possible(new.op, firm'[f]) BY <1>c, <2>2, <2>4, <3>2, <3>5
        <4>2. QED BY <2>1, <2>2, <2>4, <3>1, <3>2, <4>1 DEF FirmCalm
      <3>6. QED BY <3>4, <3>5
    <2>5. CASE ~ (op \in Firm!Rulings /\ x = f) BY <1>b, <2>1, <2>2, <2>5, FirmElsewhere
    <2>6. QED BY <2>4, <2>5
  <1>1. ASSUME NEW x \in Firms, Firm!RegisterRead(x) \/ Firm!LoginRead(x) PROVE FirmCalm(f)'
    BY <1>1, <1>c DEF Firm!RegisterRead, Firm!LoginRead, Firm!Rulings
  <1>2. ASSUME NEW x \in Firms, NEW op \in Firm!Rulings, Firm!RulingRead(x, op) PROVE FirmCalm(f)'
    BY <1>2, <1>c DEF Firm!RulingRead
  <1>3. ASSUME UNCHANGED <<firm, logged, run, raced>> PROVE FirmCalm(f)' BY <1>3, <1>b, FirmElsewhere
  <1>4. ASSUME NEW x \in Firms, \/ Firm!SetStatus(x) \/ Firm!RenewRead(x)
                                \/ Firm!RenewAnswer(x) \/ Firm!Expire(x)
        PROVE  FirmCalm(f)' BY <1>4, <1>3 DEF Firm!SetStatus, Firm!RenewRead, Firm!RenewAnswer, Firm!Expire
  <1>5. ASSUME NEW table, Firm!Load \/ Firm!ShowList(table) PROVE FirmCalm(f)'
    BY <1>5, <1>3 DEF Firm!Load, Firm!ShowList
  <1>6. ASSUME NEW h \in run, Firm!RegisterWrite(h) PROVE FirmCalm(f)'
    <2>1. /\ FirmCalm(f) /\ run' = run \ {h} /\ h.op \notin Firm!Rulings /\ logged' = logged
          /\ firm' = [firm EXCEPT ![h.on] = IF @ = "none" THEN "pending" ELSE @]
      BY <1>6, <1>b DEF Firm!RegisterWrite, Firm!Ends, Firm!Rulings
    <2>2. CASE firm'[f] = firm[f] BY <2>1, <2>2, FirmElsewhere
    <2>3. CASE firm'[f] # firm[f]
      <3>1. firm[f] = "none" /\ firm'[f] = "pending" BY <2>1, <2>3, <1>a
      <3>2. LogAgrees(f) => LogAgrees(f)' BY <2>1, <3>1 DEF LogAgrees
      <3>3. \A g \in run : g.op \in Firm!Rulings => g.on # f BY <2>1, <3>1 DEF FirmCalm, Firm!Possible, Firm!Rulings
      <3>4. QED BY <2>1, <3>2, <3>3 DEF FirmCalm
    <2>4. QED BY <2>2, <2>3
  <1>7. ASSUME NEW h \in run, Firm!RulingWrite(h) PROVE FirmCalm(f)'
    <2> DEFINE new == [h EXCEPT !.step = "log"]
               to == IF h.op = "freeze" THEN "suspended" ELSE "active"
    <2>1. new.op = h.op /\ new.on = h.on /\ new.step = "log" /\ h.on \in Firms BY <1>a, FirmCalls
    <2>2. /\ run' = (run \ {h}) \cup {new} /\ logged' = logged /\ FirmCalm(f)
          /\ firm' = [firm EXCEPT ![h.on] = to] /\ h.op \in Firm!Rulings /\ h.op # "reject"
      BY <1>7, <1>b DEF Firm!RulingWrite, FirmTyped
    <2> HIDE DEF new
    <2>3. CASE h.on = f
      <3>1. \A g \in run' : g.op \in Firm!Rulings /\ g.on = f => g = new BY <2>1, <2>2, <2>3 DEF FirmCalm
      <3>2. firm'[f] = to /\ new \in run' BY <2>2, <2>3, <1>a
      <3>3. QED BY <2>1, <2>2, <2>3, <3>1, <3>2 DEF FirmCalm
    <2>4. CASE h.on # f
      <3>1. firm'[f] = firm[f] BY <2>2, <2>4, <1>a
      <3>2. QED BY <2>1, <2>2, <2>4, <3>1, FirmElsewhere
    <2>5. QED BY <2>3, <2>4
  <1>8. ASSUME NEW h \in run, Firm!Log(h) PROVE FirmCalm(f)'
    <2>1. /\ run' = run \ {h} /\ firm' = firm /\ FirmCalm(f) /\ h.step = "log"
          /\ logged' = [logged EXCEPT ![h.on] = h.op] /\ h.on \in Firms /\ h.op \in Firm!Rulings
      BY <1>8, <1>a, <1>b DEF Firm!Log, Firm!Ends, FirmTyped
    <2>2. CASE h.on = f
      <3>1. \A g \in run' : g.on = f => g.op \notin Firm!Rulings BY <2>1, <2>2 DEF FirmCalm
      <3>2. firm[f] = CASE h.op = "reject" -> "pending" [] h.op = "freeze" -> "suspended"
                        [] OTHER -> "active" BY <2>1, <2>2 DEF FirmCalm
      <3>3. logged'[f] = h.op BY <2>1, <2>2, <1>a
      <3>4. LogAgrees(f)' BY <2>1, <3>2, <3>3 DEF LogAgrees, Firm!Rulings
      <3>5. QED BY <3>1, <3>4 DEF FirmCalm
    <2>3. CASE h.on # f
      <3>1. logged'[f] = logged[f] BY <2>1, <2>3, <1>a
      <3>2. QED BY <2>1, <2>3, <3>1, FirmElsewhere
    <2>4. QED BY <2>2, <2>3
  <1>9. ASSUME NEW h \in run, Firm!LoginWrite(h) PROVE FirmCalm(f)'
    <2>1. /\ FirmCalm(f) /\ run' = run \ {h} /\ h.op \notin Firm!Rulings
          /\ UNCHANGED <<firm, logged>> BY <1>9, <1>b DEF Firm!LoginWrite, Firm!Ends, Firm!Rulings
    <2>2. QED BY <2>1, FirmElsewhere
  <1>10. ASSUME NEW h \in run, Firm!Stop(h) PROVE FirmCalm(f)'
    <2>1. FirmCalm(f) /\ run' = run \ {h} /\ UNCHANGED <<firm, logged>>
          /\ (h.step = "log" => h.on # f) BY <1>10, <1>b DEF Firm!Stop, Firm!Ends
    <2>2. CASE h.op \in Firm!Rulings /\ h.on = f
      <3>1. h.step = "write" BY <2>1, <2>2, <1>a, FirmCalls
      <3>2. LogAgrees(f) /\ \A g \in run' : g.on = f => g.op \notin Firm!Rulings BY <2>1, <2>2, <3>1 DEF FirmCalm
      <3>3. LogAgrees(f)' BY <2>1, <3>2 DEF LogAgrees
      <3>4. QED BY <3>2, <3>3 DEF FirmCalm
    <2>3. CASE ~ (h.op \in Firm!Rulings /\ h.on = f) BY <2>1, <2>3, FirmElsewhere
    <2>4. QED BY <2>2, <2>3
  <1>11. QED BY <1>1, <1>2, <1>4, <1>5, <1>6, <1>7, <1>8, <1>9, <1>10 DEF Firm!Next

LEMMA FirmInvariant == Spec => [](area = "companies" => FirmInv)
  <1>1. Init => (area = "companies" => FirmInv)
    <2> SUFFICES ASSUME Init PROVE FirmInv OBVIOUS
    <2> USE DEF Init, Firm!Init
    <2>1. FirmTyped BY BoundsAssumption DEF FirmTyped, Firm!TypeOK, Firm!Status, Areas
    <2>2. Approval BY DEF Approval
    <2>3. \A f \in Firms : FirmCalm(f) BY DEF FirmCalm, LogAgrees
    <2>4. QED BY <2>1, <2>2, <2>3 DEF FirmInv
  <1>2. (area = "companies" => FirmInv) /\ [Next]_vars => (area = "companies" => FirmInv)'
    <2> SUFFICES ASSUME area = "companies", FirmInv, [Next]_vars PROVE FirmInv' BY DEF Next, vars
    <2>1. CASE Firm!Next BY <2>1, FirmTypes, ApprovalKept, FirmCalmKept DEF FirmInv
    <2>2. CASE UNCHANGED Companies
      BY <2>2 DEF Companies, FirmInv, FirmTyped, Firm!TypeOK, Approval, FirmCalm, LogAgrees
    <2>3. QED BY <2>1, <2>2, FirmStep
  <1>3. QED BY <1>1, <1>2, PTL DEF Spec

\* A company at work was approved, and the log tells what became of it.
LEMMA CompaniesKept ==
  FirmInv => Firm!TypeOK /\ Firm!ActiveWasApproved /\ Firm!LogTellsStatusUnlessRaced
  BY DEF FirmInv, FirmTyped, Approval, FirmCalm, LogAgrees, Firm!ActiveWasApproved, Firm!LogTellsStatusUnlessRaced

------------
(* Check-ins *)

LEMMA DayStep ==
  ASSUME area = "attendance", [Next]_vars PROVE area' = "attendance" /\ (Checkin!Next \/ UNCHANGED Attendance)
  BY DEF Next, vars, Attendance, attendance

LEMMA DayTypes ==
  ASSUME Checkin!TypeOK, Checkin!Next PROVE Checkin!TypeOK'
  <1> USE DEF Checkin!TypeOK, Checkin!dayVars
  <1>a. /\ Calls["attendance"] \in Nat /\ MaxFaults \in Nat /\ LastDay \in Nat /\ calls \in Nat
        /\ faults \in Nat BY BoundsAssumption, LimitsAssumption DEF Areas
  <1>b. \A h \in run : h.days \in SUBSET Checkin!Days /\
          h.op \in {"checkin", "checkout", "confirmed", "rejected", "auto_confirmed"} BY DEF Checkin!Call
  <1>c. ASSUME NEW op \in {"checkin", "checkout", "confirmed", "rejected"},
               NEW d \in Checkin!Days, Checkin!Begin(op, d), raced' \subseteq Checkin!Days
        PROVE  Checkin!TypeOK'
    <2>1. [n |-> calls, op |-> op, days |-> {d}] \in Checkin!Call BY <1>a DEF Checkin!Call
    <2>2. calls' \in 0..Calls["attendance"] BY <1>a, <1>c DEF Checkin!Begin
    <2>3. QED BY <1>c, <2>1, <2>2 DEF Checkin!Begin
  <1>d. ASSUME NEW days, Checkin!NoteRace(days) PROVE raced' \subseteq Checkin!Days BY <1>b, <1>d DEF Checkin!NoteRace
  <1>e. ASSUME NEW days, NEW to \in Checkin!Status, Checkin!Decide(days, to)
        PROVE  row' \in [Checkin!Days -> Checkin!Status] /\ decided' \in [Checkin!Days -> Nat]
    BY <1>e DEF Checkin!Decide
  <1>1. ASSUME NEW d \in Checkin!Days, Checkin!CheckinRead(d) \/ Checkin!CheckoutRead(d) PROVE Checkin!TypeOK'
    BY <1>1, <1>c DEF Checkin!CheckinRead, Checkin!CheckoutRead
  <1>2. ASSUME NEW d \in Checkin!Days, NEW v \in {"confirmed", "rejected"}, Checkin!ConfirmRead(d, v)
        PROVE  Checkin!TypeOK' BY <1>2, <1>c, <1>d DEF Checkin!ConfirmRead
  <1>3. ASSUME NEW h \in run, Checkin!CheckinWrite(h) PROVE Checkin!TypeOK'
    <2> DEFINE new == {d \in h.days : row[d] = "none"}
    <2>1. new \subseteq Checkin!Days BY <1>b
    <2>2. /\ row' = [d \in Checkin!Days |-> IF d \in new THEN "pending" ELSE row[d]]
          /\ excused' = excused \cup {d \in new : d # today} /\ run' = run \ {h}
          /\ UNCHANGED <<today, open, out, slept, decided, raced, calls, faults>> BY <1>3 DEF Checkin!CheckinWrite
    <2> HIDE DEF new
    <2>3. row' \in [Checkin!Days -> Checkin!Status] BY <2>2 DEF Checkin!Status
    <2>4. excused' \subseteq Checkin!Days BY <2>1, <2>2
    <2>5. QED BY <2>2, <2>3, <2>4
  <1>4. ASSUME NEW h \in run, Checkin!CheckoutWrite(h) PROVE Checkin!TypeOK' BY <1>4, <1>b DEF Checkin!CheckoutWrite
  <1>5. ASSUME NEW h \in run, Checkin!ConfirmWrite(h) \/ Checkin!NightWrite(h) PROVE Checkin!TypeOK'
    <2>1. Checkin!Decide(h.days, h.op) /\ h.op \in Checkin!Status
      BY <1>5 DEF Checkin!ConfirmWrite, Checkin!NightWrite, Checkin!Status
    <2>2. row' \in [Checkin!Days -> Checkin!Status] /\ decided' \in [Checkin!Days -> Nat] BY <1>e, <2>1
    <2>3. QED BY <1>5, <2>2 DEF Checkin!ConfirmWrite, Checkin!NightWrite
  <1>6. CASE Checkin!NightRead
    <2> DEFINE missed == {d \in Checkin!Days : d = today - 1 /\ row[d] = "pending"}
    <2>1. /\ Checkin!NoteRace(missed) /\ UNCHANGED <<today, Checkin!dayVars, decided, excused, calls, faults>>
          /\ \/ slept' = slept \cup {today} /\ UNCHANGED run
             \/ /\ run' = run \cup {[n |-> -1, op |-> "auto_confirmed", days |-> missed]}
                /\ UNCHANGED slept BY <1>6 DEF Checkin!NightRead
    <2>2. [n |-> -1, op |-> "auto_confirmed", days |-> missed] \in Checkin!Call BY DEF Checkin!Call
    <2>3. raced' \subseteq Checkin!Days BY <1>d, <2>1
    <2> HIDE DEF missed
    <2>4. QED BY <2>1, <2>2, <2>3
  <1>7. CASE Checkin!NightFail BY <1>7, <1>a DEF Checkin!NightFail
  <1>8. CASE Checkin!Tomorrow BY <1>8, <1>a DEF Checkin!Tomorrow, Checkin!Days
  <1>9. CASE Checkin!Close BY <1>9 DEF Checkin!Close
  <1>10. QED BY <1>1, <1>2, <1>3, <1>4, <1>5, <1>6, <1>7, <1>8, <1>9 DEF Checkin!Next

LEMMA DayCalmKept ==
  ASSUME Checkin!TypeOK, \A d \in Checkin!Days \ raced : DayCalm(d), Checkin!Next
  PROVE  \A d \in Checkin!Days \ raced' : DayCalm(d)'
  <1> SUFFICES ASSUME NEW d \in Checkin!Days, d \notin raced' PROVE DayCalm(d)' OBVIOUS
  <1> USE DEF Checkin!dayVars
  <1>a. /\ row \in [Checkin!Days -> Checkin!Status] /\ decided \in [Checkin!Days -> Nat]
        /\ run \subseteq Checkin!Call BY DEF Checkin!TypeOK
  <1>b. ASSUME raced \subseteq raced' PROVE DayCalm(d) BY <1>b
  <1>c. ASSUME UNCHANGED <<row, decided, raced>>, run' \subseteq run PROVE DayCalm(d)' BY <1>b, <1>c DEF DayCalm
  <1>d. ASSUME NEW new, run' = run \cup {new}, UNCHANGED <<row, decided>>, raced \subseteq raced',
               Checkin!Decision(new) => /\ Checkin!NoteRace(new.days)
                                        /\ d \in new.days => row[d] = "pending"
        PROVE  DayCalm(d)'
    <2>1. DayCalm(d) BY <1>b, <1>d
    <2>2. Checkin!Decision(new) /\ d \in new.days
            => \A h \in run : Checkin!Decision(h) => d \notin h.days BY <1>d DEF Checkin!NoteRace
    <2>3. QED BY <1>d, <2>1, <2>2 DEF DayCalm
  <1>1. ASSUME NEW x \in Checkin!Days, Checkin!CheckinRead(x) \/ Checkin!CheckoutRead(x) PROVE DayCalm(d)'
    <2>1. PICK op \in {"checkin", "checkout"} : Checkin!Begin(op, x) /\ UNCHANGED raced
      BY <1>1 DEF Checkin!CheckinRead, Checkin!CheckoutRead
    <2> DEFINE new == [n |-> calls, op |-> op, days |-> {x}]
    <2>2. run' = run \cup {new} /\ UNCHANGED <<row, decided>> /\ ~ Checkin!Decision(new)
      BY <2>1 DEF Checkin!Begin, Checkin!Decision
    <2> HIDE DEF new
    <2>3. QED BY <1>d, <2>1, <2>2
  <1>2. ASSUME NEW x \in Checkin!Days, NEW v \in {"confirmed", "rejected"}, Checkin!ConfirmRead(x, v)
        PROVE  DayCalm(d)'
    <2> DEFINE new == [n |-> calls, op |-> v, days |-> {x}]
    <2>1. run' = run \cup {new} /\ UNCHANGED <<row, decided>> /\ raced \subseteq raced'
      BY <1>2 DEF Checkin!ConfirmRead, Checkin!Begin, Checkin!NoteRace
    <2>2. new.days = {x} /\ Checkin!NoteRace({x}) /\ row[x] = "pending" BY <1>2 DEF Checkin!ConfirmRead
    <2> HIDE DEF new
    <2>3. QED BY <1>d, <2>1, <2>2
  <1>3. ASSUME NEW h \in run, Checkin!CheckinWrite(h) PROVE DayCalm(d)'
    <2>1. DayCalm(d) /\ run' = run \ {h} /\ decided' = decided BY <1>3, <1>b DEF Checkin!CheckinWrite
    <2>2. row'[d] = row[d] \/ (row[d] = "none" /\ row'[d] = "pending") BY <1>3 DEF Checkin!CheckinWrite
    <2>3. QED BY <2>1, <2>2 DEF DayCalm
  <1>4. ASSUME NEW h \in run, Checkin!CheckoutWrite(h) PROVE DayCalm(d)' BY <1>4, <1>c DEF Checkin!CheckoutWrite
  <1>5. ASSUME NEW h \in run, Checkin!ConfirmWrite(h) \/ Checkin!NightWrite(h) PROVE DayCalm(d)'
    <2>1. /\ DayCalm(d) /\ run' = run \ {h} /\ Checkin!Decide(h.days, h.op)
          /\ Checkin!Decision(h) /\ h.op \notin {"none", "pending"}
      BY <1>5, <1>b DEF Checkin!ConfirmWrite, Checkin!NightWrite, Checkin!Decision
    <2>2. CASE d \in h.days
      <3>1. row'[d] = h.op /\ decided'[d] = decided[d] + 1 BY <2>1, <2>2 DEF Checkin!Decide
      <3>2. decided[d] = 0 /\ \A g \in run' : Checkin!Decision(g) => d \notin g.days BY <2>1, <2>2 DEF DayCalm
      <3>3. QED BY <2>1, <3>1, <3>2 DEF DayCalm
    <2>3. CASE d \notin h.days
      <3>1. row'[d] = row[d] /\ decided'[d] = decided[d] BY <2>1, <2>3 DEF Checkin!Decide
      <3>2. QED BY <2>1, <3>1 DEF DayCalm
    <2>4. QED BY <2>2, <2>3
  <1>6. CASE Checkin!NightRead
    <2> DEFINE missed == {x \in Checkin!Days : x = today - 1 /\ row[x] = "pending"}
               new == [n |-> -1, op |-> "auto_confirmed", days |-> missed]
    <2>1. /\ Checkin!NoteRace(missed) /\ UNCHANGED <<row, decided>>
          /\ run' = run \/ run' = run \cup {new} BY <1>6 DEF Checkin!NightRead
    <2>2. new.days = missed /\ raced \subseteq raced' BY <2>1 DEF Checkin!NoteRace
    <2>3. d \in missed => row[d] = "pending" OBVIOUS
    <2> HIDE DEF new, missed
    <2>4. CASE run' = run BY <1>b, <2>1, <2>2, <2>4 DEF DayCalm
    <2>5. CASE run' = run \cup {new} BY <1>d, <2>1, <2>2, <2>3, <2>5
    <2>6. QED BY <2>1, <2>4, <2>5
  <1>7. ASSUME Checkin!NightFail \/ Checkin!Tomorrow \/ Checkin!Close PROVE DayCalm(d)'
    BY <1>7, <1>c DEF Checkin!NightFail, Checkin!Tomorrow, Checkin!Close
  <1>8. QED
    <2>1. CASE \E x \in Checkin!Days : Checkin!CheckinRead(x) \/ Checkin!CheckoutRead(x) BY <1>1, <2>1
    <2>2. CASE \E x \in Checkin!Days, v \in {"confirmed", "rejected"} : Checkin!ConfirmRead(x, v) BY <1>2, <2>2
    <2>3. CASE \E h \in run : \/ Checkin!CheckinWrite(h) \/ Checkin!CheckoutWrite(h)
                              \/ Checkin!ConfirmWrite(h) \/ Checkin!NightWrite(h) BY <1>3, <1>4, <1>5, <2>3
    <2>4. CASE Checkin!NightRead \/ Checkin!NightFail \/ Checkin!Tomorrow \/ Checkin!Close BY <1>6, <1>7, <2>4
    <2>5. QED BY <2>1, <2>2, <2>3, <2>4 DEF Checkin!Next

LEMMA DaysInvariant == Spec => [](area = "attendance" => DaysInv)
  <1>0. 1 \in Checkin!Days /\ Calls["attendance"] \in Nat /\ MaxFaults \in Nat
    <2>1. 1 \in Checkin!Days BY LimitsAssumption DEF Checkin!Days
    <2>2. QED BY <2>1, BoundsAssumption DEF Areas
  <1>1. Init => (area = "attendance" => DaysInv)
    <2> SUFFICES ASSUME Init PROVE DaysInv OBVIOUS
    <2>1. Checkin!TypeOK BY <1>0 DEF Init, Checkin!Init, Checkin!TypeOK, Checkin!Status
    <2>2. QED BY <2>1 DEF Init, Checkin!Init, DaysInv, DayCalm
  <1>2. (area = "attendance" => DaysInv) /\ [Next]_vars => (area = "attendance" => DaysInv)'
    <2> SUFFICES ASSUME area = "attendance", DaysInv, [Next]_vars PROVE DaysInv' BY DEF Next, vars
    <2>1. CASE Checkin!Next BY <2>1, DayTypes, DayCalmKept DEF DaysInv
    <2>2. CASE UNCHANGED Attendance BY <2>2 DEF Attendance, DaysInv, Checkin!TypeOK, DayCalm
    <2>3. QED BY <2>1, <2>2, DayStep
  <1>3. QED BY <1>1, <1>2, PTL DEF Spec

LEMMA DaysKept == DaysInv => Checkin!TypeOK /\ Checkin!DecidedOnceUnlessRaced
  BY DEF DaysInv, DayCalm, Checkin!DecidedOnceUnlessRaced

------------
(* Checkpoints *)

LEMMA CheckpointStep ==
  ASSUME area = "checkpoints", [Next]_vars PROVE area' = "checkpoints" /\ (Checkpoint!Next \/ UNCHANGED Checkpoints)
  BY DEF Next, vars, Checkpoints, checkpoints

LEMMA CheckpointTypes ==
  ASSUME CheckpointTyped, Checkpoint!Next PROVE CheckpointTyped'
  <1> USE DEF CheckpointTyped, Checkpoint!TypeOK
  <1>a. Calls["checkpoints"] \in Nat BY BoundsAssumption DEF Areas
  <1>b. ASSUME NEW op \in {"create", "submit", "again", "passed", "rejected", "delete"},
               NEW c \in Rows \cup {"new"}, op # "create" => c \in Rows, Checkpoint!Begin(op, c)
        PROVE  CheckpointTyped'
    <2> DEFINE new == [n |-> calls, op |-> op, on |-> c]
    <2>1. new \in Checkpoint!Call /\ new.op = op /\ new.on = c BY <1>a DEF Checkpoint!Call
    <2>2. /\ run' = run \cup {new} /\ calls' \in 0..Calls["checkpoints"]
          /\ raced' \subseteq Rows \cup {"new"}
          /\ UNCHANGED <<status, revisions, late, job, submits, verdicts>> BY <1>a, <1>b DEF Checkpoint!Begin
    <2> HIDE DEF new
    <2>3. QED BY <1>b, <2>1, <2>2
  <1>1. CASE Checkpoint!CreateRead BY <1>1, <1>b DEF Checkpoint!CreateRead
  <1>2. CASE Checkpoint!JobRead BY <1>2 DEF Checkpoint!JobRead
  <1>3. ASSUME NEW c \in Rows, Checkpoint!SubmitRead(c) \/ Checkpoint!DeleteRead(c) PROVE CheckpointTyped'
    BY <1>3, <1>b DEF Checkpoint!SubmitRead, Checkpoint!DeleteRead
  <1>4. ASSUME NEW c \in Rows, NEW v \in {"passed", "rejected"}, Checkpoint!ReviewRead(c, v) PROVE CheckpointTyped'
    BY <1>4, <1>b DEF Checkpoint!ReviewRead
  <1>5. ASSUME NEW c \in Rows, Checkpoint!Pass(c) PROVE CheckpointTyped' BY <1>5 DEF Checkpoint!Pass, Checkpoint!There
  <1>6. ASSUME NEW c \in Rows, Checkpoint!JobMark(c) PROVE CheckpointTyped'
    BY <1>6 DEF Checkpoint!JobMark, Checkpoint!Status
  <1>7. ASSUME NEW c \in Rows, NEW h \in run, Checkpoint!CreateWrite(h, c) PROVE CheckpointTyped'
    BY <1>7 DEF Checkpoint!CreateWrite, Checkpoint!Status
  <1>8. ASSUME NEW h \in run, Checkpoint!Write(h) PROVE CheckpointTyped'
    <2> DEFINE to == CASE h.op \in {"submit", "again"} -> "submitted"
                       [] h.op = "delete" -> "gone"
                       [] OTHER -> h.op
    <2>1. to \in Checkpoint!Status
      <3>1. h.op \in {"submit", "again", "passed", "rejected", "delete"} BY <1>8 DEF Checkpoint!Write, Checkpoint!Call
      <3>2. QED BY <3>1 DEF Checkpoint!Status
    <2>2. /\ status' \in [Rows -> Checkpoint!Status] /\ revisions' \in [Rows -> Nat]
          /\ submits' \in [Rows -> Nat] /\ verdicts' \in [Rows -> Nat]
      <3>1. CASE status[h.on] = "gone" BY <1>8, <3>1 DEF Checkpoint!Write
      <3>2. CASE status[h.on] # "gone"
        <4>1. status' = [status EXCEPT ![h.on] = to] BY <1>8, <3>2 DEF Checkpoint!Write
        <4>2. /\ revisions' = [revisions EXCEPT ![h.on] = IF h.op = "again" THEN @ + 1 ELSE @]
              /\ submits' = [submits EXCEPT ![h.on] = IF to = "submitted" THEN @ + 1 ELSE @]
              /\ verdicts' = [verdicts EXCEPT ![h.on] = IF to = h.op THEN @ + 1 ELSE @]
          BY <1>8, <3>2 DEF Checkpoint!Write
        <4> HIDE DEF to
        <4>0. h.on \in Rows BY <1>8 DEF Checkpoint!Write
        <4>3. status' \in [Rows -> Checkpoint!Status] BY <4>1, <2>1
        <4>4. revisions' \in [Rows -> Nat] BY <4>0, <4>2
        <4>5. submits' \in [Rows -> Nat] BY <4>0, <4>2
        <4>6. verdicts' \in [Rows -> Nat] BY <4>0, <4>2
        <4>7. QED BY <4>3, <4>4, <4>5, <4>6
      <3>3. QED BY <3>1, <3>2
    <2>3. QED BY <1>8, <2>2 DEF Checkpoint!Write
  <1>9. QED BY <1>1, <1>2, <1>3, <1>4, <1>5, <1>6, <1>7, <1>8 DEF Checkpoint!Next

\* What a step leaves alone of a checkpoint.
LEMMA CheckpointElsewhere ==
  ASSUME NEW c, CheckpointCalm(c), status'[c] = status[c], revisions'[c] = revisions[c],
         submits'[c] = submits[c], verdicts'[c] = verdicts[c],
         \A h \in run' : h.on = c => h \in run, c \in job' => c \in job
  PROVE  CheckpointCalm(c)' BY DEF CheckpointCalm, Found

LEMMA CheckpointCalmKept ==
  ASSUME CheckpointTyped, \A c \in Rows \ raced : CheckpointCalm(c), Checkpoint!Next
  PROVE  \A c \in Rows \ raced' : CheckpointCalm(c)'
  <1> SUFFICES ASSUME NEW c \in Rows, c \notin raced' PROVE CheckpointCalm(c)' OBVIOUS
  <1>a. /\ status \in [Rows -> Checkpoint!Status] /\ revisions \in [Rows -> Nat]
        /\ submits \in [Rows -> Nat] /\ verdicts \in [Rows -> Nat] /\ MaxRevisions \in Nat
    BY LimitsAssumption DEF CheckpointTyped, Checkpoint!TypeOK
  <1>b. ASSUME raced \subseteq raced' PROVE CheckpointCalm(c) BY <1>b
  <1>c. ASSUME NEW op, NEW x, Checkpoint!Begin(op, x),
               /\ op \in {"submit", "delete"} => status[x] = "pending"
               /\ op = "again" => status[x] = "rejected" /\ revisions[x] < MaxRevisions
               /\ op \in {"passed", "rejected"} => status[x] = "submitted"
        PROVE  CheckpointCalm(c)'
    <2>0. PICK new : new = [n |-> calls, op |-> op, on |-> x] OBVIOUS
    <2>1. /\ run' = run \cup {new} /\ raced \subseteq raced'
          /\ UNCHANGED <<status, revisions, job, submits, verdicts>> BY <1>c, <2>0 DEF Checkpoint!Begin
    <2>2. new.on = x /\ new.op = op BY <2>0
    <2>3. x = c => c \notin job /\ \A h \in run : h.on # c BY <1>c DEF Checkpoint!Begin
    <2>4. CheckpointCalm(c) BY <1>b, <2>1
    <2>5. CASE x # c BY <2>1, <2>2, <2>4, <2>5, CheckpointElsewhere
    <2>6. CASE x = c
      <3>1. Found(new)' BY <1>c, <2>1, <2>2 DEF Found
      <3>2. \A h \in run' : h.on = c => h = new BY <2>1, <2>3, <2>6
      <3>3. QED BY <2>1, <2>3, <2>4, <2>6, <3>1, <3>2 DEF CheckpointCalm
    <2>7. QED BY <2>5, <2>6
  <1>1. CASE Checkpoint!CreateRead BY <1>1, <1>c DEF Checkpoint!CreateRead
  <1>2. CASE Checkpoint!JobRead
    <2>1. /\ CheckpointCalm(c) /\ UNCHANGED <<status, revisions, run, submits, verdicts>>
          /\ c \in job' => status[c] = "pending" /\ \A h \in run : h.on # c BY <1>2, <1>b DEF Checkpoint!JobRead
    <2>2. QED BY <2>1 DEF CheckpointCalm, Found
  <1>3. ASSUME NEW x \in Rows, Checkpoint!SubmitRead(x) \/ Checkpoint!DeleteRead(x) PROVE CheckpointCalm(c)'
    BY <1>3, <1>c DEF Checkpoint!SubmitRead, Checkpoint!DeleteRead
  <1>4. ASSUME NEW x \in Rows, NEW v \in {"passed", "rejected"}, Checkpoint!ReviewRead(x, v) PROVE CheckpointCalm(c)'
    BY <1>4, <1>c DEF Checkpoint!ReviewRead
  <1>5. ASSUME NEW x \in Rows, Checkpoint!Pass(x) PROVE CheckpointCalm(c)'
    BY <1>5, <1>b, CheckpointElsewhere DEF Checkpoint!Pass
  <1>6. ASSUME NEW x \in Rows, Checkpoint!JobMark(x) PROVE CheckpointCalm(c)'
    <2>1. /\ CheckpointCalm(c) /\ UNCHANGED <<revisions, run, submits, verdicts>> /\ x \in job
          /\ job' \subseteq job BY <1>6, <1>b DEF Checkpoint!JobMark
    <2>2. CASE x = c
      <3>1. status[c] = "pending" /\ \A h \in run : h.on # c BY <2>1, <2>2 DEF CheckpointCalm
      <3>2. status'[c] = "overdue" /\ c \notin job' BY <1>6, <1>a, <2>2, <3>1 DEF Checkpoint!JobMark
      <3>3. QED BY <2>1, <3>1, <3>2 DEF CheckpointCalm
    <2>3. CASE x # c
      <3>1. status'[c] = status[c] BY <1>6, <1>a, <2>3 DEF Checkpoint!JobMark
      <3>2. QED BY <2>1, <3>1, CheckpointElsewhere
    <2>4. QED BY <2>2, <2>3
  <1>7. ASSUME NEW x \in Rows, NEW h \in run, Checkpoint!CreateWrite(h, x) PROVE CheckpointCalm(c)'
    <2>1. /\ CheckpointCalm(c) /\ UNCHANGED <<revisions, job, submits, verdicts>>
          /\ run' = run \ {h} /\ status' = [status EXCEPT ![x] = "pending"] /\ status[x] = "none"
          /\ h.op = "create" BY <1>7, <1>b DEF Checkpoint!CreateWrite, Checkpoint!Unused
    <2>2. CASE x = c
      <3>1. status'[c] = "pending" /\ c \notin job BY <2>1, <2>2, <1>a DEF CheckpointCalm
      <3>2. \A g \in run : g.on = c => g.op = "create"
        BY <2>1, <2>2 DEF CheckpointCalm, Found, CheckpointTyped, Checkpoint!TypeOK, Checkpoint!Call
      <3>3. \A g \in run' : g.on = c => Found(g)' BY <2>1, <3>2 DEF Found
      <3>4. QED BY <2>1, <2>2, <3>1, <3>3 DEF CheckpointCalm
    <2>3. CASE x # c
      <3>1. status'[c] = status[c] BY <2>1, <2>3, <1>a
      <3>2. QED BY <2>1, <3>1, CheckpointElsewhere
    <2>4. QED BY <2>2, <2>3
  <1>8. ASSUME NEW h \in run, Checkpoint!Write(h) PROVE CheckpointCalm(c)'
    <2> DEFINE to == CASE h.op \in {"submit", "again"} -> "submitted"
                       [] h.op = "delete" -> "gone"
                       [] OTHER -> h.op
    <2>1. CheckpointCalm(c) /\ job' = job /\ run' = run \ {h} /\ h.op # "create" /\ h.on \in Rows
      BY <1>8, <1>b DEF Checkpoint!Write, CheckpointTyped
    <2>2. CASE h.on # c
      <3>1. /\ status'[c] = status[c] /\ revisions'[c] = revisions[c]
            /\ submits'[c] = submits[c] /\ verdicts'[c] = verdicts[c]
        <4>1. CASE status[h.on] = "gone" BY <1>8, <4>1 DEF Checkpoint!Write
        <4>2. CASE status[h.on] # "gone" BY <1>8, <1>a, <2>1, <2>2, <4>2 DEF Checkpoint!Write
        <4>3. QED BY <4>1, <4>2
      <3>2. QED BY <2>1, <3>1, CheckpointElsewhere
    <2>3. CASE h.on = c
      <3>1. Found(h) /\ c \notin job /\ \A g \in run' : g.on # c BY <2>1, <2>3 DEF CheckpointCalm
      <3>2. h.op \in {"submit", "again", "passed", "rejected", "delete"}
        BY <2>1 DEF CheckpointTyped, Checkpoint!TypeOK, Checkpoint!Call
      <3>3. status[c] # "gone" BY <3>1, <3>2, <2>3 DEF Found
      <3>4. /\ status'[c] = to
            /\ revisions'[c] = IF h.op = "again" THEN revisions[c] + 1 ELSE revisions[c]
            /\ submits'[c] = IF to = "submitted" THEN submits[c] + 1 ELSE submits[c]
            /\ verdicts'[c] = IF to = h.op THEN verdicts[c] + 1 ELSE verdicts[c]
        BY <1>8, <1>a, <2>3, <3>3 DEF Checkpoint!Write
      <3>5. /\ revisions'[c] <= MaxRevisions
            /\ verdicts'[c] = submits'[c] - (IF status'[c] = "submitted" THEN 1 ELSE 0)
            /\ IF status'[c] \in {"none", "pending", "overdue", "gone"}
                 THEN submits'[c] = 0 /\ revisions'[c] = 0
                 ELSE submits'[c] = revisions'[c] + 1
        <4>1. CASE h.op = "submit" BY <1>a, <2>1, <2>3, <3>1, <3>4, <4>1 DEF CheckpointCalm, Found
        <4>2. CASE h.op = "again" BY <1>a, <2>1, <2>3, <3>1, <3>4, <4>2 DEF CheckpointCalm, Found
        <4>3. CASE h.op \in {"passed", "rejected"} BY <1>a, <2>1, <2>3, <3>1, <3>4, <4>3 DEF CheckpointCalm, Found
        <4>4. CASE h.op = "delete" BY <1>a, <2>1, <2>3, <3>1, <3>4, <4>4 DEF CheckpointCalm, Found
        <4>5. QED BY <3>2, <4>1, <4>2, <4>3, <4>4
      <3>6. QED BY <2>1, <3>1, <3>5 DEF CheckpointCalm
    <2>4. QED BY <2>2, <2>3
  <1>9. QED BY <1>1, <1>2, <1>3, <1>4, <1>5, <1>6, <1>7, <1>8 DEF Checkpoint!Next

LEMMA CheckpointInvariant == Spec => [](area = "checkpoints" => CheckpointInv)
  <1>1. Init => (area = "checkpoints" => CheckpointInv)
    <2> SUFFICES ASSUME Init PROVE CheckpointInv OBVIOUS
    <2> USE DEF Init, Checkpoint!Init
    <2>1. Calls["checkpoints"] \in Nat /\ MaxRevisions \in Nat BY BoundsAssumption, LimitsAssumption DEF Areas
    <2>2. CheckpointTyped BY <2>1 DEF CheckpointTyped, Checkpoint!TypeOK, Checkpoint!Status
    <2>3. QED BY <2>1, <2>2 DEF CheckpointInv, CheckpointCalm
  <1>2. (area = "checkpoints" => CheckpointInv) /\ [Next]_vars
          => (area = "checkpoints" => CheckpointInv)'
    <2> SUFFICES ASSUME area = "checkpoints", CheckpointInv, [Next]_vars PROVE CheckpointInv' BY DEF Next, vars
    <2>1. CASE Checkpoint!Next BY <2>1, CheckpointTypes, CheckpointCalmKept DEF CheckpointInv
    <2>2. CASE UNCHANGED Checkpoints
      BY <2>2 DEF Checkpoints, CheckpointInv, CheckpointTyped, Checkpoint!TypeOK, CheckpointCalm, Found
    <2>3. QED BY <2>1, <2>2, CheckpointStep
  <1>3. QED BY <1>1, <1>2, PTL DEF Spec

LEMMA CheckpointsKept == CheckpointInv => Checkpoint!TypeOK /\ Checkpoint!RoundsUnlessRaced
  <1> SUFFICES ASSUME CheckpointInv, NEW c \in Rows \ raced
               PROVE  /\ verdicts[c] = submits[c] - (IF status[c] = "submitted" THEN 1 ELSE 0)
                      /\ submits[c] <= MaxRevisions + 1
                      /\ status[c] \in {"none", "pending", "overdue", "gone"} <=> submits[c] = 0
    BY DEF CheckpointInv, CheckpointTyped, Checkpoint!RoundsUnlessRaced
  <1>1. revisions[c] \in Nat /\ submits[c] \in Nat /\ MaxRevisions \in Nat
    BY LimitsAssumption DEF CheckpointInv, CheckpointTyped, Checkpoint!TypeOK
  <1>2. QED BY <1>1 DEF CheckpointInv, CheckpointCalm

------------
(* Issues *)

LEMMA IssueStep ==
  ASSUME area = "issues", [Next]_vars PROVE area' = "issues" /\ (Report!Next \/ UNCHANGED Issues)
  BY DEF Next, vars, Issues, issues

LEMMA UpdatedRow ==
  ASSUME NEW r \in Report!Row, NEW c \in Report!Call
  PROVE  /\ Updated(r, c) \in Report!Row
         /\ Updated(r, c).late = r.late /\ Updated(r, c).breached = r.breached
         /\ Updated(r, c).first \in {r.first, "late"} \/ ~ r.late BY DEF Updated, Report!Row, Report!Call

LEMMA IssueTypes ==
  ASSUME Report!TypeOK, Report!Next PROVE Report!TypeOK'
  <1> USE DEF Report!TypeOK, Report!sla, Report!jobVars
  <1>a. Calls["issues"] \in Nat /\ MaxFaults \in Nat BY BoundsAssumption DEF Areas
  <1>b. \A r \in Report!Row : /\ [r EXCEPT !.status = "open"] \in Report!Row
                              /\ [r EXCEPT !.late = TRUE] \in Report!Row
                              /\ [r EXCEPT !.breached = TRUE] \in Report!Row BY DEF Report!Row, Report!Status
  <1>1. ASSUME NEW i \in Reports, Report!Create(i) PROVE Report!TypeOK' BY <1>1, <1>b DEF Report!Create
  <1>2. ASSUME NEW i \in Reports, Report!Pass(i) PROVE Report!TypeOK' BY <1>2, <1>b DEF Report!Pass
  <1>3. ASSUME NEW i \in Reports, NEW to \in Report!Status, Report!UpdateRead(i, to) PROVE Report!TypeOK'
    <2> DEFINE new == [n |-> calls, on |-> i, to |-> to, seen |-> issue[i].first # "none"]
    <2>1. new \in Report!Call /\ calls' \in 0..Calls["issues"] BY <1>3, <1>a DEF Report!UpdateRead, Report!Call
    <2>2. run' = run \cup {new} BY <1>3 DEF Report!UpdateRead
    <2> HIDE DEF new
    <2>3. QED BY <1>3, <2>1, <2>2 DEF Report!UpdateRead
  <1>4. ASSUME NEW c \in run, Report!UpdateWrite(c) PROVE Report!TypeOK'
    <2>1. c.on \in Reports /\ issue[c.on] \in Report!Row BY DEF Report!Call
    <2>2. issue' = [issue EXCEPT ![c.on] = Updated(issue[c.on], c)] BY <1>4, <2>1 DEF Report!UpdateWrite, Updated
    <2>3. QED BY <1>4, <2>1, <2>2, UpdatedRow DEF Report!UpdateWrite
  <1>5. CASE Report!JobRead BY <1>5 DEF Report!JobRead
  <1>6. ASSUME NEW i \in Reports, Report!JobMark(i) PROVE Report!TypeOK' BY <1>6, <1>b DEF Report!JobMark
  <1>7. ASSUME NEW i \in Reports, Report!JobTell(i) PROVE Report!TypeOK' BY <1>7 DEF Report!JobTell
  <1>8. CASE Report!Restart BY <1>8, <1>a DEF Report!Restart
  <1>9. QED BY <1>1, <1>2, <1>3, <1>4, <1>5, <1>6, <1>7, <1>8 DEF Report!Next, Report!Job

LEMMA MarkToldKept ==
  ASSUME Report!TypeOK, MarkTold, Report!Next PROVE MarkTold'
  <1> USE DEF MarkTold, Report!sla, Report!jobVars
  <1>a. /\ issue \in [Reports -> Report!Row] /\ told \in [Reports -> Nat]
        /\ job \subseteq Reports /\ notice \subseteq Reports /\ run \subseteq Report!Call BY DEF Report!TypeOK
  \* A step that leaves the marks alone.
  <1>b. ASSUME \A i \in Reports : /\ issue'[i].breached = issue[i].breached
                                  /\ issue[i].late => issue'[i].late,
               job' = job, UNCHANGED <<told, notice, cut>>
        PROVE  MarkTold' BY <1>a, <1>b
  <1>1. ASSUME NEW i \in Reports, Report!Create(i) PROVE MarkTold'
    <2>1. \A x \in Reports : /\ issue'[x].breached = issue[x].breached
                             /\ issue'[x].late = issue[x].late BY <1>1, <1>a DEF Report!Create, Report!Row
    <2>2. QED BY <1>1, <1>b, <2>1 DEF Report!Create
  <1>2. ASSUME NEW i \in Reports, Report!Pass(i) PROVE MarkTold'
    <2>1. \A x \in Reports : /\ issue'[x].breached = issue[x].breached
                             /\ issue[x].late => issue'[x].late BY <1>2, <1>a DEF Report!Pass, Report!Row
    <2>2. QED BY <1>2, <1>b, <2>1 DEF Report!Pass
  <1>3. ASSUME NEW i, NEW to, Report!UpdateRead(i, to) PROVE MarkTold' BY <1>3, <1>b DEF Report!UpdateRead
  <1>4. ASSUME NEW c \in run, Report!UpdateWrite(c) PROVE MarkTold'
    <2>1. c.on \in Reports /\ issue[c.on] \in Report!Row /\ c \in Report!Call BY <1>a DEF Report!Call
    <2>2. issue' = [issue EXCEPT ![c.on] = Updated(issue[c.on], c)]
      BY <1>4, <1>a, <2>1 DEF Report!UpdateWrite, Updated
    <2>3. \A x \in Reports : /\ issue'[x].breached = issue[x].breached
                             /\ issue'[x].late = issue[x].late BY <1>a, <2>1, <2>2, UpdatedRow
    <2>4. QED BY <1>4, <1>b, <2>3 DEF Report!UpdateWrite
  <1>5. CASE Report!JobRead
    <2>1. UNCHANGED <<issue, told, notice, cut>>
          /\ \A i \in job' : issue[i].late /\ ~ issue[i].breached BY <1>5 DEF Report!JobRead, Report!Unanswered
    <2>2. QED BY <2>1
  <1>6. ASSUME NEW i \in Reports, Report!JobMark(i) PROVE MarkTold'
    <2>1. /\ UNCHANGED <<told, cut>> /\ notice = {} /\ notice' = {i} /\ job' = job \ {i} /\ i \in job
      BY <1>6 DEF Report!JobMark
    <2>2. /\ issue'[i].breached = TRUE /\ issue'[i].late = issue[i].late
          /\ \A x \in Reports : x # i => issue'[x] = issue[x] BY <1>6, <1>a DEF Report!JobMark, Report!Row
    <2>3. i \notin cut /\ told[i] = 0 /\ issue[i].late BY <2>1
    <2>4. QED BY <1>a, <2>1, <2>2, <2>3
  <1>7. ASSUME NEW i \in Reports, Report!JobTell(i) PROVE MarkTold'
    <2>1. UNCHANGED <<issue, job, cut>> /\ notice' = {} /\ notice = {i} BY <1>7 DEF Report!JobTell
    <2>2. told[i] = 0 /\ issue[i].breached /\ i \notin cut BY <2>1
    <2>3. told'[i] = 1 /\ \A x \in Reports : x # i => told'[x] = told[x] BY <1>7, <1>a, <2>2 DEF Report!JobTell
    <2>4. QED BY <2>1, <2>2, <2>3
  <1>8. CASE Report!Restart
    <2>1. UNCHANGED <<issue, told>> /\ notice' = {} /\ job' = {} /\ cut' = cut \cup notice BY <1>8 DEF Report!Restart
    <2>2. QED BY <2>1
  <1>9. QED BY <1>1, <1>2, <1>3, <1>4, <1>5, <1>6, <1>7, <1>8 DEF Report!Next, Report!Job

LEMMA IssueCalmKept ==
  ASSUME Report!TypeOK, MarkTold, \A i \in Reports \ raced : IssueCalm(i), Report!Next
  PROVE  \A i \in Reports \ raced' : IssueCalm(i)'
  <1> SUFFICES ASSUME NEW i \in Reports, i \notin raced' PROVE IssueCalm(i)' OBVIOUS
  <1> USE DEF Report!sla, Report!jobVars
  <1>a. /\ issue \in [Reports -> Report!Row] /\ job \subseteq Reports /\ run \subseteq Report!Call
    BY DEF Report!TypeOK
  <1>b. ASSUME raced \subseteq raced' PROVE IssueCalm(i) BY <1>b
  <1>c. ASSUME UNCHANGED raced, run' \subseteq run, job' \subseteq job,
               issue'[i].first = issue[i].first,
               issue'[i].breached => issue[i].breached
        PROVE  IssueCalm(i)' BY <1>b, <1>c DEF IssueCalm
  <1>1. ASSUME NEW x \in Reports, Report!Create(x) \/ Report!Pass(x) PROVE IssueCalm(i)'
    <2>1. issue'[i].first = issue[i].first /\ issue'[i].breached = issue[i].breached
      BY <1>1, <1>a DEF Report!Create, Report!Pass, Report!Row
    <2>2. QED BY <1>1, <1>c, <2>1 DEF Report!Create, Report!Pass
  <1>2. ASSUME NEW x, NEW to, Report!UpdateRead(x, to) PROVE IssueCalm(i)'
    <2>1. PICK new : /\ new = [n |-> calls, on |-> x, to |-> to, seen |-> issue[x].first # "none"]
                     /\ run' = run \cup {new} /\ UNCHANGED <<issue, job>> /\ raced \subseteq raced'
      BY <1>2 DEF Report!UpdateRead
    <2>2. new.on = x BY <2>1
    <2>3. x = i => i \notin job /\ \A c \in run : c.on # i BY <1>2 DEF Report!UpdateRead, Report!On
    <2>4. QED BY <1>b, <2>1, <2>2, <2>3 DEF IssueCalm
  <1>3. ASSUME NEW c \in run, Report!UpdateWrite(c) PROVE IssueCalm(i)'
    <2>1. c.on \in Reports /\ issue[c.on] \in Report!Row /\ c \in Report!Call BY <1>a DEF Report!Call
    <2>2. /\ issue' = [issue EXCEPT ![c.on] = Updated(issue[c.on], c)]
          /\ run' = run \ {c} /\ job' = job /\ IssueCalm(i) BY <1>3, <1>a, <1>b, <2>1 DEF Report!UpdateWrite, Updated
    <2>3. CASE c.on # i
      <3>1. issue'[i] = issue[i] BY <1>a, <2>2, <2>3
      <3>2. QED BY <2>2, <3>1 DEF IssueCalm
    <2>4. CASE c.on = i
      <3>1. issue'[i] = Updated(issue[i], c) /\ i \notin job BY <1>a, <2>2, <2>4 DEF IssueCalm
      <3>2. /\ issue'[i].breached = issue[i].breached
            /\ issue[i].late => issue'[i].first \in {issue[i].first, "late"} BY <2>1, <2>4, <3>1, UpdatedRow
      <3>3. issue[i].breached => issue[i].late BY DEF MarkTold
      <3>4. QED BY <2>2, <3>1, <3>2, <3>3 DEF IssueCalm
    <2>5. QED BY <2>3, <2>4
  <1>4. CASE Report!JobRead
    <2>1. /\ UNCHANGED <<issue, run>> /\ raced \subseteq raced'
          /\ i \in job' => issue[i].first = "none" /\ \A c \in run : c.on # i
      BY <1>4 DEF Report!JobRead, Report!Unanswered, Report!On
    <2>2. QED BY <1>b, <2>1 DEF IssueCalm
  <1>5. ASSUME NEW x \in Reports, Report!JobMark(x) PROVE IssueCalm(i)'
    <2>1. /\ IssueCalm(i) /\ UNCHANGED run /\ x \in job /\ job' = job \ {x}
          /\ issue' = [issue EXCEPT ![x].breached = TRUE] BY <1>5, <1>b DEF Report!JobMark
    <2>2. issue'[i].first = issue[i].first /\ (x # i => issue'[i] = issue[i]) BY <1>a, <2>1 DEF Report!Row
    <2>3. QED BY <2>1, <2>2 DEF IssueCalm
  <1>6. ASSUME NEW x \in Reports, Report!JobTell(x) PROVE IssueCalm(i)' BY <1>6, <1>c DEF Report!JobTell
  <1>7. CASE Report!Restart BY <1>7, <1>c DEF Report!Restart
  <1>8. QED BY <1>1, <1>2, <1>3, <1>4, <1>5, <1>6, <1>7 DEF Report!Next, Report!Job

LEMMA IssueInvariant == Spec => [](area = "issues" => IssueInv)
  <1>1. Init => (area = "issues" => IssueInv)
    <2> SUFFICES ASSUME Init PROVE IssueInv OBVIOUS
    <2> USE DEF Init, Report!Init
    <2>1. Report!TypeOK BY BoundsAssumption DEF Report!TypeOK, Report!Row, Areas
    <2>2. QED BY <2>1 DEF IssueInv, MarkTold, IssueCalm
  <1>2. (area = "issues" => IssueInv) /\ [Next]_vars => (area = "issues" => IssueInv)'
    <2> SUFFICES ASSUME area = "issues", IssueInv, [Next]_vars PROVE IssueInv' BY DEF Next, vars
    <2>1. CASE Report!Next BY <2>1, IssueTypes, MarkToldKept, IssueCalmKept DEF IssueInv
    <2>2. CASE UNCHANGED Issues BY <2>2 DEF Issues, IssueInv, Report!TypeOK, MarkTold, IssueCalm
    <2>3. QED BY <2>1, <2>2, IssueStep
  <1>3. QED BY <1>1, <1>2, PTL DEF Spec

LEMMA IssuesKept == IssueInv => Report!TypeOK /\ Report!MarkedUnlessRaced
  BY DEF IssueInv, MarkTold, IssueCalm, Report!MarkedUnlessRaced

------------
(* The jobs that watch tasks *)

LEMMA WatchStep ==
  ASSUME area = "watch", [Next]_vars PROVE area' = "watch" /\ (Alarm!Next \/ UNCHANGED Watch)
  BY DEF Next, vars, Watch, watch

\* What the jobs make of an entry.
LEMMA Entries ==
  /\ \A i \in Items, to \in Alarm!Levels :
       Entry([kind |-> "risk", on |-> i, to |-> to, at |-> "write", upto |-> 0])
  /\ \A i \in Items : Entry([kind |-> "quiet", on |-> i, to |-> "none", at |-> "look", upto |-> 0])
  /\ Entry([kind |-> "trim", on |-> "inbox", to |-> "none", at |-> "look", upto |-> 0])
  /\ \A j : Entry(j) =>
       /\ Entry([j EXCEPT !.at = "tell"]) /\ [j EXCEPT !.at = "tell"].kind = j.kind
       /\ [j EXCEPT !.at = "tell"].on = j.on /\ [j EXCEPT !.at = "tell"].to = j.to
       /\ [j EXCEPT !.at = "tell"].at = "tell"
       /\ \A u \in Nat :
            /\ Entry([j EXCEPT !.at = "write", !.upto = u])
            /\ [j EXCEPT !.at = "write", !.upto = u].kind = j.kind
            /\ [j EXCEPT !.at = "write", !.upto = u].upto = u BY DEF Entry, Alarm!Found, Alarm!Levels

LEMMA Limits == Horizon \in Nat /\ Calls["watch"] \in Nat /\ MaxFaults \in Nat
  BY BoundsAssumption, LimitsAssumption DEF Areas

\* The last notice has the latest time.
LEMMA LatestIsLast ==
  ASSUME WatchTyped, Ordered PROVE Alarm!Latest \in 0..sent /\ \A m \in inbox : m.at <= Alarm!Latest
  <1> DEFINE Times == {n.at : n \in inbox}
  <1>1. sent \in Nat /\ Times \in SUBSET (0..sent) BY DEF WatchTyped, Alarm!TypeOK, Ordered
  <1>2. CASE inbox = {} BY <1>1, <1>2 DEF Alarm!Latest
  <1>3. CASE inbox # {}
    <2>1. Times # {} BY <1>3
    <2>2. \E t \in Times : \A a \in Times : a <= t
      <3> HIDE DEF Times
      <3>1. QED BY <1>1, <2>1, Largest
    <2>3. \E t \in Times : \A m \in inbox : m.at <= t BY <2>2
    <2>4. Alarm!Latest \in Times /\ \A m \in inbox : m.at <= Alarm!Latest BY <1>3, <2>3 DEF Alarm!Latest
    <2>5. QED BY <1>1, <2>4
  <1>4. QED BY <1>2, <1>3

\* A new notice.
LEMMA Told ==
  ASSUME WatchTyped, Ordered, Alarm!Tell
  PROVE  /\ inbox' \subseteq [n: Nat, at: Nat, day: 0..Horizon, unread: BOOLEAN]
         /\ sent' = sent + 1 /\ sent' \in Nat /\ tied \subseteq tied' /\ tied' \subseteq 1..sent'
         /\ inbox \subseteq inbox' /\ Ordered'
  <1>a. /\ sent \in Nat /\ inbox \subseteq [n: Nat, at: Nat, day: 0..Horizon, unread: BOOLEAN]
        /\ tied \subseteq 1..sent /\ day \in 0..Horizon BY DEF WatchTyped, Alarm!TypeOK
  <1>1. PICK t \in {Alarm!Latest, Alarm!Latest + 1} :
          /\ t > 0 /\ sent' = sent + 1
          /\ inbox' = inbox \cup {[n |-> sent', at |-> t, day |-> day, unread |-> TRUE]}
          /\ tied' = tied \cup {m.n : m \in {k \in inbox' : k.at = t /\ k.n # sent'}}
                          \cup (IF \E k \in inbox : k.at = t THEN {sent'} ELSE {}) BY DEF Alarm!Tell
  <1>2. /\ t \in 0..(sent + 1) /\ \A m \in inbox : m.at <= t /\ m.n \in 1..sent /\ m.at <= sent
    <2>1. \A m \in inbox : m.n \in 1..sent /\ m.at <= sent BY DEF Ordered
    <2>2. QED BY <1>a, <1>1, <2>1, LatestIsLast
  <1>3. PICK new : new = [n |-> sent + 1, at |-> t, day |-> day, unread |-> TRUE] OBVIOUS
  <1>4. /\ new.n = sent + 1 /\ new.at = t /\ inbox' = inbox \cup {new}
        /\ new \in [n: Nat, at: Nat, day: 0..Horizon, unread: BOOLEAN] BY <1>a, <1>1, <1>2, <1>3
  <1>5. /\ \A m \in inbox' : m.n \in 1..(sent + 1) /\ m.at <= sent + 1
        /\ \A m \in inbox' : m.at = t /\ m.n # sent + 1 => m.n \in tied'
        /\ (\E k \in inbox : k.at = t) => sent + 1 \in tied' BY <1>a, <1>1, <1>2, <1>4
  <1>6. tied \subseteq tied' /\ tied' \subseteq 1..(sent + 1)
    <2>1. \A x \in tied' : x \in tied \/ x = sent + 1 \/ \E m \in inbox' : x = m.n BY <1>1
    <2>2. tied \subseteq 1..(sent + 1) /\ sent + 1 \in 1..(sent + 1) BY <1>a
    <2>3. \A x \in tied' : x \in 1..(sent + 1) BY <1>5, <2>1, <2>2
    <2>4. tied \subseteq tied' BY <1>1
    <2>5. QED BY <2>3, <2>4
  <1>7. ASSUME NEW m \in inbox', NEW k \in inbox'
        PROVE  /\ m.n = k.n => m = k
               /\ m.n < k.n => m.at <= k.at /\ (m.at = k.at => {m.n, k.n} \subseteq tied')
    <2>1. CASE m \in inbox /\ k \in inbox BY <2>1, <1>6 DEF Ordered
    <2>2. CASE m = new BY <2>2, <1>a, <1>2, <1>4
    <2>3. CASE m \in inbox /\ k = new BY <2>3, <1>a, <1>2, <1>4, <1>5
    <2>4. QED BY <1>4, <2>1, <2>2, <2>3
  <1>8. QED BY <1>a, <1>1, <1>4, <1>5, <1>6, <1>7 DEF Ordered

LEMMA WatchTypes ==
  ASSUME WatchTyped, Ordered, Alarm!Next PROVE WatchTyped'
  <1> USE DEF WatchTyped, Alarm!TypeOK, Alarm!watch, Alarm!tasks, Alarm!notices
  <1>a. /\ Calls["watch"] \in Nat /\ MaxFaults \in Nat /\ Horizon \in Nat /\ calls \in Nat
        /\ faults \in Nat /\ day \in Nat /\ Alarm!Never = -3 BY Limits DEF Alarm!Never
  <1>b. \A i \in Items : Alarm!LevelOf(i) \in Alarm!Levels BY DEF Alarm!LevelOf, Alarm!ComputeLevel, Alarm!Levels
  <1>c. \A f \in [Items -> Alarm!Never..Horizon], g \in [Items -> Alarm!Never..Horizon] :
          {f[i] : i \in Items} \cup {g[i] : i \in Items} \subseteq Alarm!Never..Horizon OBVIOUS
  <1>d. ASSUME NEW new, Entry(new), job' \subseteq job \cup {new}
        PROVE  job' \subseteq Alarm!Found /\ \A j \in job' : Entry(j) BY <1>d DEF Entry
  <1>1. CASE Alarm!Clock
    <2>1. day' \in 0..Horizon BY <1>1, <1>a DEF Alarm!Clock
    <2>2. QED BY <1>1, <2>1 DEF Alarm!Clock
  <1>2. ASSUME NEW i \in Items, NEW p \in Alarm!Percent, Alarm!Report(i, p) PROVE WatchTyped'
    <2>1. calls' \in 0..Calls["watch"] BY <1>2, <1>a DEF Alarm!Report
    <2>2. reported' \in [Items -> Alarm!Never..Horizon] /\ progress' \in [Items -> Alarm!Percent]
      BY <1>2, <1>a DEF Alarm!Report
    <2>3. QED BY <1>2, <1>c, <2>1, <2>2 DEF Alarm!Report
  <1>3. ASSUME NEW i \in Items, Alarm!Close(i) PROVE WatchTyped' BY <1>3 DEF Alarm!Close
  <1>4. CASE Alarm!ReadAll
    <2>1. calls' \in 0..Calls["watch"] BY <1>4, <1>a DEF Alarm!ReadAll
    <2>2. inbox' \subseteq [n: Nat, at: Nat, day: 0..Horizon, unread: BOOLEAN] BY <1>4 DEF Alarm!ReadAll
    <2>3. QED BY <1>4, <2>1, <2>2 DEF Alarm!ReadAll
  <1>5. CASE Alarm!RiskRead
    <2>1. \A j \in job' : j \in job \/
            \E i \in Items : j = [kind |-> "risk", on |-> i, to |-> Alarm!LevelOf(i),
                                  at |-> "write", upto |-> 0] BY <1>5 DEF Alarm!RiskRead
    <2>2. ASSUME NEW j \in job' PROVE Entry(j)
      <3>1. CASE j \in job BY <3>1
      <3>2. CASE j \notin job
        <4>1. PICK i \in Items : j = [kind |-> "risk", on |-> i, to |-> Alarm!LevelOf(i),
                                      at |-> "write", upto |-> 0] BY <2>1, <3>2
        <4>2. QED BY <1>b, <4>1, Entries
      <3>3. QED BY <3>1, <3>2
    <2>3. job' \subseteq Alarm!Found BY <2>2 DEF Entry
    <2>4. UNCHANGED <<Alarm!watch, calls, faults>> BY <1>5 DEF Alarm!RiskRead
    <2>5. QED BY <2>2, <2>3, <2>4
  <1>6. ASSUME NEW j \in job, Alarm!RiskWrite(j) PROVE WatchTyped'
    <2>1. /\ Entry(j) /\ j.on \in Items /\ j.to \in Alarm!Levels
          /\ level' = [level EXCEPT ![j.on] = j.to]
          /\ UNCHANGED <<Alarm!tasks, due, said, reminded, Alarm!notices, calls, faults>>
          /\ job' \subseteq job \cup {[j EXCEPT !.at = "tell"]}
      BY <1>6 DEF Alarm!RiskWrite, Alarm!Goes, Alarm!Of, Entry
    <2>2. job' \subseteq Alarm!Found /\ \A k \in job' : Entry(k) BY <2>1, <1>d, Entries
    <2>3. QED BY <2>1, <2>2
  <1>7. ASSUME NEW j \in job, Alarm!RiskTell(j) PROVE WatchTyped'
    <2>1. /\ j.on \in Items /\ j.to \in Alarm!Levels
          /\ said' = [said EXCEPT ![j.on] = j.to] /\ job' = job \ {j} /\ Alarm!Tell
          /\ UNCHANGED <<Alarm!tasks, due, level, reminded, trimmed, calls, faults>>
      BY <1>7 DEF Alarm!RiskTell, Alarm!Of, Entry
    <2>2. QED BY <2>1, Told
  <1>8. CASE Alarm!MissingRead
    <2>1. /\ UNCHANGED <<Alarm!tasks, level, said, reminded, Alarm!notices, calls, faults>>
          /\ due' = {}
          /\ \A j \in job' : j \in job \/
               \E i \in Items : j = [kind |-> "quiet", on |-> i, to |-> "none", at |-> "look",
                                     upto |-> 0] BY <1>8 DEF Alarm!MissingRead
    <2>2. ASSUME NEW j \in job' PROVE Entry(j)
      <3>1. CASE j \in job BY <3>1
      <3>2. CASE j \notin job
        <4>1. PICK i \in Items : j = [kind |-> "quiet", on |-> i, to |-> "none", at |-> "look",
                                      upto |-> 0] BY <2>1, <3>2
        <4>2. QED BY <4>1, Entries
      <3>3. QED BY <3>1, <3>2
    <2>3. job' \subseteq Alarm!Found BY <2>2 DEF Entry
    <2>4. QED BY <2>1, <2>2, <2>3
  <1>9. CASE Alarm!MissingLook
    <2>1. /\ UNCHANGED <<Alarm!watch, calls, faults>>
          /\ \A j \in job' : j \in job \/ \E k \in job : j = [k EXCEPT !.at = "tell"]
      BY <1>9 DEF Alarm!MissingLook, Alarm!Of
    <2>2. ASSUME NEW j \in job' PROVE Entry(j)
      <3>1. CASE j \in job BY <3>1
      <3>2. ASSUME NEW k \in job, j = [k EXCEPT !.at = "tell"] PROVE Entry(j) BY <3>2, Entries
      <3>3. QED BY <2>1, <3>1, <3>2
    <2>3. job' \subseteq Alarm!Found BY <2>2 DEF Entry
    <2>4. QED BY <2>1, <2>2, <2>3
  <1>10. ASSUME NEW j \in job, Alarm!MissingTell(j) PROVE WatchTyped'
    <2>1. /\ j.on \in Items /\ reminded' = [reminded EXCEPT ![j.on] = day] /\ job' = job \ {j}
          /\ Alarm!Tell /\ UNCHANGED <<Alarm!tasks, due, level, said, trimmed, calls, faults>>
      BY <1>10 DEF Alarm!MissingTell, Alarm!Of, Entry
    <2>2. reminded' \in [Items -> Alarm!Never..Horizon] BY <2>1, <1>a
    <2>3. QED BY <2>1, <2>2, <1>c, Told
  <1>11. CASE Alarm!Expire
    <2>1. job' \subseteq Alarm!Found /\ \A k \in job' : Entry(k) BY <1>11, <1>d, Entries DEF Alarm!Expire
    <2>2. QED BY <1>11, <2>1 DEF Alarm!Expire
  <1>12. ASSUME NEW j \in job, Alarm!TrimLook(j) PROVE WatchTyped'
    <2>1. UNCHANGED <<Alarm!watch, calls, faults>> BY <1>12 DEF Alarm!TrimLook
    <2>2. \A u \in Nat : Entry([j EXCEPT !.at = "write", !.upto = u]) BY Entries
    <2>3. \A n \in Alarm!Boundary : n.at \in Nat BY DEF Alarm!Boundary, Alarm!Unread
    <2>4. \A k \in job' : k \in job \/ \E u \in Nat : k = [j EXCEPT !.at = "write", !.upto = u]
      BY <1>12, <2>3 DEF Alarm!TrimLook, Alarm!Goes
    <2>5. \A k \in job' : Entry(k) BY <2>2, <2>4
    <2>6. job' \subseteq Alarm!Found BY <2>5 DEF Entry
    <2>7. QED BY <2>1, <2>5, <2>6
  <1>13. ASSUME NEW j \in job, Alarm!Trim(j) PROVE WatchTyped'
    <2>1. /\ inbox' \subseteq inbox /\ job' = job \ {j}
          /\ UNCHANGED <<Alarm!tasks, due, level, said, reminded, sent, tied, calls, faults>>
          /\ trimmed' \subseteq trimmed \cup {m.n : m \in inbox} BY <1>13 DEF Alarm!Trim, Alarm!Unread
    <2>2. {m.n : m \in inbox} \subseteq 1..sent BY DEF Ordered
    <2>3. QED BY <2>1, <2>2
  <1>14. CASE Alarm!Restart
    <2>1. faults' \in 0..MaxFaults BY <1>14, <1>a DEF Alarm!Restart
    <2>2. QED BY <1>14, <2>1 DEF Alarm!Restart
  <1>15. QED
    BY <1>1, <1>2, <1>3, <1>4, <1>5, <1>6, <1>7, <1>8, <1>9, <1>10, <1>11, <1>12, <1>13, <1>14 DEF Alarm!Next,
       Alarm!Jobs

\* As long as no job was stopped.
LEMMA AlarmsKept ==
  ASSUME WatchTyped, AlarmsTold, Alarm!Next, faults' = 0 PROVE AlarmsTold'
  <1> USE DEF Alarm!watch, Alarm!tasks, Alarm!notices
  <1>a. ASSUME UNCHANGED <<level, said>>,
               \A j : j.kind = "risk" => (j \in job <=> j \in job')
        PROVE  AlarmsTold' BY <1>a DEF AlarmsTold, Alarm!Of
  <1>b. /\ faults \in Nat /\ level \in [Items -> Alarm!Levels] /\ said \in [Items -> Alarm!Levels]
        /\ \A j \in job : Entry(j) BY DEF WatchTyped, Alarm!TypeOK
  <1>1. ASSUME UNCHANGED <<level, said, job>> PROVE AlarmsTold' BY <1>1, <1>a
  <1>2. CASE Alarm!RiskRead
    <2>1. /\ UNCHANGED <<level, said>> /\ Alarm!Of("risk") = {}
          /\ \A j \in job' : j \in job \/ j.at = "write" BY <1>2 DEF Alarm!RiskRead
    <2>2. QED BY <2>1 DEF AlarmsTold, Alarm!Of
  <1>3. ASSUME NEW j \in job, Alarm!RiskWrite(j) PROVE AlarmsTold'
    <2>1. /\ j.on \in Items /\ j.to \in Alarm!Levels /\ said' = said
          /\ \A k \in Alarm!Of("risk") : k.at = "write"
          /\ level' = [level EXCEPT ![j.on] = j.to]
          /\ IF Alarm!Alarms(j.to) THEN job' = (job \ {j}) \cup {[j EXCEPT !.at = "tell"]}
                                     ELSE job' = job \ {j}
      BY <1>3, <1>b DEF Alarm!RiskWrite, Alarm!Of, Alarm!Goes, Entry
    <2>2. \A i \in Items : Alarm!Alarms(level[i]) => said[i] = level[i] BY <2>1 DEF AlarmsTold
    <2>3. PICK new : new = [j EXCEPT !.at = "tell"] OBVIOUS
    <2>4. new.kind = "risk" /\ new.on = j.on /\ new.to = j.to /\ new.at = "tell"
      BY <1>3, <1>b, <2>3, Entries DEF Alarm!RiskWrite, Alarm!Of
    <2>5. \A k \in job' : k.kind = "risk" /\ k.at = "tell" => k = new /\ Alarm!Alarms(j.to) BY <2>1, <2>3 DEF Alarm!Of
    <2>6. Alarm!Alarms(j.to) => new \in job' BY <2>1, <2>3
    <2>7. level'[j.on] = j.to /\ \A i \in Items : i # j.on => level'[i] = level[i] BY <1>b, <2>1
    <2>8. QED BY <2>1, <2>2, <2>4, <2>5, <2>6, <2>7 DEF AlarmsTold, Alarm!Of
  <1>4. ASSUME NEW j \in job, Alarm!RiskTell(j) PROVE AlarmsTold'
    <2>1. /\ j.on \in Items /\ level' = level /\ j.kind = "risk" /\ j.at = "tell"
          /\ said' = [said EXCEPT ![j.on] = j.to] /\ job' = job \ {j} /\ j.to = level[j.on]
      BY <1>4, <1>b DEF Alarm!RiskTell, Alarm!Of, Entry, AlarmsTold
    <2>2. said'[j.on] = level[j.on] /\ \A i \in Items : i # j.on => said'[i] = said[i] BY <1>b, <2>1
    <2>3. QED BY <2>1, <2>2 DEF AlarmsTold, Alarm!Of
  <1>5. ASSUME Alarm!MissingRead \/ Alarm!Expire PROVE AlarmsTold' BY <1>5, <1>a DEF Alarm!MissingRead, Alarm!Expire
  <1>6. CASE Alarm!MissingLook
    <2>1. \A k \in Alarm!Of("quiet") : [k EXCEPT !.at = "tell"].kind = "quiet" BY <1>b, Entries DEF Alarm!Of
    <2>2. QED BY <1>6, <1>a, <2>1 DEF Alarm!MissingLook, Alarm!Of
  <1>7. ASSUME NEW j \in job, Alarm!MissingTell(j) \/ Alarm!Trim(j) PROVE AlarmsTold'
    BY <1>7, <1>a DEF Alarm!MissingTell, Alarm!Trim, Alarm!Of
  <1>8. ASSUME NEW j \in job, Alarm!TrimLook(j) PROVE AlarmsTold'
    <2>1. \A u \in Nat : [j EXCEPT !.at = "write", !.upto = u].kind = "trim"
      BY <1>8, <1>b, Entries DEF Alarm!TrimLook, Alarm!Of
    <2>2. \A n \in Alarm!Boundary : n.at \in Nat BY DEF Alarm!Boundary, Alarm!Unread, WatchTyped, Alarm!TypeOK
    <2>3. QED BY <1>8, <1>a, <2>1, <2>2 DEF Alarm!TrimLook, Alarm!Goes, Alarm!Of
  <1>9. CASE Alarm!Restart BY <1>9, <1>b DEF Alarm!Restart
  <1>10. ASSUME Alarm!Clock \/ Alarm!ReadAll PROVE AlarmsTold' BY <1>10, <1>1 DEF Alarm!Clock, Alarm!ReadAll
  <1>11. ASSUME NEW i \in Items, Alarm!Close(i) \/ \E p \in Alarm!Percent : Alarm!Report(i, p) PROVE AlarmsTold'
    BY <1>11, <1>1 DEF Alarm!Close, Alarm!Report
  <1>12. QED BY <1>2, <1>3, <1>4, <1>5, <1>6, <1>7, <1>8, <1>9, <1>10, <1>11 DEF Alarm!Next, Alarm!Jobs

\* The order of the notices.
LEMMA OrderKept ==
  ASSUME WatchTyped, Ordered, Alarm!Next PROVE Ordered'
  <1> USE DEF Alarm!watch, Alarm!tasks, Alarm!notices
  <1>a. ASSUME UNCHANGED <<sent, tied>>, inbox' \subseteq inbox PROVE Ordered' BY <1>a DEF Ordered
  <1>1. ASSUME UNCHANGED Alarm!notices PROVE Ordered' BY <1>1, <1>a
  <1>2. CASE Alarm!ReadAll
    <2>1. /\ UNCHANGED <<sent, tied>>
          /\ \A m \in inbox' : \E k \in inbox : m = [k EXCEPT !.unread = FALSE] BY <1>2 DEF Alarm!ReadAll
    <2>2. \A m \in inbox' : \E k \in inbox :
            m = [k EXCEPT !.unread = FALSE] /\ m.n = k.n /\ m.at = k.at BY <2>1 DEF WatchTyped, Alarm!TypeOK
    <2>3. \A m \in inbox' : m.n \in 1..sent /\ m.at <= sent BY <2>2 DEF Ordered
    <2>4. ASSUME NEW m \in inbox', NEW k \in inbox'
          PROVE  /\ m.n = k.n => m = k
                 /\ m.n < k.n => m.at <= k.at /\ (m.at = k.at => {m.n, k.n} \subseteq tied)
      <3>1. PICK u \in inbox : m = [u EXCEPT !.unread = FALSE] /\ m.n = u.n /\ m.at = u.at BY <2>2
      <3>2. PICK w \in inbox : k = [w EXCEPT !.unread = FALSE] /\ k.n = w.n /\ k.at = w.at BY <2>2
      <3>3. /\ u.n = w.n => u = w
            /\ u.n < w.n => u.at <= w.at /\ (u.at = w.at => {u.n, w.n} \subseteq tied) BY DEF Ordered
      <3>4. QED BY <3>1, <3>2, <3>3
    <2>5. QED BY <2>1, <2>3, <2>4 DEF Ordered
  <1>3. ASSUME NEW j \in job, Alarm!RiskTell(j) \/ Alarm!MissingTell(j) PROVE Ordered'
    BY <1>3, Told DEF Alarm!RiskTell, Alarm!MissingTell
  <1>4. CASE Alarm!Expire BY <1>4, <1>a DEF Alarm!Expire
  <1>5. ASSUME NEW j \in job, Alarm!Trim(j) PROVE Ordered' BY <1>5, <1>a DEF Alarm!Trim
  <1>6. ASSUME NEW j \in job, Alarm!RiskWrite(j) \/ Alarm!TrimLook(j) PROVE Ordered'
    BY <1>6, <1>1 DEF Alarm!RiskWrite, Alarm!TrimLook
  <1>7. ASSUME Alarm!Clock \/ Alarm!RiskRead \/ Alarm!MissingRead \/ Alarm!MissingLook
                 \/ Alarm!Restart
        PROVE  Ordered'
    BY <1>7, <1>1 DEF Alarm!Clock, Alarm!RiskRead, Alarm!MissingRead, Alarm!MissingLook, Alarm!Restart
  <1>8. ASSUME NEW i \in Items, Alarm!Close(i) \/ \E p \in Alarm!Percent : Alarm!Report(i, p) PROVE Ordered'
    BY <1>8, <1>1 DEF Alarm!Close, Alarm!Report
  <1>9. QED BY <1>2, <1>3, <1>4, <1>5, <1>6, <1>7, <1>8 DEF Alarm!Next, Alarm!Jobs

\* After the notice that is the boundary there are MaxUnread others.
LEMMA BoundaryIsFar ==
  ASSUME WatchTyped, Ordered, NEW b \in Alarm!Boundary PROVE b \in inbox /\ sent - b.n >= MaxUnread
  <1> DEFINE Later == Alarm!Later(b)
             S == (b.n + 1)..sent
             number == [m \in Later |-> m.n]
  <1>1. b \in inbox /\ b.n \in 1..sent /\ sent \in Nat /\ Cardinality(Later) = MaxUnread
    <2>1. b \in inbox /\ sent \in Nat BY DEF Alarm!Boundary, Alarm!Unread, WatchTyped, Alarm!TypeOK
    <2>2. Cardinality(Later) = MaxUnread BY DEF Alarm!Boundary, Alarm!Cardinality, Cardinality
    <2>3. QED BY <2>1, <2>2 DEF Ordered
  <1>2. IsFiniteSet(S) /\ Cardinality(S) = sent - b.n
    <2>1. b.n + 1 \in Int /\ sent \in Int /\ b.n + 1 <= sent + 1 BY <1>1
    <2>2. /\ IsFiniteSet(S)
          /\ Cardinality(S) = IF b.n + 1 > sent THEN 0 ELSE sent - (b.n + 1) + 1 BY <2>1, FS_Interval
    <2>3. QED BY <1>1, <2>2
  <1>3. \A m \in Later : m.n \in S BY <1>1 DEF Alarm!Later, Alarm!Unread, Ordered
  <1>4. number \in Injection(Later, S)
    <2>1. number \in [Later -> S] BY <1>3
    <2>2. \A m, k \in Later : m.n = k.n => m = k BY DEF Alarm!Later, Alarm!Unread, Ordered
    <2>3. IsInjective(number) BY <2>2 DEF IsInjective
    <2>4. QED BY <2>1, <2>3 DEF Injection
  <1>5. Cardinality(Later) <= Cardinality(S)
    <2> HIDE DEF number, Later, S
    <2>1. QED BY <1>2, <1>4, FS_Injection
  <1>6. QED BY <1>1, <1>2, <1>5

\* What the clean-up removes.
LEMMA TrimKept ==
  ASSUME WatchTyped, Ordered, TrimSound, Alarm!Next PROVE TrimSound'
  <1> USE DEF Alarm!watch, Alarm!tasks, Alarm!notices
  <1>a. /\ sent \in Nat /\ MaxUnread \in Nat /\ \A j \in job : Entry(j)
        /\ \A m \in inbox : m.n \in 1..sent BY LimitsAssumption DEF WatchTyped, Alarm!TypeOK, Ordered
  <1>b. ASSUME UNCHANGED trimmed, tied \subseteq tied', sent' \in {sent, sent + 1}
        PROVE  \A n \in trimmed' \ tied' : sent' - n >= MaxUnread
    <2>1. trimmed \subseteq 1..sent BY DEF WatchTyped, Alarm!TypeOK
    <2>2. ASSUME NEW n \in trimmed' \ tied' PROVE sent' - n >= MaxUnread
      <3>1. n \in 1..sent /\ n \in trimmed \ tied BY <1>b, <2>1
      <3>2. sent - n >= MaxUnread BY <3>1 DEF TrimSound
      <3>3. sent \in Nat /\ MaxUnread \in Nat /\ n \in Nat /\ (sent' = sent \/ sent' = sent + 1) BY <1>a, <1>b, <3>1
      <3>4. QED BY <3>2, <3>3
    <2>3. QED BY <2>2
  <1>c. ASSUME UNCHANGED trimmed, tied \subseteq tied', sent' \in {sent, sent + 1},
               \A j \in job' : j.kind = "trim" => j \in job,
               due' \subseteq due,
               \A k \in inbox : \E m \in inbox' : m.n = k.n /\ m.at = k.at
        PROVE  TrimSound'
    <2>1. \A j \in Alarm!Of("trim")' : j \in Alarm!Of("trim") BY <1>c DEF Alarm!Of
    <2>2. ASSUME NEW j \in Alarm!Of("trim"), j.at = "write"
          PROVE  \E k \in inbox' : k.at = j.upto /\ sent' - k.n >= MaxUnread
      <3>1. PICK k \in inbox : k.at = j.upto /\ sent - k.n >= MaxUnread BY <2>2 DEF TrimSound
      <3>2. PICK m \in inbox' : m.n = k.n /\ m.at = k.at BY <1>c
      <3>3. QED BY <1>a, <1>c, <3>1, <3>2
    <2>3. \A j, k \in Alarm!Of("trim")' : j = k BY <2>1 DEF TrimSound
    <2>4. Alarm!Of("trim")' # {} => "cleanup" \notin due' BY <1>c, <2>1 DEF TrimSound
    <2>5. \A j \in Alarm!Of("trim")' : j.at = "write" =>
            \E k \in inbox' : k.at = j.upto /\ sent' - k.n >= MaxUnread BY <2>1, <2>2
    <2>6. QED BY <1>b, <1>c, <2>3, <2>4, <2>5 DEF TrimSound
  <1>d. ASSUME Alarm!Of("trim")' = {}, UNCHANGED <<trimmed, tied, sent>> PROVE TrimSound' BY <1>b, <1>d DEF TrimSound
  <1>1. ASSUME NEW j \in job, Alarm!RiskTell(j) \/ Alarm!MissingTell(j) PROVE TrimSound'
    BY <1>1, <1>c, Told DEF Alarm!RiskTell, Alarm!MissingTell
  <1>2. CASE Alarm!RiskRead
    <2>1. \A j \in job' : j \in job \/ j.kind = "risk" BY <1>2 DEF Alarm!RiskRead
    <2>2. QED BY <1>2, <1>c, <2>1 DEF Alarm!RiskRead
  <1>3. ASSUME NEW j \in job, Alarm!RiskWrite(j) PROVE TrimSound'
    <2>1. [j EXCEPT !.at = "tell"].kind = "risk" BY <1>3, <1>a, Entries DEF Alarm!RiskWrite, Alarm!Of
    <2>2. \A k \in job' : k \in job \/ k.kind = "risk" BY <1>3, <2>1 DEF Alarm!RiskWrite, Alarm!Goes
    <2>3. QED BY <1>3, <1>c, <2>2 DEF Alarm!RiskWrite
  <1>4. CASE Alarm!MissingRead
    <2>1. \A j \in job' : j \in job \/ j.kind = "quiet" BY <1>4 DEF Alarm!MissingRead
    <2>2. QED BY <1>4, <1>c, <2>1 DEF Alarm!MissingRead
  <1>5. CASE Alarm!MissingLook
    <2>1. \A k \in Alarm!Of("quiet") : [k EXCEPT !.at = "tell"].kind = "quiet" BY <1>a, Entries DEF Alarm!Of
    <2>2. \A j \in job' : j \in job \/ j.kind = "quiet" BY <1>5, <2>1 DEF Alarm!MissingLook
    <2>3. QED BY <1>5, <1>c, <2>2 DEF Alarm!MissingLook
  <1>6. CASE Alarm!Expire
    <2>1. PICK new : new = [kind |-> "trim", on |-> "inbox", to |-> "none", at |-> "look",
                            upto |-> 0] OBVIOUS
    <2>2. new.at = "look" /\ Alarm!Of("trim") = {} /\ job' = job \cup {new} /\ "cleanup" \notin due'
      BY <1>6, <2>1 DEF Alarm!Expire, TrimSound
    <2>3. \A j \in Alarm!Of("trim")' : j = new BY <2>2 DEF Alarm!Of
    <2>4. UNCHANGED <<trimmed, tied, sent>> BY <1>6 DEF Alarm!Expire
    <2>5. QED BY <1>b, <2>2, <2>3, <2>4 DEF TrimSound
  <1>7. ASSUME NEW j \in job, Alarm!TrimLook(j) PROVE TrimSound'
    <2>1. /\ j \in Alarm!Of("trim") /\ UNCHANGED <<due, Alarm!notices>>
          /\ "cleanup" \notin due BY <1>7 DEF Alarm!TrimLook, TrimSound
    <2>2. CASE Alarm!Boundary = {}
      <3>1. \A k \in job' : k \in job BY <1>7, <2>2 DEF Alarm!TrimLook
      <3>2. QED BY <1>c, <2>1, <3>1
    <2>3. CASE Alarm!Boundary # {}
      <3>1. PICK n \in Alarm!Boundary :
              job' = (job \ {j}) \cup {[j EXCEPT !.at = "write", !.upto = n.at]}
        BY <1>7, <2>3 DEF Alarm!TrimLook, Alarm!Goes
      <3>2. PICK new : new = [j EXCEPT !.at = "write", !.upto = n.at] OBVIOUS
      <3>3. n \in inbox /\ n.at \in Nat /\ sent - n.n >= MaxUnread BY BoundaryIsFar DEF WatchTyped, Alarm!TypeOK
      <3>4. new.upto = n.at BY <1>a, <3>2, <3>3, Entries
      <3>5. \A k \in Alarm!Of("trim")' : k = new BY <2>1, <3>1, <3>2 DEF Alarm!Of, TrimSound
      <3>6. QED BY <1>b, <2>1, <3>3, <3>4, <3>5 DEF TrimSound
    <2>4. QED BY <2>2, <2>3
  <1>8. ASSUME NEW j \in job, Alarm!Trim(j) PROVE TrimSound'
    <2>1. /\ j \in Alarm!Of("trim") /\ j.at = "write" /\ job' = job \ {j}
          /\ UNCHANGED <<due, sent, tied>>
          /\ \A n \in trimmed' : n \in trimmed \/ \E m \in inbox : n = m.n /\ m.at <= j.upto
      BY <1>8 DEF Alarm!Trim, Alarm!Unread
    <2>2. PICK k \in inbox : k.at = j.upto /\ sent - k.n >= MaxUnread BY <2>1 DEF TrimSound
    <2>3. ASSUME NEW m \in inbox, m.at <= k.at, m.n \notin tied PROVE sent - m.n >= MaxUnread
      <3>1. m.n <= k.n
        <4>1. m.at \in Nat /\ k.at \in Nat /\ m.n \in Nat /\ k.n \in Nat BY DEF WatchTyped, Alarm!TypeOK
        <4>2. ~ k.n < m.n BY <2>3, <4>1 DEF Ordered
        <4>3. QED BY <4>1, <4>2
      <3>2. QED BY <1>a, <2>2, <3>1
    <2>4. \A n \in trimmed' \ tied' : sent' - n >= MaxUnread BY <2>1, <2>2, <2>3 DEF TrimSound
    <2>5. Alarm!Of("trim")' = {} BY <2>1 DEF TrimSound, Alarm!Of
    <2>6. QED BY <2>4, <2>5 DEF TrimSound
  <1>9. ASSUME Alarm!Clock \/ Alarm!Restart PROVE TrimSound' BY <1>9, <1>d DEF Alarm!Clock, Alarm!Restart, Alarm!Of
  <1>10. CASE Alarm!ReadAll
    <2>1. /\ UNCHANGED <<sent, tied, trimmed, job, due>>
          /\ \A m \in inbox : [m EXCEPT !.unread = FALSE] \in inbox' BY <1>10 DEF Alarm!ReadAll
    <2>2. \A m \in inbox : [m EXCEPT !.unread = FALSE].n = m.n /\ [m EXCEPT !.unread = FALSE].at = m.at
      BY DEF WatchTyped, Alarm!TypeOK
    <2>3. QED BY <1>c, <2>1, <2>2
  <1>11. ASSUME NEW i \in Items, Alarm!Close(i) \/ \E p \in Alarm!Percent : Alarm!Report(i, p) PROVE TrimSound'
    BY <1>11, <1>c DEF Alarm!Close, Alarm!Report
  <1>12. QED BY <1>1, <1>2, <1>3, <1>4, <1>5, <1>6, <1>7, <1>8, <1>9, <1>10, <1>11 DEF Alarm!Next, Alarm!Jobs

LEMMA WatchInvariant == Spec => [](area = "watch" => WatchInv)
  <1>1. Init => (area = "watch" => WatchInv)
    <2> SUFFICES ASSUME Init, area = "watch" PROVE WatchInv OBVIOUS
    <2> USE DEF Init, Alarm!Init
    <2>1. Calls["watch"] \in Nat /\ MaxFaults \in Nat /\ Horizon \in Nat /\ Alarm!Never = -3 BY Limits DEF Alarm!Never
    <2>2. WatchTyped BY <2>1 DEF WatchTyped, Alarm!TypeOK, Alarm!Percent, Alarm!Levels
    <2>3. QED BY <2>2 DEF WatchInv, AlarmsTold, Ordered, TrimSound, Alarm!Alarms, Alarm!Of
  <1>2. (area = "watch" => WatchInv) /\ [Next]_vars => (area = "watch" => WatchInv)'
    <2> SUFFICES ASSUME area = "watch", WatchInv, [Next]_vars PROVE WatchInv' BY DEF Next, vars
    <2>1. CASE Alarm!Next
      <3>1. faults' = faults \/ faults' = faults + 1
        <4> USE DEF Alarm!watch
        <4>1. ASSUME NEW j \in job,
                     Alarm!RiskWrite(j) \/ Alarm!RiskTell(j) \/ Alarm!MissingTell(j)
                       \/ Alarm!TrimLook(j) \/ Alarm!Trim(j)
              PROVE  faults' = faults
          BY <4>1 DEF Alarm!RiskWrite, Alarm!RiskTell, Alarm!MissingTell, Alarm!TrimLook, Alarm!Trim
        <4>2. ASSUME Alarm!Clock \/ Alarm!ReadAll \/ Alarm!RiskRead \/ Alarm!MissingRead
                       \/ Alarm!MissingLook \/ Alarm!Expire
              PROVE  faults' = faults
          BY <4>2 DEF Alarm!Clock, Alarm!ReadAll, Alarm!RiskRead, Alarm!MissingRead, Alarm!MissingLook, Alarm!Expire
        <4>3. ASSUME NEW i \in Items, NEW p \in Alarm!Percent,
                     Alarm!Close(i) \/ Alarm!Report(i, p)
              PROVE  faults' = faults BY <4>3 DEF Alarm!Close, Alarm!Report
        <4>4. ASSUME NEW i \in Items, Alarm!Close(i) PROVE faults' = faults BY <4>4 DEF Alarm!Close
        <4>5. CASE Alarm!Restart BY <4>5 DEF Alarm!Restart
        <4>6. QED BY <2>1, <4>1, <4>2, <4>3, <4>4, <4>5 DEF Alarm!Next, Alarm!Jobs
      <3>a. faults \in Nat BY DEF WatchInv, WatchTyped, Alarm!TypeOK
      <3>b. faults' = 0 => faults = 0 BY <3>1, <3>a
      <3>2. QED BY <2>1, <3>b, WatchTypes, AlarmsKept, OrderKept, TrimKept DEF WatchInv
    <2>2. CASE UNCHANGED Watch
      BY <2>2 DEF Watch, WatchInv, WatchTyped, Alarm!TypeOK, Alarm!Of, AlarmsTold, Ordered, TrimSound
    <2>3. QED BY <2>1, <2>2, WatchStep
  <1>3. QED BY <1>1, <1>2, PTL DEF Spec

LEMMA WatchKept == WatchInv => Alarm!TypeOK /\ Alarm!AlarmIsTold /\ Alarm!NewestKeptUnlessTied
  BY DEF WatchInv, WatchTyped, AlarmsTold, TrimSound, Alarm!AlarmIsTold, Alarm!NewestKeptUnlessTied

\* What is handed in is dealt with once, in turns, and in time, and the author of a task is
\* told: checkin.service.ts, checkpoint.service.ts, issue.service.ts, risk-level.cron.ts,
\* notification-cleanup.cron.ts.
THEOREM SubmissionsKept == Spec => []SubmissionsHold
  <1>1. /\ (area = "attendance" => DaysInv) /\ (area = "checkpoints" => CheckpointInv)
        /\ (area = "issues" => IssueInv) /\ (area = "watch" => WatchInv)
        => SubmissionsHold BY DaysKept, CheckpointsKept, IssuesKept, WatchKept DEF SubmissionsHold
  <1>2. QED BY <1>1, DaysInvariant, CheckpointInvariant, IssueInvariant, WatchInvariant, PTL

------------
(* The accounts of a company *)

LEMMA AccountStep ==
  ASSUME area = "accounts", [Next]_vars PROVE area' = "accounts" /\ (Login!Next \/ UNCHANGED AccountVars)
  BY DEF Next, vars, AccountVars, accounts

LEMMA AccountSizes == \A S : Login!Cardinality(S) = Cardinality(S) BY DEF Login!Cardinality, Cardinality

LEMMA AccountTypes ==
  ASSUME AccountTyped, Login!Next PROVE AccountTyped'
  <1> USE DEF AccountTyped, Login!TypeOK, Login!accountVars, Login!limitVars
  <1>a. Calls["accounts"] \in Nat /\ MaxFaults \in Nat /\ calls \in Nat /\ faults \in Nat
    BY BoundsAssumption DEF Areas
  <1>b. {"new", "ip"} \cap Users = {} BY NamesAssumption
  <1>c. ASSUME NEW op \in {"create", "role", "active", "disabled", "deleted", "password"},
               NEW on \in Users \cup {"new", "ip"}, NEW p \in Phones, NEW adm \in BOOLEAN,
               on = "new" <=> op = "create", on = "ip" <=> op = "password",
               Login!Begin(op, on, p, adm), resigned' \in BOOLEAN
        PROVE  AccountTyped'
    <2>1. PICK new : new = [n |-> calls, op |-> op, on |-> on, phone |-> p, admin |-> adm] OBVIOUS
    <2>2. new \in Login!Call /\ AccountCall(new) BY <1>a, <1>c, <2>1 DEF Login!Call, AccountCall
    <2>3. /\ calls' \in 0..Calls["accounts"] /\ run' = run \cup {new}
          /\ raced' \subseteq Users \cup {"new", "ip"}
          /\ UNCHANGED <<account, admin, phone, failures, expires, leaked, faults>>
      BY <1>a, <1>c, <2>1 DEF Login!Begin
    <2>4. QED BY <1>c, <2>2, <2>3
  <1>1. ASSUME NEW op \in Users, NEW p \in Phones, NEW adm \in BOOLEAN, Login!CreateRead(op, p, adm)
        PROVE  AccountTyped' BY <1>1, <1>c DEF Login!CreateRead
  <1>2. ASSUME NEW op \in Users, NEW u \in Users, NEW adm \in BOOLEAN, Login!RoleRead(op, u, adm) PROVE AccountTyped'
    BY <1>2, <1>b, <1>c DEF Login!RoleRead
  <1>3. ASSUME NEW op \in Users, NEW u \in Users, NEW to \in {"active", "disabled", "deleted"},
               Login!StatusRead(op, u, to)
        PROVE  AccountTyped'
    <2>1. /\ phone[u] \in Phones /\ (u = "new" <=> to = "create") /\ (u = "ip" <=> to = "password")
          /\ resigned' = resigned /\ Login!Begin(to, u, phone[u], FALSE) BY <1>3, <1>b DEF Login!StatusRead
    <2>2. QED BY <1>c, <2>1
  <1>4. ASSUME NEW p \in Phones, Login!LoginRead(p) PROVE AccountTyped' BY <1>4, <1>c DEF Login!LoginRead
  <1>5. ASSUME NEW h \in run, NEW u \in Users, Login!CreateWrite(h, u) PROVE AccountTyped'
    BY <1>5 DEF Login!CreateWrite, Login!Ends, Login!Keeps, Login!Call
  <1>6. ASSUME NEW h \in run, Login!Write(h) PROVE AccountTyped'
    <2>1. h \in Login!Call /\ h.op \in {"role", "active", "disabled", "deleted"} /\ h.on \in Users
      BY <1>6, <1>b DEF Login!Write, Login!Call, AccountCall
    <2>2. account' \in [Users -> {"none", "active", "disabled", "deleted"}] BY <1>6, <2>1 DEF Login!Write
    <2>3. admin' \in [Users -> BOOLEAN] BY <1>6, <2>1 DEF Login!Write, Login!Call
    <2>4. QED BY <1>6, <2>2, <2>3 DEF Login!Write, Login!Ends, Login!Keeps
  <1>7. ASSUME NEW h \in run, Login!LoginGood(h) PROVE AccountTyped'
    <2>1. \/ failures' = 0 /\ expires' = FALSE
          \/ failures' = failures /\ expires' = expires BY <1>7 DEF Login!LoginGood
    <2>2. failures' \in Nat BY <2>1
    <2>3. expires' \in BOOLEAN BY <2>1
    <2>4. QED BY <1>7, <2>2, <2>3 DEF Login!LoginGood, Login!Ends, Login!Keeps
  <1>8. ASSUME NEW h \in run, Login!Count(h) PROVE AccountTyped'
    <2>1. PICK new : new = [h EXCEPT !.op = "expire"] OBVIOUS
    <2>2. new \in Login!Call /\ AccountCall(new) BY <1>8, <2>1 DEF Login!Count, Login!Call, AccountCall
    <2>3. run' \subseteq run \cup {new} /\ failures' \in Nat
          /\ UNCHANGED <<account, admin, phone, expires, resigned, leaked, raced, calls, faults>>
      BY <1>8, <2>1 DEF Login!Count, Login!Keeps
    <2>4. QED BY <2>2, <2>3
  <1>9. ASSUME NEW h \in run, Login!SetExpiry(h) PROVE AccountTyped'
    BY <1>9 DEF Login!SetExpiry, Login!Ends, Login!Keeps
  <1>10. ASSUME NEW h \in run, Login!Stop(h) PROVE AccountTyped'
    <2>1. faults' \in 0..MaxFaults BY <1>10, <1>a DEF Login!Stop
    <2>2. QED BY <1>10, <2>1 DEF Login!Stop, Login!Ends
  <1>11. CASE Login!KeyExpires BY <1>11 DEF Login!KeyExpires, Login!Keeps
  <1>12. QED BY <1>1, <1>2, <1>3, <1>4, <1>5, <1>6, <1>7, <1>8, <1>9, <1>10, <1>11 DEF Login!Next

LEMMA AccountMoves ==
  ASSUME AccountTyped, Login!Next, OneCallEach
  PROVE  \/ \E new : AccountBegins(new)
         \/ \E h, u : AccountMade(h, u)
         \/ \E h : AccountWritten(h)
         \/ AccountIdle
  <1> USE DEF Login!accountVars, Login!limitVars
  <1>a. /\ {"new", "ip"} \cap Users = {} /\ Owner \in Users
        /\ \A h \in run : AccountCall(h) BY NamesAssumption DEF AccountTyped
  <1>b. ASSUME NEW op, NEW on, NEW p, NEW adm, Login!Begin(op, on, p, adm)
        PROVE  \E new : /\ new.op = op /\ new.on = on /\ new.phone = p /\ new.admin = adm
                        /\ run' = run \cup {new} /\ UNCHANGED <<account, admin, phone>>
                        /\ raced' = IF \E h \in run : h.on = on THEN raced \cup {on} ELSE raced
    <2>1. PICK new : new = [n |-> calls, op |-> op, on |-> on, phone |-> p, admin |-> adm] OBVIOUS
    <2>2. new.op = op /\ new.on = on /\ new.phone = p /\ new.admin = adm BY <2>1
    <2>3. QED BY <1>b, <2>1, <2>2 DEF Login!Begin
  <1>1. ASSUME NEW op \in Users, NEW p \in Phones, NEW adm \in BOOLEAN, Login!CreateRead(op, p, adm)
        PROVE  \E new : AccountBegins(new)
    <2>1. PICK new : /\ new.op = "create" /\ new.on = "new" /\ new.phone = p
                     /\ run' = run \cup {new} /\ UNCHANGED <<account, admin, phone>>
                     /\ raced' = IF \E h \in run : h.on = "new" THEN raced \cup {"new"} ELSE raced
      BY <1>1, <1>b DEF Login!CreateRead
    <2>2. QED BY <1>1, <1>a, <2>1, AccountSizes DEF Login!CreateRead, AccountBegins, AccountCall
  <1>2. ASSUME NEW op \in Users, NEW u \in Users, NEW adm \in BOOLEAN, Login!RoleRead(op, u, adm)
        PROVE  \E new : AccountBegins(new)
    <2>1. PICK new : /\ new.op = "role" /\ new.on = u /\ new.admin = adm
                     /\ run' = run \cup {new} /\ UNCHANGED <<account, admin, phone>>
                     /\ raced' = IF \E h \in run : h.on = u THEN raced \cup {u} ELSE raced
      BY <1>2, <1>b DEF Login!RoleRead
    <2>2. /\ u \in Login!There /\ (resigned => resigned')
          /\ admin[u] => adm \/ resigned' BY <1>2 DEF Login!RoleRead
    <2>3. QED BY <1>a, <2>1, <2>2 DEF AccountBegins, AccountCall
  <1>3. ASSUME NEW op \in Users, NEW u \in Users, NEW to \in {"active", "disabled", "deleted"},
               Login!StatusRead(op, u, to)
        PROVE  \E new : AccountBegins(new)
    <2>0. Login!Begin(to, u, phone[u], FALSE) BY <1>3 DEF Login!StatusRead
    <2>a. PICK new : new = [n |-> calls, op |-> to, on |-> u, phone |-> phone[u], admin |-> FALSE] OBVIOUS
    <2>1. /\ new.op = to /\ new.on = u
          /\ run' = run \cup {new} /\ UNCHANGED <<account, admin, phone>>
          /\ raced' = IF \E h \in run : h.on = u THEN raced \cup {u} ELSE raced BY <2>0, <2>a DEF Login!Begin
    <2>2. u \in Login!There /\ resigned' = resigned /\ ~ admin[u] BY <1>3 DEF Login!StatusRead
    <2>3. QED BY <1>a, <2>1, <2>2 DEF AccountBegins, AccountCall
  <1>4. ASSUME NEW p \in Phones, Login!LoginRead(p) PROVE \E new : AccountBegins(new)
    <2>0. Login!Begin("password", "ip", p, FALSE) BY <1>4 DEF Login!LoginRead
    <2>a. PICK new : new = [n |-> calls, op |-> "password", on |-> "ip", phone |-> p, admin |-> FALSE] OBVIOUS
    <2>1. /\ new.op = "password" /\ new.on = "ip"
          /\ run' = run \cup {new} /\ UNCHANGED <<account, admin, phone>>
          /\ raced' = IF \E h \in run : h.on = "ip" THEN raced \cup {"ip"} ELSE raced BY <2>0, <2>a DEF Login!Begin
    <2>2. QED BY <1>4, <1>a, <2>1 DEF Login!LoginRead, AccountBegins, AccountCall
  <1>5. ASSUME NEW h \in run, NEW u \in Users, Login!CreateWrite(h, u) PROVE AccountMade(h, u)
    BY <1>5 DEF Login!CreateWrite, Login!Ends, Login!Keeps, Login!Unused, AccountMade
  <1>6. ASSUME NEW h \in run, Login!Write(h) PROVE AccountWritten(h)
    BY <1>6 DEF Login!Write, Login!Ends, Login!Keeps, AccountWritten
  <1>7. ASSUME NEW h \in run, Login!LoginGood(h) \/ Login!SetExpiry(h) \/ Login!Stop(h) PROVE AccountIdle
    BY <1>7 DEF Login!LoginGood, Login!SetExpiry, Login!Stop, Login!Ends, Login!Keeps, AccountIdle
  <1>8. ASSUME NEW h \in run, Login!Count(h) PROVE AccountIdle
    <2>1. PICK new : new = [h EXCEPT !.op = "expire"] OBVIOUS
    <2>2. new.op = "expire" /\ new.on = "ip" /\ h.on = "ip"
      BY <1>8, <1>a, <2>1 DEF Login!Count, AccountCall, AccountTyped, Login!TypeOK, Login!Call
    <2>3. /\ UNCHANGED <<account, admin, phone, resigned, raced>>
          /\ \A g \in run' : g = new \/ (g \in run /\ g # h) BY <1>8, <2>1 DEF Login!Count, Login!Keeps
    <2>4. ASSUME NEW g \in run', NEW k \in run', g.on = "ip", k.on = "ip", "ip" \notin raced, g # k
          PROVE  {g, k} \subseteq run BY <2>2, <2>3, <2>4 DEF OneCallEach
    <2>5. QED BY <2>2, <2>3, <2>4 DEF AccountIdle
  <1>9. CASE Login!KeyExpires BY <1>9 DEF Login!KeyExpires, Login!Keeps, AccountIdle
  <1>10. QED BY <1>1, <1>2, <1>3, <1>4, <1>5, <1>6, <1>7, <1>8, <1>9 DEF Login!Next

LEMMA CallsStayApart ==
  ASSUME AccountTyped, OneCallEach, Login!Next PROVE OneCallEach'
  <1>1. ASSUME NEW new, AccountBegins(new) PROVE OneCallEach' BY <1>1 DEF AccountBegins, OneCallEach
  <1>2. ASSUME NEW h, NEW u, AccountMade(h, u) \/ AccountWritten(h) PROVE OneCallEach'
    BY <1>2 DEF AccountMade, AccountWritten, OneCallEach
  <1>3. CASE AccountIdle BY <1>3 DEF AccountIdle, OneCallEach
  <1>4. QED BY <1>1, <1>2, <1>3, AccountMoves

LEMMA OwnerKept ==
  ASSUME AccountTyped, OneCallEach, OwnerStays, Login!Next PROVE OwnerStays'
  <1>a. /\ Owner \in Users /\ {"new", "ip"} \cap Users = {}
        /\ account \in [Users -> {"none", "active", "disabled", "deleted"}]
        /\ admin \in [Users -> BOOLEAN] BY NamesAssumption DEF AccountTyped, Login!TypeOK
  <1>1. ASSUME NEW new, AccountBegins(new) PROVE OwnerStays' BY <1>1, <1>a DEF AccountBegins, OwnerStays
  <1>2. ASSUME NEW h, NEW u, AccountMade(h, u) PROVE OwnerStays'
    <2>1. ~resigned /\ raced \cap Users = {} => u # Owner BY <1>2 DEF AccountMade, OwnerStays
    <2>2. u # Owner => account'[Owner] = account[Owner] /\ admin'[Owner] = admin[Owner] BY <1>2, <1>a DEF AccountMade
    <2>3. UNCHANGED <<resigned, raced>> /\ run' \subseteq run BY <1>2 DEF AccountMade
    <2>4. QED BY <2>1, <2>2, <2>3 DEF OwnerStays
  <1>3. ASSUME NEW h, AccountWritten(h) PROVE OwnerStays'
    <2>1. UNCHANGED <<resigned, raced>> /\ run' \subseteq run /\ h \in run BY <1>3 DEF AccountWritten
    <2>2. CASE h.on # Owner
      <3>1. account'[Owner] = account[Owner] /\ admin'[Owner] = admin[Owner] BY <1>3, <1>a, <2>2 DEF AccountWritten
      <3>2. QED BY <2>1, <3>1 DEF OwnerStays
    <2>3. CASE h.on = Owner
      <3>1. SUFFICES ASSUME ~resigned, raced \cap Users = {} PROVE OwnerStays' BY <2>1 DEF OwnerStays
      <3>2. h.op = "role" /\ h.admin BY <2>1, <2>3, <3>1 DEF OwnerStays
      <3>3. account' = account /\ admin'[Owner] = h.admin BY <1>3, <1>a, <2>3, <3>2 DEF AccountWritten
      <3>4. QED BY <2>1, <3>2, <3>3 DEF OwnerStays
    <2>4. QED BY <2>2, <2>3
  <1>4. CASE AccountIdle BY <1>4, <1>a DEF AccountIdle, OwnerStays
  <1>5. QED BY <1>1, <1>2, <1>3, <1>4, AccountMoves

LEMMA NumbersKept ==
  ASSUME AccountTyped, OneCallEach, AccountsApart, IsFiniteSet(Login!There), Login!Next
  PROVE  AccountsApart' /\ IsFiniteSet(Login!There)'
  <1>a. /\ {"new", "ip"} \cap Users = {} /\ MaxAccounts \in Nat
        /\ account \in [Users -> {"none", "active", "disabled", "deleted"}]
        /\ phone \in [Users -> Phones] /\ \A h \in run : AccountCall(h)
    BY NamesAssumption, LimitsAssumption DEF AccountTyped, Login!TypeOK
  <1>b. ASSUME UNCHANGED <<account, phone>>
        PROVE  /\ Login!There' = Login!There
               /\ \A p : Login!Taken(p)' = Login!Taken(p) BY <1>b DEF Login!There, Login!Taken
  <1>1. ASSUME NEW new, AccountBegins(new) PROVE AccountsApart' /\ IsFiniteSet(Login!There)'
    <2>1. UNCHANGED <<account, phone>> /\ raced \subseteq raced' /\ run' = run \cup {new} BY <1>1 DEF AccountBegins
    <2>2. IsFiniteSet(Login!There)' BY <1>b, <2>1
    <2>3. QED BY <1>1, <1>b, <2>1, <2>2 DEF AccountBegins, AccountsApart
  <1>2. ASSUME NEW h, NEW u, AccountMade(h, u) PROVE AccountsApart' /\ IsFiniteSet(Login!There)'
    <2>1. /\ Login!There' = Login!There \cup {u} /\ u \notin Login!There
          /\ phone'[u] = h.phone /\ \A v \in Users : v # u => phone'[v] = phone[v]
          /\ u \in Users /\ Login!There \subseteq Users BY <1>2, <1>a DEF AccountMade, Login!There
    <2>2. IsFiniteSet(Login!There)' /\
          Cardinality(Login!There)' = Cardinality(Login!There) + 1 BY <2>1, FS_AddElement
    <2>3. CASE raced \subseteq {"ip"}
      <3>1. h \in run /\ h.op = "create" /\ h.on = "new" /\ run' = run \ {h}
        BY <1>2, <1>a DEF AccountMade, AccountCall
      <3>2. Cardinality(Login!There) < MaxAccounts /\ ~ Login!Taken(h.phone) BY <2>3, <3>1 DEF AccountsApart
      <3>3. \A g \in run' : g.op # "create" BY <1>a, <2>3, <3>1 DEF AccountCall, OneCallEach
      <3>4. \A v \in Login!There : phone[v] # h.phone BY <3>2 DEF Login!Taken
      <3>5. \A v, w \in Login!There' : phone'[v] = phone'[w] => v = w BY <2>1, <2>3, <3>4 DEF AccountsApart
      <3>6. Cardinality(Login!There) \in Nat BY FS_CardinalityType
      <3>7. Cardinality(Login!There)' <= MaxAccounts BY <1>a, <2>2, <3>2, <3>6
      <3>8. \A g \in run' : g.on \in Users => g.on \in Login!There' BY <2>1, <2>3, <3>1 DEF AccountsApart
      <3>9. QED BY <2>2, <3>3, <3>5, <3>7, <3>8 DEF AccountsApart
    <2>4. QED BY <1>2, <2>2, <2>3 DEF AccountMade, AccountsApart
  <1>3. ASSUME NEW h, AccountWritten(h) PROVE AccountsApart' /\ IsFiniteSet(Login!There)'
    <2>1. /\ h \in run /\ run' = run \ {h} /\ h.on \in Users /\ UNCHANGED <<phone, raced>>
          /\ \A v \in Users : v # h.on => account'[v] = account[v] BY <1>3, <1>a DEF AccountWritten
    <2>2. /\ Login!There' \subseteq Login!There \cup {h.on}
          /\ \A v \in Login!There : v # h.on => v \in Login!There' BY <2>1 DEF Login!There
    <2>3. IsFiniteSet(Login!There \cup {h.on}) BY FS_AddElement
    <2>4. IsFiniteSet(Login!There)' BY <2>2, <2>3, FS_Subset
    <2>5. CASE raced \subseteq {"ip"}
      <3>1. h.on \in Login!There BY <2>1, <2>5 DEF AccountsApart
      <3>2. Login!There' \in SUBSET Login!There BY <2>2, <3>1
      <3>3. /\ Cardinality(Login!There') <= Cardinality(Login!There)
            /\ Cardinality(Login!There') \in Nat /\ Cardinality(Login!There) \in Nat
        BY <2>4, <3>2, FS_Subset, FS_CardinalityType
      <3>4. \A g \in run' : g.on # h.on BY <1>a, <2>1, <2>5 DEF OneCallEach
      <3>5. \A g \in run' : g.on \in Users => g.on \in Login!There' BY <2>1, <2>2, <2>5, <3>4 DEF AccountsApart
      <3>6. \A p : Login!Taken(p)' => Login!Taken(p) BY <2>1, <3>2 DEF Login!Taken
      <3>7. \A g \in run' : g.op = "create" =>
              Cardinality(Login!There') < MaxAccounts /\ ~ Login!Taken(g.phone)'
        BY <1>a, <2>1, <2>5, <3>3, <3>6 DEF AccountsApart
      <3>8. /\ Cardinality(Login!There') <= MaxAccounts
            /\ \A v, w \in Login!There' : phone'[v] = phone'[w] => v = w
        BY <1>a, <2>1, <2>5, <3>2, <3>3 DEF AccountsApart
      <3>9. QED BY <2>4, <3>5, <3>7, <3>8 DEF AccountsApart
    <2>6. QED BY <2>1, <2>4, <2>5 DEF AccountsApart
  <1>4. CASE AccountIdle
    <2>1. UNCHANGED <<account, phone, raced>> /\ \A g \in run' : g \in run \/ (g.op = "expire" /\ g.on = "ip")
      BY <1>4 DEF AccountIdle
    <2>2. IsFiniteSet(Login!There)' BY <1>b, <2>1
    <2>3. QED BY <1>a, <1>b, <2>1, <2>2 DEF AccountsApart
  <1>5. QED BY <1>1, <1>2, <1>3, <1>4, AccountMoves

LEMMA AccountInvariant == Spec => [](area = "accounts" => AccountInv)
  <1>1. Init => (area = "accounts" => AccountInv)
    <2> SUFFICES ASSUME Init PROVE AccountInv OBVIOUS
    <2> USE DEF Init, Login!Init
    <2>1. /\ Owner \in Users /\ Phones # {} /\ Calls["accounts"] \in Nat /\ MaxFaults \in Nat
          /\ MaxAccounts \in Nat \ {0} BY NamesAssumption, BoundsAssumption, LimitsAssumption DEF Areas
    <2>2. (CHOOSE p \in Phones : TRUE) \in Phones BY <2>1
    <2>a. /\ account \in [Users -> {"none", "active", "disabled", "deleted"}]
          /\ phone \in [Users -> Phones] BY <2>1, <2>2
    <2>b. admin \in [Users -> BOOLEAN] OBVIOUS
    <2>c. expires \in BOOLEAN /\ resigned \in BOOLEAN /\ leaked \in BOOLEAN OBVIOUS
    <2>d. failures \in Nat /\ run = {} /\ raced = {} /\ calls \in 0..Calls["accounts"]
          /\ faults \in 0..MaxFaults BY <2>1
    <2> HIDE DEF Init, Login!Init
    <2>3. AccountTyped BY <2>a, <2>b, <2>c, <2>d DEF AccountTyped, Login!TypeOK
    <2>4. Login!There = {Owner} BY <2>1 DEF Login!There, Init, Login!Init
    <2>5. IsFiniteSet(Login!There) /\ Cardinality(Login!There) = 1 BY <2>4, FS_Singleton
    <2>6. AccountsApart BY <2>1, <2>4, <2>5, <2>d DEF AccountsApart
    <2>7. account[Owner] = "active" /\ admin[Owner] BY <2>1 DEF Init, Login!Init
    <2>8. QED BY <2>3, <2>5, <2>6, <2>7, <2>d DEF AccountInv, OneCallEach, OwnerStays
  <1>2. (area = "accounts" => AccountInv) /\ [Next]_vars => (area = "accounts" => AccountInv)'
    <2> SUFFICES ASSUME area = "accounts", AccountInv, [Next]_vars PROVE AccountInv' BY DEF Next, vars
    <2>1. CASE Login!Next BY <2>1, AccountTypes, CallsStayApart, OwnerKept, NumbersKept DEF AccountInv
    <2>2. CASE UNCHANGED AccountVars
      BY <2>2 DEF AccountVars, AccountInv, AccountTyped, Login!TypeOK, Login!There, OneCallEach, OwnerStays,
         AccountsApart, Login!Taken
    <2>3. QED BY <2>1, <2>2, AccountStep
  <1>3. QED BY <1>1, <1>2, PTL DEF Spec

LEMMA AccountsKept ==
  AccountInv => /\ Login!TypeOK /\ Login!AdminRemainsUnlessRaced
                /\ Login!OneNumberEachUnlessRaced
  BY NamesAssumption, AccountSizes DEF AccountInv, AccountTyped, OwnerStays, AccountsApart,
     Login!AdminRemainsUnlessRaced, Login!OneNumberEachUnlessRaced

------------
(* The records of workers *)

LEMMA WorkerStep ==
  ASSUME area = "workers", [Next]_vars PROVE area' = "workers" /\ (Person!Next \/ UNCHANGED WorkerVars)
  BY DEF Next, vars, WorkerVars, workers

\* A list of a profile with an entry less, and with one more.
LEMMA ListShrinks ==
  ASSUME NEW S, NEW s \in Seq(S), NEW i \in 1..Len(s)
  PROVE  /\ Person!Without(s, i) \in Seq(S) /\ Len(Person!Without(s, i)) < Len(s)
         /\ \A e : Has(Person!Without(s, i), e) => Has(s, e)
         /\ Person!IsInjective(s) => Person!IsInjective(Person!Without(s, i))
  <1> DEFINE t == Person!Without(s, i)
             at(j) == IF j < i THEN j ELSE j + 1
  <1>1. /\ t \in Seq(S) /\ Len(t) = Len(s) - 1
        /\ \A j \in 1..Len(t) : t[j] = s[at(j)]
    <2> DEFINE a == SubSeq(s, 1, i - 1)
               b == SubSeq(s, i + 1, Len(s))
    <2>1. /\ a \in Seq(S) /\ Len(a) = i - 1 /\ \A j \in 1..(i - 1) : a[j] = s[j] OBVIOUS
    <2>2. /\ b \in Seq(S) /\ Len(b) = Len(s) - i /\ \A j \in 1..(Len(s) - i) : b[j] = s[i + j] OBVIOUS
    <2>3. t = a \o b BY DEF Person!Without
    <2> HIDE DEF a, b, t
    <2>a. Len(a) \in Nat /\ Len(b) \in Nat BY <2>1, <2>2
    <2>4. /\ t \in Seq(S) /\ Len(t) = Len(a) + Len(b)
          /\ \A j \in 1..Len(t) : t[j] = IF j <= Len(a) THEN a[j] ELSE b[j - Len(a)]
      <3>1. a \in Seq(S) /\ b \in Seq(S) BY <2>1, <2>2
      <3>2. /\ a \o b \in Seq(S) /\ Len(a \o b) = Len(a) + Len(b)
            /\ \A j \in 1..(Len(a) + Len(b)) :
                 (a \o b)[j] = IF j <= Len(a) THEN a[j] ELSE b[j - Len(a)] BY <3>1, ConcatProperties, Zenon
      <3>3. QED BY <2>3, <3>2
    <2>5. Len(s) \in Nat /\ Len(t) = Len(s) - 1 BY <2>1, <2>2, <2>4
    <2>6. ASSUME NEW j \in 1..Len(t) PROVE t[j] = s[at(j)]
      <3>1. CASE j < i BY <2>1, <2>4, <2>5, <3>1
      <3>2. CASE j >= i
        <4>1. j - (i - 1) \in 1..(Len(s) - i) /\ ~ j <= Len(a) /\ ~ j < i BY <2>1, <2>5, <3>2
        <4>2. t[j] = b[j - (i - 1)] BY <2>1, <2>4, <4>1
        <4>3. b[j - (i - 1)] = s[i + (j - (i - 1))] /\ i + (j - (i - 1)) = j + 1 BY <2>2, <2>5, <4>1
        <4>4. QED BY <4>1, <4>2, <4>3
      <3>3. QED BY <2>5, <3>1, <3>2
    <2>7. QED BY <2>4, <2>5, <2>6
  <1>2. /\ Len(s) \in Nat /\ DOMAIN s = 1..Len(s) /\ DOMAIN t = 1..Len(t) BY <1>1
  <1>3. \A j \in 1..Len(t) : at(j) \in 1..Len(s) BY <1>1, <1>2
  <1>4. \A e : Has(t, e) => Has(s, e) BY <1>1, <1>3 DEF Has
  <1>5. \A j, k \in 1..Len(t) : at(j) = at(k) => j = k BY <1>1, <1>2
  <1>6. Person!IsInjective(s) => Person!IsInjective(t)
    <2> HIDE DEF t, at
    <2>1. QED BY <1>1, <1>2, <1>3, <1>5 DEF Person!IsInjective
  <1>7. QED BY <1>1, <1>2, <1>4, <1>6

LEMMA ListGrows ==
  ASSUME NEW S, NEW s \in Seq(S), NEW e \in S
  PROVE  /\ Append(s, e) \in Seq(S) /\ Len(Append(s, e)) = Len(s) + 1 /\ Len(s) \in Nat
         /\ Person!IsInjective(s) /\ ~ Has(s, e) => Person!IsInjective(Append(s, e))
  <1>1. /\ Append(s, e) \in Seq(S) /\ Len(Append(s, e)) = Len(s) + 1 /\ Len(s) \in Nat
        /\ \A i \in 1..Len(s) : Append(s, e)[i] = s[i]
        /\ Append(s, e)[Len(s) + 1] = e
        /\ DOMAIN s = 1..Len(s) /\ DOMAIN Append(s, e) = 1..(Len(s) + 1) OBVIOUS
  <1>2. ASSUME Person!IsInjective(s), ~ Has(s, e),
               NEW i \in 1..(Len(s) + 1), NEW j \in 1..(Len(s) + 1), Append(s, e)[i] = Append(s, e)[j]
        PROVE  i = j
    <2>1. i \in 1..Len(s) \/ i = Len(s) + 1 BY <1>1
    <2>2. j \in 1..Len(s) \/ j = Len(s) + 1 BY <1>1
    <2>3. QED BY <1>1, <1>2, <2>1, <2>2 DEF Person!IsInjective, Has
  <1>3. QED BY <1>1, <1>2 DEF Person!IsInjective

\* A row with another field.
LEMMA RowChanges ==
  ASSUME NEW f \in [People -> Person!Row], NEW p \in People
  PROVE  /\ \A v \in Phones : LET g == [f EXCEPT ![p].phone = v]
              IN /\ g \in [People -> Person!Row] /\ g[p].phone = v
                 /\ g[p].card = f[p].card /\ g[p].rows = f[p].rows
                 /\ \A q \in People \ {p} : g[q] = f[q]
         /\ \A v \in Cards : LET g == [f EXCEPT ![p].card = v]
              IN /\ g \in [People -> Person!Row] /\ g[p].card = v
                 /\ g[p].phone = f[p].phone /\ g[p].rows = f[p].rows
                 /\ \A q \in People \ {p} : g[q] = f[q]
         /\ LET g == [f EXCEPT ![p].rows = f[p].rows + 1]
            IN /\ g \in [People -> Person!Row] /\ g[p].card = f[p].card
               /\ g[p].phone = f[p].phone /\ g[p].rows = f[p].rows + 1
               /\ \A q \in People \ {p} : g[q] = f[q] BY DEF Person!Row

LEMMA WorkerTypes ==
  ASSUME WorkerTyped, Person!Next PROVE WorkerTyped'
  <1> USE DEF WorkerTyped, Person!TypeOK, Person!records
  <1>a. Calls["workers"] \in Nat /\ calls \in Nat BY BoundsAssumption DEF Areas
  <1>b. ASSUME NEW op \in {"register", "bind", "compare", "role", "work"}, NEW p \in People,
               NEW v \in Phones \cup Cards \cup Names \cup {None}, NEW i \in Nat,
               op = "bind" => v \in Phones, op = "compare" => v \in Cards, op = "role" => v \in Names,
               Person!Begin(op, p, v, i)
        PROVE  WorkerTyped'
    <2>1. PICK new : new = [n |-> calls, op |-> op, of |-> p, value |-> v, order |-> i] OBVIOUS
    <2>2. WorkerCall(new) /\ new \in Person!Call BY <1>a, <1>b, <2>1 DEF Person!Call, WorkerCall
    <2>3. /\ calls' \in 0..Calls["workers"] /\ run' = run \cup {new}
          /\ UNCHANGED <<worker, wallet, roles, works, proved>> BY <1>a, <1>b, <2>1 DEF Person!Begin
    <2>4. \A x \in raced' : x \in raced \/ \E h \in run : x \in {h.of, h.value, p, v} \ {None}
      BY <1>b DEF Person!Begin
    <2>5. \A h \in run \cup {new} :
            {h.of, h.value} \ {None} \subseteq People \cup Phones \cup Cards \cup Names BY <2>2 DEF Person!Call
    <2>6. new.of = p /\ new.value = v BY <2>1
    <2>7. raced' \subseteq People \cup Phones \cup Cards \cup Names BY <2>4, <2>5, <2>6
    <2>8. QED BY <2>2, <2>3, <2>7
  <1>c. ASSUME NEW h \in run, run' \subseteq run \cup {[h EXCEPT !.op = "verify"]}, h.op = "compare"
        PROVE  run' \subseteq Person!Call /\ \A g \in run' : WorkerCall(g) BY <1>c DEF Person!Call, WorkerCall
  <1>d. \A h \in run : h.of \in People /\ h.order \in Nat /\ WorkerCall(h) BY DEF Person!Call
  <1>1. ASSUME NEW p \in People, Person!LoginRead(p) PROVE WorkerTyped' BY <1>1, <1>b DEF Person!LoginRead
  <1>2. ASSUME NEW p \in People, Person!WorkRead(p) PROVE WorkerTyped'
    <2>1. Len(works[p]) \in Nat OBVIOUS
    <2>2. QED BY <1>2, <1>b, <2>1 DEF Person!WorkRead
  <1>3. ASSUME NEW p \in People, NEW v \in Phones, Person!BindRead(p, v) PROVE WorkerTyped'
    BY <1>3, <1>b DEF Person!BindRead
  <1>4. ASSUME NEW p \in People, NEW v \in Cards, Person!VerifyRead(p, v) PROVE WorkerTyped'
    BY <1>4, <1>b DEF Person!VerifyRead
  <1>5. ASSUME NEW p \in People, NEW v \in Names, Person!RoleRead(p, v) PROVE WorkerTyped'
    BY <1>5, <1>b DEF Person!RoleRead
  <1>6. ASSUME NEW p \in People, NEW i \in DOMAIN roles[p], Person!DeleteRole(p, i) PROVE WorkerTyped'
    <2>1. roles[p] \in Seq(Names) /\ i \in 1..Len(roles[p]) OBVIOUS
    <2>2. Person!Without(roles[p], i) \in Seq(Names) BY <2>1, ListShrinks
    <2>3. roles' \in [People -> Seq(Names)] BY <1>6, <2>2 DEF Person!DeleteRole
    <2>4. QED BY <1>6, <2>3 DEF Person!DeleteRole, Person!Keeps
  <1>7. ASSUME NEW p \in People, NEW i \in DOMAIN works[p], Person!DeleteWork(p, i) PROVE WorkerTyped'
    <2>1. works[p] \in Seq(Nat) /\ i \in 1..Len(works[p]) OBVIOUS
    <2>2. Person!Without(works[p], i) \in Seq(Nat) BY <2>1, ListShrinks
    <2>3. works' \in [People -> Seq(Nat)] BY <1>7, <2>2 DEF Person!DeleteWork
    <2>4. QED BY <1>7, <2>3 DEF Person!DeleteWork, Person!Keeps
  <1>8. ASSUME NEW h \in run, Person!Register(h) PROVE WorkerTyped'
    <2>1. worker' \in [People -> Person!Row] /\ wallet' \in [People -> Nat]
      <3>1. CASE Person!Known(h.of) BY <1>8, <3>1 DEF Person!Register
      <3>2. CASE ~ Person!Known(h.of)
        <4>1. /\ worker' = [worker EXCEPT ![h.of].rows = worker[h.of].rows + 1]
              /\ wallet' = [wallet EXCEPT ![h.of] = wallet[h.of] + 1] BY <1>8, <3>2 DEF Person!Register
        <4>2. worker' \in [People -> Person!Row] BY <1>d, <4>1, RowChanges
        <4>3. wallet' \in [People -> Nat] BY <1>d, <4>1
        <4>4. QED BY <4>2, <4>3
      <3>3. QED BY <3>1, <3>2
    <2>2. QED BY <1>8, <2>1 DEF Person!Register, Person!Ends, Person!Keeps
  <1>9. ASSUME NEW h \in run, Person!Bind(h) PROVE WorkerTyped'
    <2>1. worker' \in [People -> Person!Row] BY <1>9, <1>d, RowChanges DEF Person!Bind, WorkerCall
    <2>2. QED BY <1>9, <2>1 DEF Person!Bind, Person!Ends, Person!Keeps
  <1>10. ASSUME NEW h \in run, Person!Compare(h) PROVE WorkerTyped'
    <2>1. /\ run' \subseteq run \cup {[h EXCEPT !.op = "verify"]} /\ h.op = "compare"
          /\ UNCHANGED <<worker, wallet, roles, works, proved, raced, calls>>
      BY <1>10 DEF Person!Compare, Person!Keeps
    <2>2. QED BY <1>c, <2>1
  <1>11. ASSUME NEW h \in run, Person!Refuse(h) PROVE WorkerTyped'
    BY <1>11 DEF Person!Refuse, Person!Ends, Person!Keeps
  <1>12. ASSUME NEW h \in run, Person!Verify(h) PROVE WorkerTyped'
    <2>1. h.value \in Cards /\ h.of \in People BY <1>12, <1>d DEF Person!Verify, WorkerCall
    <2>2. worker' \in [People -> Person!Row] BY <1>12, <2>1, RowChanges DEF Person!Verify
    <2>3. proved' \in [People -> Cards \cup {None}] BY <1>12, <2>1 DEF Person!Verify
    <2>4. QED BY <1>12, <2>2, <2>3 DEF Person!Verify, Person!Ends
  <1>13. ASSUME NEW h \in run, Person!AddRole(h) PROVE WorkerTyped'
    <2>1. h.value \in Names /\ h.of \in People /\ roles[h.of] \in Seq(Names)
      BY <1>13, <1>d DEF Person!AddRole, WorkerCall
    <2>2. Append(roles[h.of], h.value) \in Seq(Names) BY <2>1, ListGrows
    <2>3. roles' \in [People -> Seq(Names)] BY <1>13, <2>1, <2>2 DEF Person!AddRole
    <2>4. QED BY <1>13, <2>3 DEF Person!AddRole, Person!Ends, Person!Keeps
  <1>14. ASSUME NEW h \in run, Person!AddWork(h) PROVE WorkerTyped'
    <2>1. h.order \in Nat /\ h.of \in People /\ works[h.of] \in Seq(Nat) BY <1>14, <1>d DEF Person!AddWork
    <2>2. Append(works[h.of], h.order) \in Seq(Nat) BY <2>1, ListGrows
    <2>3. works' \in [People -> Seq(Nat)] BY <1>14, <2>1, <2>2 DEF Person!AddWork
    <2>4. QED BY <1>14, <2>3 DEF Person!AddWork, Person!Ends, Person!Keeps
  <1>15. QED
    BY <1>1, <1>2, <1>3, <1>4, <1>5, <1>6, <1>7, <1>8, <1>9, <1>10, <1>11, <1>12, <1>13, <1>14 DEF Person!Next

LEMMA WorkerBegun ==
  ASSUME WorkerTyped, NEW op, NEW p \in People, NEW v, NEW i, Person!Begin(op, p, v, i),
         NEW new, new = [n |-> calls, op |-> op, of |-> p, value |-> v, order |-> i]
  PROVE  WorkerBegins(new) /\ new.op = op /\ new.of = p /\ new.value = v
  <1>1. new.op = op /\ new.of = p /\ new.value = v /\ p # None BY NamesAssumption
  <1>2. /\ run' = run \cup {new} /\ UNCHANGED <<worker, wallet, roles, works, proved>>
        /\ raced' = raced \cup UNION {{h.of, h.value, p, v} \ {None} :
                        h \in {h \in run : h.of = p} \cup {h \in run : h.value = v /\ v # None}}
    BY DEF Person!Begin, Person!records
  <1>3. ASSUME NEW h \in run, h.of = p \/ (h.value = v /\ v # None)
        PROVE  {h.of, h.value, p, v} \ {None} \subseteq raced' BY <1>2, <1>3
  <1>4. QED BY <1>1, <1>2, <1>3 DEF WorkerBegins

LEMMA WorkersBegin ==
  ASSUME WorkerInv, NEW new, WorkerBegins(new), Looked(new)' PROVE WorkerTyped' => WorkerInv'
  <1>1. UNCHANGED <<worker, wallet, roles, works, proved>> /\ raced \subseteq raced' BY DEF WorkerBegins
  <1>2. (Person!OneWalletEach /\ Person!OneOwnerUnlessRaced /\ Person!ProfileUnlessRaced)'
    BY <1>1 DEF WorkerInv, Person!OneWalletEach, Person!OneOwnerUnlessRaced, Person!ProfileUnlessRaced
  <1>3. CallsApart' BY DEF WorkerBegins, WorkerInv, CallsApart
  <1>4. \A h \in run : Looked(h)' BY <1>1 DEF WorkerInv, Looked
  <1>5. \A h \in run' : Looked(h)' BY <1>4 DEF WorkerBegins
  <1>6. QED BY <1>2, <1>3, <1>5 DEF WorkerInv

LEMMA WorkersGo ==
  ASSUME WorkerInv, Person!Next PROVE WorkerInv'
  <1> USE DEF Person!records
  <1>a. /\ worker \in [People -> Person!Row] /\ wallet \in [People -> Nat]
        /\ roles \in [People -> Seq(Names)] /\ works \in [People -> Seq(Nat)]
        /\ proved \in [People -> Cards \cup {None}]
        /\ \A h \in run : WorkerCall(h) /\ h.of \in People /\ h.order \in Nat
    BY DEF WorkerInv, WorkerTyped, Person!TypeOK, Person!Call
  <1>b. WorkerTyped' BY WorkerTypes DEF WorkerInv
  <1>c. \A v \in Phones \cup Cards : v # None BY NamesAssumption
  <1>f. MaxRoles \in Nat /\ MaxWorks \in Nat BY LimitsAssumption
  <1>d. ASSUME NEW new, Looked(new)', WorkerBegins(new) PROVE WorkerInv' BY <1>b, <1>d, WorkersBegin
  <1>e. ASSUME raced' = raced, run' \subseteq run PROVE CallsApart' BY <1>e DEF WorkerInv, CallsApart
  <1>1. ASSUME NEW p \in People, Person!LoginRead(p) PROVE WorkerInv'
    <2>1. PICK new : new = [n |-> calls, op |-> "register", of |-> p, value |-> None, order |-> 0] OBVIOUS
    <2>2. WorkerBegins(new) /\ new.op = "register" BY <1>1, <2>1, WorkerBegun DEF Person!LoginRead, WorkerInv
    <2>3. Looked(new)' BY <2>2 DEF Looked
    <2>4. QED BY <1>d, <2>2, <2>3
  <1>2. ASSUME NEW p \in People, Person!WorkRead(p) PROVE WorkerInv'
    <2>1. PICK new : new = [n |-> calls, op |-> "work", of |-> p, value |-> None, order |-> Len(works[p])] OBVIOUS
    <2>2. WorkerBegins(new) /\ new.op = "work" /\ new.of = p BY <1>2, <2>1, WorkerBegun DEF Person!WorkRead, WorkerInv
    <2>3. Looked(new)' BY <1>2, <2>2 DEF Looked, WorkerBegins, Person!WorkRead
    <2>4. QED BY <1>d, <2>2, <2>3
  <1>3. ASSUME NEW p \in People, NEW v \in Phones, Person!BindRead(p, v) PROVE WorkerInv'
    <2>1. PICK new : new = [n |-> calls, op |-> "bind", of |-> p, value |-> v, order |-> 0] OBVIOUS
    <2>2. WorkerBegins(new) /\ new.op = "bind" /\ new.of = p /\ new.value = v
      BY <1>3, <2>1, WorkerBegun DEF Person!BindRead, WorkerInv
    <2>3. Looked(new)' BY <1>3, <2>2 DEF Looked, WorkerBegins, Person!BindRead
    <2>4. QED BY <1>d, <2>2, <2>3
  <1>4. ASSUME NEW p \in People, NEW v \in Cards, Person!VerifyRead(p, v) PROVE WorkerInv'
    <2>1. PICK new : new = [n |-> calls, op |-> "compare", of |-> p, value |-> v, order |-> 0] OBVIOUS
    <2>2. WorkerBegins(new) /\ new.op = "compare" /\ new.of = p
      BY <1>4, <2>1, WorkerBegun DEF Person!VerifyRead, WorkerInv
    <2>3. Looked(new)' BY <1>4, <2>2 DEF Looked, WorkerBegins, Person!VerifyRead
    <2>4. QED BY <1>d, <2>2, <2>3
  <1>5. ASSUME NEW p \in People, NEW v \in Names, Person!RoleRead(p, v) PROVE WorkerInv'
    <2>1. PICK new : new = [n |-> calls, op |-> "role", of |-> p, value |-> v, order |-> 0] OBVIOUS
    <2>2. WorkerBegins(new) /\ new.op = "role" /\ new.of = p /\ new.value = v
      BY <1>5, <2>1, WorkerBegun DEF Person!RoleRead, WorkerInv
    <2>5. DOMAIN roles[p] = 1..Len(roles[p]) BY <1>5, ElementsOf DEF WorkerInv, WorkerTyped
    <2>6. ~ Has(roles[p], v) /\ Len(roles[p]) < MaxRoles BY <1>5, <2>5 DEF Has, Person!RoleRead, Person!Range
    <2>3. Looked(new)' BY <2>2, <2>6 DEF Looked, WorkerBegins
    <2>4. QED BY <1>d, <2>2, <2>3
  <1>6. ASSUME NEW p \in People, NEW i \in DOMAIN roles[p], Person!DeleteRole(p, i) PROVE WorkerInv'
    <2>1. /\ UNCHANGED <<worker, wallet, works, run, proved, raced>>
          /\ roles'[p] = Person!Without(roles[p], i)
          /\ \A q \in People \ {p} : roles'[q] = roles[q] BY <1>6, <1>a DEF Person!DeleteRole, Person!Keeps
    <2>2. /\ Len(roles'[p]) < Len(roles[p]) /\ Len(roles[p]) \in Nat /\ Len(roles'[p]) \in Nat
          /\ \A e : Has(roles'[p], e) => Has(roles[p], e)
          /\ Person!IsInjective(roles[p]) => Person!IsInjective(roles'[p])
      <3>1. roles[p] \in Seq(Names) /\ i \in 1..Len(roles[p]) /\ roles'[p] \in Seq(Names)
        BY <1>a, <1>b DEF WorkerTyped, Person!TypeOK
      <3>2. QED BY <2>1, <3>1, ListShrinks, ElementsOf
    <2>a. /\ Len(roles[p]) < MaxRoles => Len(roles'[p]) < MaxRoles
          /\ Len(roles[p]) <= MaxRoles => Len(roles'[p]) <= MaxRoles BY <1>f, <2>2
    <2>3. \A h \in run : Looked(h)'
      <3>1. SUFFICES ASSUME NEW h \in run PROVE Looked(h)' OBVIOUS
      <3>2. Looked(h) /\ h.of \in People BY <1>a DEF WorkerInv
      <3>3. h.op = "role" /\ h.of \notin raced =>
              Len(roles'[h.of]) < MaxRoles /\ ~ Has(roles'[h.of], h.value) BY <2>1, <2>2, <2>a, <3>2 DEF Looked
      <3>4. QED BY <2>1, <3>2, <3>3 DEF Looked
    <2>4. Person!OneWalletEach' /\ Person!OneOwnerUnlessRaced'
      BY <2>1 DEF WorkerInv, Person!OneWalletEach, Person!OneOwnerUnlessRaced
    <2>5. Person!ProfileUnlessRaced'
      <3>1. SUFFICES ASSUME NEW q \in People, q \notin raced PROVE Profile(q)'
        BY <2>1 DEF Person!ProfileUnlessRaced, Profile
      <3>2. Profile(q) BY <3>1 DEF WorkerInv, Person!ProfileUnlessRaced, Profile
      <3>3. QED BY <2>1, <2>2, <2>a, <3>2 DEF Profile
    <2>6. QED BY <1>b, <1>e, <2>1, <2>3, <2>4, <2>5 DEF WorkerInv
  <1>7. ASSUME NEW p \in People, NEW i \in DOMAIN works[p], Person!DeleteWork(p, i) PROVE WorkerInv'
    <2>1. /\ UNCHANGED <<worker, wallet, roles, run, proved, raced>>
          /\ works'[p] = Person!Without(works[p], i)
          /\ \A q \in People \ {p} : works'[q] = works[q] BY <1>7, <1>a DEF Person!DeleteWork, Person!Keeps
    <2>2. Len(works'[p]) < Len(works[p]) /\ Len(works[p]) \in Nat /\ Len(works'[p]) \in Nat
      <3>1. works[p] \in Seq(Nat) /\ i \in 1..Len(works[p]) /\ works'[p] \in Seq(Nat)
        BY <1>a, <1>b DEF WorkerTyped, Person!TypeOK
      <3>2. QED BY <2>1, <3>1, ListShrinks, ElementsOf
    <2>a. /\ Len(works[p]) < MaxWorks => Len(works'[p]) < MaxWorks
          /\ Len(works[p]) <= MaxWorks => Len(works'[p]) <= MaxWorks BY <1>f, <2>2
    <2>3. \A h \in run : Looked(h)'
      <3>1. SUFFICES ASSUME NEW h \in run PROVE Looked(h)' OBVIOUS
      <3>2. Looked(h) /\ h.of \in People BY <1>a DEF WorkerInv
      <3>3. h.op = "work" /\ h.of \notin raced => Len(works'[h.of]) < MaxWorks BY <2>1, <2>2, <2>a, <3>2 DEF Looked
      <3>4. QED BY <2>1, <3>2, <3>3 DEF Looked
    <2>4. Person!OneWalletEach' /\ Person!OneOwnerUnlessRaced'
      BY <2>1 DEF WorkerInv, Person!OneWalletEach, Person!OneOwnerUnlessRaced
    <2>5. Person!ProfileUnlessRaced'
      <3>1. SUFFICES ASSUME NEW q \in People, q \notin raced PROVE Profile(q)'
        BY <2>1 DEF Person!ProfileUnlessRaced, Profile
      <3>2. Profile(q) BY <3>1 DEF WorkerInv, Person!ProfileUnlessRaced, Profile
      <3>3. QED BY <2>1, <2>2, <2>a, <3>2 DEF Profile
    <2>6. QED BY <1>b, <1>e, <2>1, <2>3, <2>4, <2>5 DEF WorkerInv
  <1>8. ASSUME NEW h \in run, Person!Register(h) PROVE WorkerInv'
    <2>1. /\ UNCHANGED <<roles, works, proved, raced>> /\ run' = run \ {h}
          /\ \A p \in People : worker'[p].phone = worker[p].phone /\ worker'[p].card = worker[p].card
          /\ \A p \in People : \/ worker'[p].rows = worker[p].rows /\ wallet'[p] = wallet[p]
                               \/ /\ worker[p].rows = 0 /\ worker'[p].rows = 1
                                  /\ wallet'[p] = wallet[p] + 1
      <3>1. UNCHANGED <<roles, works, proved, raced>> /\ run' = run \ {h}
        BY <1>8 DEF Person!Register, Person!Ends, Person!Keeps
      <3>2. CASE Person!Known(h.of) BY <1>8, <3>1, <3>2 DEF Person!Register
      <3>3. CASE ~ Person!Known(h.of)
        <4>1. /\ worker' = [worker EXCEPT ![h.of].rows = worker[h.of].rows + 1]
              /\ wallet' = [wallet EXCEPT ![h.of] = wallet[h.of] + 1] BY <1>8, <3>3 DEF Person!Register
        <4>2. worker[h.of].rows \in Nat /\ worker[h.of].rows = 0 BY <1>a, <3>3 DEF Person!Known, Person!Row
        <4>3. /\ worker'[h.of].card = worker[h.of].card /\ worker'[h.of].phone = worker[h.of].phone
              /\ worker'[h.of].rows = 1 /\ \A q \in People \ {h.of} : worker'[q] = worker[q]
          BY <1>a, <4>1, <4>2, RowChanges
        <4>4. wallet'[h.of] = wallet[h.of] + 1 /\ \A q \in People \ {h.of} : wallet'[q] = wallet[q] BY <1>a, <4>1
        <4>5. QED BY <1>a, <3>1, <4>2, <4>3, <4>4
      <3>4. QED BY <3>2, <3>3
    <2>2. ASSUME NEW g \in run' PROVE Looked(g)'
      <3>1. Looked(g) /\ g.of \in People BY <1>a, <2>1 DEF WorkerInv
      <3>2. QED BY <2>1, <3>1 DEF Looked
    <2>3. Person!OneWalletEach'
      <3>1. SUFFICES ASSUME NEW p \in People PROVE worker'[p].rows <= 1 /\ wallet'[p] = worker'[p].rows
        BY DEF Person!OneWalletEach
      <3>2. worker[p].rows <= 1 /\ wallet[p] = worker[p].rows BY DEF WorkerInv, Person!OneWalletEach
      <3>3. QED BY <2>1, <3>2
    <2>4. Person!OneOwnerUnlessRaced' BY <2>1 DEF WorkerInv, Person!OneOwnerUnlessRaced
    <2>5. Person!ProfileUnlessRaced' BY <2>1 DEF WorkerInv, Person!ProfileUnlessRaced
    <2>6. QED BY <1>b, <1>e, <2>1, <2>2, <2>3, <2>4, <2>5 DEF WorkerInv
  <1>9. ASSUME NEW h \in run, Person!Bind(h) PROVE WorkerInv'
    <2>1. /\ UNCHANGED <<wallet, roles, works, proved, raced>> /\ run' = run \ {h}
          /\ h.op = "bind" /\ h.value \in Phones /\ h.of \in People
          /\ worker'[h.of].phone = h.value /\ worker'[h.of].card = worker[h.of].card
          /\ worker'[h.of].rows = worker[h.of].rows
          /\ \A q \in People \ {h.of} : worker'[q] = worker[q]
      BY <1>9, <1>a, RowChanges DEF Person!Bind, Person!Ends, Person!Keeps, WorkerCall
    <2>2. \A p \in People : worker'[p].card = worker[p].card /\ worker'[p].rows = worker[p].rows BY <2>1
    <2>3. h.value \notin raced => \A q \in People \ {h.of} : worker[q].phone # h.value BY <2>1 DEF WorkerInv, Looked
    <2>4. ASSUME NEW g \in run' PROVE Looked(g)'
      <3>1. Looked(g) /\ g \in run /\ g # h /\ WorkerCall(g) /\ g.of \in People BY <1>a, <2>1 DEF WorkerInv
      <3>2. ASSUME g.op = "bind", g.value \notin raced, NEW q \in People \ {g.of} PROVE worker'[q].phone # g.value
        <4>1. g.value # h.value BY <1>c, <2>1, <3>1, <3>2 DEF WorkerInv, CallsApart
        <4>2. worker[q].phone # g.value BY <3>1, <3>2 DEF Looked
        <4>3. QED BY <2>1, <4>1, <4>2
      <3>3. QED BY <2>1, <2>2, <3>1, <3>2 DEF Looked
    <2>5. Person!OneWalletEach' BY <2>1, <2>2 DEF WorkerInv, Person!OneWalletEach
    <2>6. Person!OneOwnerUnlessRaced' BY <2>1, <2>2, <2>3 DEF WorkerInv, Person!OneOwnerUnlessRaced
    <2>7. Person!ProfileUnlessRaced' BY <2>1 DEF WorkerInv, Person!ProfileUnlessRaced
    <2>8. QED BY <1>b, <1>e, <2>1, <2>4, <2>5, <2>6, <2>7 DEF WorkerInv
  <1>10. ASSUME NEW h \in run, Person!Compare(h) PROVE WorkerInv'
    <2>1. PICK new : new = [h EXCEPT !.op = "verify"] OBVIOUS
    <2>2. /\ UNCHANGED <<worker, wallet, roles, works, proved, raced>>
          /\ run' = (run \ {h}) \cup {new} /\ h.op = "compare"
          /\ ~ \E p \in People : worker[p].card = h.value /\ p # h.of BY <1>10, <2>1 DEF Person!Compare, Person!Keeps
    <2>3. new.op = "verify" /\ new.of = h.of /\ new.value = h.value BY <1>a, <2>1 DEF WorkerCall, Person!Call
    <2>4. CallsApart' BY <2>2, <2>3 DEF WorkerInv, CallsApart
    <2>5. Looked(h) /\ \A g \in run : Looked(g)' BY <2>2 DEF WorkerInv, Looked
    <2>6. Looked(new)' BY <2>2, <2>3, <2>5 DEF Looked
    <2>7. (Person!OneWalletEach /\ Person!OneOwnerUnlessRaced /\ Person!ProfileUnlessRaced)'
      BY <2>2 DEF WorkerInv, Person!OneWalletEach, Person!OneOwnerUnlessRaced, Person!ProfileUnlessRaced
    <2>8. QED BY <1>b, <2>2, <2>4, <2>5, <2>6, <2>7 DEF WorkerInv
  <1>11. ASSUME NEW h \in run, Person!Refuse(h) PROVE WorkerInv'
    <2>1. UNCHANGED <<worker, wallet, roles, works, proved, raced>> /\ run' = run \ {h}
      BY <1>11 DEF Person!Refuse, Person!Ends, Person!Keeps
    <2>2. \A g \in run' : Looked(g)' BY <2>1 DEF WorkerInv, Looked
    <2>3. (Person!OneWalletEach /\ Person!OneOwnerUnlessRaced /\ Person!ProfileUnlessRaced)'
      BY <2>1 DEF WorkerInv, Person!OneWalletEach, Person!OneOwnerUnlessRaced, Person!ProfileUnlessRaced
    <2>4. QED BY <1>b, <1>e, <2>1, <2>2, <2>3 DEF WorkerInv
  <1>12. ASSUME NEW h \in run, Person!Verify(h) PROVE WorkerInv'
    <2>1. /\ UNCHANGED <<wallet, roles, works, raced>> /\ run' = run \ {h}
          /\ h.op = "verify" /\ h.value \in Cards /\ h.of \in People
          /\ worker'[h.of].card = h.value /\ worker'[h.of].phone = worker[h.of].phone
          /\ worker'[h.of].rows = worker[h.of].rows
          /\ \A q \in People \ {h.of} : worker'[q] = worker[q]
      BY <1>12, <1>a, RowChanges DEF Person!Verify, Person!Ends, WorkerCall
    <2>2. /\ \A p \in People : worker'[p].phone = worker[p].phone /\ worker'[p].rows = worker[p].rows
          /\ \A q \in People \ {h.of} : proved'[q] = proved[q]
          /\ proved[h.of] = None => proved'[h.of] = h.value BY <1>12, <1>a, <2>1 DEF Person!Verify
    <2>3. /\ h.value \notin raced => \A q \in People \ {h.of} : worker[q].card # h.value
          /\ h.of \notin raced => worker[h.of].card = None BY <2>1 DEF WorkerInv, Looked
    <2>4. ASSUME NEW g \in run' PROVE Looked(g)'
      <3>1. Looked(g) /\ g \in run /\ g # h /\ WorkerCall(g) /\ g.of \in People BY <1>a, <2>1 DEF WorkerInv
      <3>2. ASSUME g.op = "verify", g.value \notin raced, NEW q \in People \ {g.of} PROVE worker'[q].card # g.value
        <4>1. g.value # h.value BY <1>c, <2>1, <3>1, <3>2 DEF WorkerInv, CallsApart
        <4>2. worker[q].card # g.value BY <3>1, <3>2 DEF Looked
        <4>3. QED BY <2>1, <4>1, <4>2
      <3>3. ASSUME g.op \in {"compare", "verify"}, g.of \notin raced PROVE worker'[g.of].card = None
        <4>1. g.of # h.of BY <3>1, <3>3 DEF WorkerInv, CallsApart
        <4>2. worker[g.of].card = None BY <3>1, <3>3 DEF Looked
        <4>3. QED BY <2>1, <3>1, <4>1, <4>2
      <3>4. QED BY <2>1, <2>2, <3>1, <3>2, <3>3 DEF Looked
    <2>5. Person!OneWalletEach' BY <2>1, <2>2 DEF WorkerInv, Person!OneWalletEach
    <2>6. Person!OneOwnerUnlessRaced'
      <3>1. SUFFICES ASSUME NEW p \in People, NEW q \in People
                     PROVE  /\ p # q /\ worker'[p].phone = worker'[q].phone =>
                                 worker'[p].phone = None \/ worker'[p].phone \in raced
                            /\ p # q /\ worker'[p].card = worker'[q].card =>
                                 worker'[p].card = None \/ worker'[p].card \in raced
                            /\ p \notin raced => worker'[p].card = proved'[p] BY <2>1 DEF Person!OneOwnerUnlessRaced
      <3>2. /\ p # q /\ worker[p].phone = worker[q].phone =>
                 worker[p].phone = None \/ worker[p].phone \in raced
            /\ p # q /\ worker[p].card = worker[q].card =>
                 worker[p].card = None \/ worker[p].card \in raced
            /\ p \notin raced => worker[p].card = proved[p] BY DEF WorkerInv, Person!OneOwnerUnlessRaced
      <3>3. p \notin raced => worker'[p].card = proved'[p] BY <2>1, <2>2, <2>3, <3>2
      <3>4. QED BY <2>1, <2>2, <2>3, <3>2, <3>3
    <2>7. Person!ProfileUnlessRaced' BY <2>1 DEF WorkerInv, Person!ProfileUnlessRaced
    <2>8. QED BY <1>b, <1>e, <2>1, <2>4, <2>5, <2>6, <2>7 DEF WorkerInv
  <1>13. ASSUME NEW h \in run, Person!AddRole(h) PROVE WorkerInv'
    <2>1. /\ UNCHANGED <<worker, wallet, works, proved, raced>> /\ run' = run \ {h}
          /\ h.op = "role" /\ h.of \in People /\ h.value \in Names
          /\ roles'[h.of] = Append(roles[h.of], h.value)
          /\ \A q \in People \ {h.of} : roles'[q] = roles[q]
      BY <1>13, <1>a DEF Person!AddRole, Person!Ends, Person!Keeps, WorkerCall
    <2>2. h.of \notin raced =>
            Len(roles[h.of]) < MaxRoles /\ ~ Has(roles[h.of], h.value) BY <2>1 DEF WorkerInv, Looked
    <2>3. /\ Len(roles'[h.of]) = Len(roles[h.of]) + 1 /\ Len(roles[h.of]) \in Nat
          /\ Person!IsInjective(roles[h.of]) /\ ~ Has(roles[h.of], h.value) =>
               Person!IsInjective(roles'[h.of]) BY <1>a, <2>1, ListGrows
    <2>4. ASSUME NEW g \in run' PROVE Looked(g)'
      <3>1. Looked(g) /\ g \in run /\ g # h /\ g.of \in People BY <1>a, <2>1 DEF WorkerInv
      <3>2. g.of \notin raced => roles'[g.of] = roles[g.of] BY <2>1, <3>1 DEF WorkerInv, CallsApart
      <3>3. QED BY <2>1, <3>1, <3>2 DEF Looked
    <2>5. Person!OneWalletEach' /\ Person!OneOwnerUnlessRaced'
      BY <2>1 DEF WorkerInv, Person!OneWalletEach, Person!OneOwnerUnlessRaced
    <2>6. Person!ProfileUnlessRaced'
      <3>1. SUFFICES ASSUME NEW q \in People, q \notin raced PROVE Profile(q)'
        BY <2>1 DEF Person!ProfileUnlessRaced, Profile
      <3>2. Profile(q) BY <3>1 DEF WorkerInv, Person!ProfileUnlessRaced, Profile
      <3>3. CASE q = h.of
        <4>1. Len(roles'[q]) <= MaxRoles BY <1>f, <2>2, <2>3, <3>1, <3>3
        <4>2. Person!IsInjective(roles'[q]) BY <2>2, <2>3, <3>1, <3>2, <3>3 DEF Profile
        <4>3. QED BY <2>1, <3>2, <4>1, <4>2 DEF Profile
      <3>4. CASE q # h.of BY <2>1, <3>2, <3>4 DEF Profile
      <3>5. QED BY <3>3, <3>4
    <2>7. QED BY <1>b, <1>e, <2>1, <2>4, <2>5, <2>6 DEF WorkerInv
  <1>14. ASSUME NEW h \in run, Person!AddWork(h) PROVE WorkerInv'
    <2>1. /\ UNCHANGED <<worker, wallet, roles, proved, raced>> /\ run' = run \ {h}
          /\ h.op = "work" /\ h.of \in People /\ h.order \in Nat
          /\ works'[h.of] = Append(works[h.of], h.order)
          /\ \A q \in People \ {h.of} : works'[q] = works[q]
      BY <1>14, <1>a DEF Person!AddWork, Person!Ends, Person!Keeps
    <2>2. h.of \notin raced => Len(works[h.of]) < MaxWorks BY <2>1 DEF WorkerInv, Looked
    <2>3. Len(works'[h.of]) = Len(works[h.of]) + 1 /\ Len(works[h.of]) \in Nat BY <1>a, <2>1, ListGrows
    <2>4. ASSUME NEW g \in run' PROVE Looked(g)'
      <3>1. Looked(g) /\ g \in run /\ g # h /\ g.of \in People BY <1>a, <2>1 DEF WorkerInv
      <3>2. g.of \notin raced => works'[g.of] = works[g.of] BY <2>1, <3>1 DEF WorkerInv, CallsApart
      <3>3. QED BY <2>1, <3>1, <3>2 DEF Looked
    <2>5. Person!OneWalletEach' /\ Person!OneOwnerUnlessRaced'
      BY <2>1 DEF WorkerInv, Person!OneWalletEach, Person!OneOwnerUnlessRaced
    <2>6. Person!ProfileUnlessRaced'
      <3>1. SUFFICES ASSUME NEW q \in People, q \notin raced PROVE Len(works'[q]) <= MaxWorks
        BY <2>1 DEF WorkerInv, Person!ProfileUnlessRaced
      <3>2. Len(works[q]) <= MaxWorks BY <3>1 DEF WorkerInv, Person!ProfileUnlessRaced
      <3>3. QED BY <1>f, <2>1, <2>2, <2>3, <3>1, <3>2
    <2>7. QED BY <1>b, <1>e, <2>1, <2>4, <2>5, <2>6 DEF WorkerInv
  <1>15. QED
    BY <1>1, <1>2, <1>3, <1>4, <1>5, <1>6, <1>7, <1>8, <1>9, <1>10, <1>11, <1>12, <1>13, <1>14 DEF Person!Next

LEMMA WorkerInvariant == Spec => [](area = "workers" => WorkerInv)
  <1>1. Init => (area = "workers" => WorkerInv)
    <2> SUFFICES ASSUME Init PROVE WorkerInv OBVIOUS
    <2> USE DEF Init, Person!Init
    <2>1. Calls["workers"] \in Nat /\ MaxRoles \in Nat /\ MaxWorks \in Nat
      BY BoundsAssumption, LimitsAssumption DEF Areas
    <2>2. WorkerTyped BY <2>1 DEF WorkerTyped, Person!TypeOK, Person!Row
    <2>3. Person!ProfileUnlessRaced BY <2>1 DEF Person!ProfileUnlessRaced, Person!IsInjective
    <2>4. QED BY <2>2, <2>3 DEF WorkerInv, CallsApart, Person!OneWalletEach, Person!OneOwnerUnlessRaced
  <1>2. (area = "workers" => WorkerInv) /\ [Next]_vars => (area = "workers" => WorkerInv)'
    <2> SUFFICES ASSUME area = "workers", WorkerInv, [Next]_vars PROVE WorkerInv' BY DEF Next, vars
    <2>1. CASE Person!Next BY <2>1, WorkersGo
    <2>2. CASE UNCHANGED WorkerVars
      BY <2>2 DEF WorkerVars, WorkerInv, WorkerTyped, Person!TypeOK, CallsApart, Looked, Person!OneWalletEach,
         Person!OneOwnerUnlessRaced, Person!ProfileUnlessRaced
    <2>3. QED BY <2>1, <2>2, WorkerStep
  <1>3. QED BY <1>1, <1>2, PTL DEF Spec

------------
(* What a company sets up for its tasks *)

LEMMA SettingsStep ==
  ASSUME area = "catalogue", [Next]_vars PROVE area' = "catalogue" /\ (Setup!Next \/ UNCHANGED SettingsVars)
  BY DEF Next, vars, SettingsVars, catalogue

LEMMA SettingsSizes == \A S : Setup!Cardinality(S) = Cardinality(S) BY DEF Setup!Cardinality, Cardinality

LEMMA SettingsMoves ==
  ASSUME SettingsTyped, Setup!Next
  PROVE  \/ \E new : Asked(new)
         \/ \E c, new : Moved(c, new)
         \/ \E c : \E ok \in BOOLEAN : Ended(c, ok) /\ RowsStay(c, ok)
         \/ \E c : Ended(c, TRUE) /\ (RowMade(c) \/ RowSet(c) \/ RowsLess(c))
         \/ PageGoes
         \/ \E c : Broken(c)
  <1> USE DEF Setup!table, Setup!pane
  <1> DEFINE Stayed == \E k : \E o \in BOOLEAN : Ended(k, o) /\ RowsStay(k, o)
             Written == \E k : Ended(k, TRUE) /\ (RowMade(k) \/ RowSet(k) \/ RowsLess(k))
  <1>a. /\ Calls["catalogue"] \in Nat /\ calls \in Nat /\ Offered \subseteq Titles
        /\ kind \in {"role", "skill", "point"}
    BY BoundsAssumption, NamesAssumption DEF Areas, SettingsTyped, Setup!TypeOK, Setup!Kinds
  <1>b. \A c \in run : /\ SettingsCall(c) /\ c.n \in Nat /\ c.id \in Nat /\ c.name \in Titles
                       /\ c.text \in Setup!Texts /\ c.page \in BOOLEAN
                       /\ c.op \in {"create", "rename", "delete", "save", "discard", "use"}
    BY DEF SettingsTyped, SettingsCall, Setup!Call
  <1>c. ASSUME NEW op \in {"create", "rename", "delete", "save", "discard", "use"}, NEW id \in Nat,
               NEW t \in Titles, NEW text \in Setup!Texts,
               NEW at \in {"count", "find"}, at = "count" <=> op = "create", NEW pg \in BOOLEAN,
               Setup!Ask(op, id, t, text, at, pg),
               pg => op = "create" /\ (kind = "point" => text = "plain"),
               UNCHANGED <<kind, rows, bare, list, adding, failed, faults>>,
               IF pg THEN stage = "idle" /\ stage' = "sent" /\ t \in adding ELSE UNCHANGED stage
        PROVE  \E new : Asked(new)
    <2>1. PICK new : new = [n |-> calls, op |-> op, id |-> id, name |-> t, text |-> text, at |-> at,
                            page |-> pg] OBVIOUS
    <2>2. /\ new \in Setup!Call /\ new.n = calls /\ new.op = op /\ new.at = at /\ new.name = t
          /\ new.text = text BY <1>a, <1>c, <2>1 DEF Setup!Call
    <2>3. new.page = pg BY <2>1
    <2>4. /\ calls < Calls["catalogue"] /\ calls' = calls + 1 /\ raced' = raced \cup {kind : h \in run}
          /\ run' = run \cup {new} /\ calls < calls' BY <1>a, <1>c, <2>1 DEF Setup!Ask
    <2>5. SettingsCall(new)' BY <1>c, <2>2, <2>3, <2>4 DEF SettingsCall
    <2>6. QED BY <1>c, <2>2, <2>3, <2>4, <2>5 DEF Asked
  <1>d. ASSUME NEW c \in run, NEW id \in Nat, NEW at \in {"name", "write", "back", "roles"},
               (c.op = "create" /\ at \in {"name", "write", "back"}) \/ (c.op = "rename" /\ at = "write")
                 \/ (c.op = "use" /\ at = "roles"),
               at = "back" => kind = "skill",
               run' = {h \in run : h.n # c.n} \cup {[c EXCEPT !.id = id, !.at = at]}
        PROVE  \E new : /\ run' = (run \ {c}) \cup {new} /\ new.n = c.n /\ new.page = c.page
                        /\ new.name = c.name /\ new.op = c.op /\ new.at = at /\ SettingsCall(new)
    <2>1. PICK new : new = [c EXCEPT !.id = id, !.at = at] OBVIOUS
    <2>2. c \in Setup!Call BY <1>b DEF SettingsCall
    <2>3. /\ new \in Setup!Call /\ new.n = c.n /\ new.page = c.page /\ new.text = c.text
          /\ new.name = c.name /\ new.op = c.op /\ new.at = at BY <2>1, <2>2 DEF Setup!Call
    <2>4. SettingsCall(new) BY <1>b, <1>d, <2>3 DEF SettingsCall
    <2>5. run' = (run \ {c}) \cup {new} BY <1>d, <2>1 DEF SettingsTyped, Numbered
    <2>6. QED BY <2>3, <2>4, <2>5
  <1>e. ASSUME NEW c \in run, NEW ok \in BOOLEAN, Setup!Ends(c, ok), UNCHANGED <<rows, bare>>,
               c.at # "roles", ok => ~ c.page \/ kind = "skill"
        PROVE  Stayed BY <1>e DEF Setup!Ends, Ended, RowsStay
  <1>f. ASSUME NEW c \in run, NEW id \in Nat, NEW at \in {"name", "write", "back", "roles"},
               (c.op = "create" /\ at \in {"name", "write", "back"}) \/ (c.op = "rename" /\ at = "write")
                 \/ (c.op = "use" /\ at = "roles"),
               at = "back" => kind = "skill",
               c.op = "create" => Cardinality(Setup!Counted) < MaxListed[kind] \/ c.at # "count",
               c.at # "roles", bare' = bare \/ (at = "roles" /\ bare' = bare \cup {c.n}),
               rows' = rows,
               Setup!Goes([c EXCEPT !.id = id], at) \/ (id = c.id /\ Setup!Goes(c, at))
        PROVE  \E k, new : Moved(k, new)
    <2>1. /\ run' = {h \in run : h.n # c.n} \cup {[c EXCEPT !.id = id, !.at = at]}
          /\ UNCHANGED <<kind, list, adding, stage, failed, raced, calls, faults>>
      <3>1. c \in Setup!Call BY <1>b DEF SettingsCall
      <3>2. CASE Setup!Goes([c EXCEPT !.id = id], at)
        <4>1. [c EXCEPT !.id = id].n = c.n /\ [[c EXCEPT !.id = id] EXCEPT !.at = at]
                                               = [c EXCEPT !.id = id, !.at = at] BY <3>1 DEF Setup!Call
        <4>2. QED BY <3>2, <4>1 DEF Setup!Goes
      <3>3. CASE id = c.id /\ Setup!Goes(c, at)
        <4>1. [c EXCEPT !.at = at] = [c EXCEPT !.id = id, !.at = at] BY <3>1, <3>3 DEF Setup!Call
        <4>2. QED BY <3>3, <4>1 DEF Setup!Goes
      <3>4. QED BY <1>f, <3>2, <3>3
    <2>2. PICK new : /\ run' = (run \ {c}) \cup {new} /\ new.n = c.n /\ new.page = c.page
                     /\ new.name = c.name /\ new.op = c.op /\ new.at = at /\ SettingsCall(new) BY <1>d, <1>f, <2>1
    <2>3. Moved(c, new) BY <1>f, <2>1, <2>2 DEF Moved
    <2>4. QED BY <2>3
  <1>1. CASE Setup!Request
    <2>1. UNCHANGED <<kind, rows, bare, list, adding, stage, failed, faults>> BY <1>1 DEF Setup!Request
    <2>2. PICK t \in Titles :
            \/ \E text \in Setup!Texts : Setup!Ask("create", 0, t, text, "count", FALSE)
            \/ Setup!Ask("save", 0, t, "template", "find", FALSE)
            \/ \E r \in rows : Setup!Ask("rename", r.id, t, r.text, "find", FALSE)
            \/ \E r \in rows, op \in {"delete", "discard", "use"} :
                 Setup!Ask(op, r.id, t, r.text, "find", FALSE) BY <1>1 DEF Setup!Request, Setup!Named
    <2>3. \A r \in rows : r.id \in Nat /\ r.text \in Setup!Texts BY DEF SettingsTyped, Setup!TypeOK, Setup!Row
    <2>4. PICK op \in {"create", "rename", "delete", "save", "discard", "use"}, id \in Nat,
               text \in Setup!Texts, at \in {"count", "find"} :
            (at = "count" <=> op = "create") /\ Setup!Ask(op, id, t, text, at, FALSE)
      <3>1. 0 \in Nat /\ "template" \in Setup!Texts BY DEF Setup!Texts
      <3>2. QED BY <2>2, <2>3, <3>1
    <2>5. PICK pg \in BOOLEAN : pg = FALSE OBVIOUS
    <2>6. /\ Setup!Ask(op, id, t, text, at, pg)
          /\ pg => op = "create" /\ (kind = "point" => text = "plain")
          /\ IF pg THEN stage = "idle" /\ stage' = "sent" /\ t \in adding ELSE UNCHANGED stage BY <2>1, <2>4, <2>5
    <2>7. QED BY <1>c, <2>1, <2>4, <2>6
  <1>2. ASSUME NEW t \in adding, Setup!Post(t) PROVE \E new : Asked(new)
    <2>1. PICK text \in Setup!Texts :
            Setup!Described(text) /\ Setup!Ask("create", 0, t, text, "count", TRUE) BY <1>2 DEF Setup!Post
    <2>2. /\ UNCHANGED <<kind, rows, bare, list, adding, failed, faults>>
          /\ stage = "idle" /\ stage' = "sent" /\ t \in Titles
          /\ kind = "point" => text = "plain"
      BY <1>2, <2>1 DEF Setup!Post, Setup!Described, SettingsTyped, Setup!TypeOK
    <2>3. PICK pg \in BOOLEAN : pg = TRUE OBVIOUS
    <2>4. /\ Setup!Ask("create", 0, t, text, "count", pg)
          /\ IF pg THEN stage = "idle" /\ stage' = "sent" /\ t \in adding ELSE UNCHANGED stage BY <2>1, <2>2, <2>3
    <2>5. QED BY <1>c, <2>2, <2>4
  <1>3. ASSUME NEW c \in run, Setup!Count(c)
        PROVE  \/ \E k, new : Moved(k, new)
               \/ Stayed
    <2>1. c.op = "create" /\ c.at = "count" /\ UNCHANGED <<rows, bare>> BY <1>3, <1>b DEF Setup!Count, SettingsCall
    <2>2. CASE Setup!Ends(c, FALSE) BY <1>e, <2>1, <2>2
    <2>3. CASE /\ ~ Cardinality(Setup!Counted) >= MaxListed[kind]
               /\ \E at \in {"name", "write"} : Setup!Goes(c, at)
      <3>1. PICK at \in {"name", "write"} : Setup!Goes(c, at) BY <2>3
      <3>2. Cardinality(Setup!Counted) < MaxListed[kind]
        <4>1. IsFiniteSet(Setup!Counted) BY FS_Subset DEF SettingsTyped, Setup!Counted
        <4>2. Cardinality(Setup!Counted) \in Nat /\ MaxListed[kind] \in Nat
          BY <1>a, <4>1, FS_CardinalityType, LimitsAssumption
        <4>3. QED BY <2>3, <4>2
      <3>3. QED BY <1>b, <1>f, <2>1, <3>1, <3>2
    <2>4. QED BY <1>3, <2>2, <2>3, SettingsSizes DEF Setup!Count
  <1>4. ASSUME NEW c \in run, Setup!LookUp(c)
        PROVE  \/ \E k, new : Moved(k, new)
               \/ Stayed
    <2>1. c.op = "create" /\ c.at = "name" /\ UNCHANGED <<rows, bare>> BY <1>4 DEF Setup!LookUp
    <2>2. \/ Setup!Goes(c, "write") \/ Setup!Ends(c, FALSE)
          \/ \E r \in rows : kind = "skill" /\ Setup!Goes([c EXCEPT !.id = r.id], "back")
      BY <1>4 DEF Setup!LookUp, Setup!Named
    <2>3. CASE Setup!Goes(c, "write") BY <1>b, <1>f, <2>1, <2>3
    <2>4. CASE Setup!Ends(c, FALSE) BY <1>e, <2>1, <2>4
    <2>5. ASSUME NEW r \in rows, kind = "skill", Setup!Goes([c EXCEPT !.id = r.id], "back")
          PROVE  \E k, new : Moved(k, new)
      <3>1. r.id \in Nat BY DEF SettingsTyped, Setup!TypeOK, Setup!Row
      <3>2. QED BY <1>f, <2>1, <2>5, <3>1
    <2>6. QED BY <2>2, <2>3, <2>4, <2>5
  <1>g. ASSUME NEW c \in run, Setup!Ends(c, TRUE), UNCHANGED bare, c.at # "roles" PROVE Ended(c, TRUE)
    BY <1>g DEF Setup!Ends, Ended
  <1>h. ASSUME NEW c \in run, Setup!Free(c.name), NEW text \in Setup!Texts,
               rows' = rows \cup Setup!Added(c, text),
               (c.op = "create" /\ c.at = "write" /\ text = c.text) \/ (c.op = "save" /\ text = "template")
        PROVE  RowMade(c)
    <2>1. PICK new : new = [id |-> c.n, name |-> c.name, text |-> text, live |-> TRUE,
                            preset |-> c.page] OBVIOUS
    <2>2. /\ new \in Setup!Row /\ new.id = c.n /\ new.name = c.name /\ new.text = text
          /\ new.preset = c.page BY <1>b, <2>1 DEF Setup!Row
    <2>3. rows' = rows \cup {new} BY <1>h, <2>1 DEF Setup!Added
    <2>4. QED BY <1>h, <2>2, <2>3 DEF RowMade
  <1>i. ASSUME NEW c \in run PROVE Setup!With(c.id) = {} \/ \E r \in rows : Setup!With(c.id) = {r} /\ r.id = c.id
    BY DEF Setup!With, SettingsTyped, Numbered
  <1>5. ASSUME NEW c \in run, Setup!Create(c)
        PROVE  \/ Written
               \/ Stayed
    <2>1. c.op = "create" /\ c.at = "write" /\ UNCHANGED bare BY <1>5 DEF Setup!Create
    <2>2. CASE Setup!Free(c.name)
      <3>1. rows' = rows \cup Setup!Added(c, c.text) BY <1>5, <2>2 DEF Setup!Create
      <3>2. Setup!Ends(c, TRUE) BY <1>5, <2>2 DEF Setup!Create, Setup!Ends, Setup!Answer
      <3>3. QED BY <1>b, <1>g, <1>h, <2>1, <2>2, <3>1, <3>2
    <2>3. CASE ~ Setup!Free(c.name)
      <3>1. rows' = rows BY <1>5, <2>3 DEF Setup!Create
      <3>2. Setup!Ends(c, FALSE) BY <1>5, <2>3 DEF Setup!Create, Setup!Ends, Setup!Answer
      <3>3. QED BY <1>e, <2>1, <3>1, <3>2
    <2>4. QED BY <2>2, <2>3
  <1>6. ASSUME NEW c \in run, Setup!Restore(c)
        PROVE  \/ Written
               \/ Stayed
    <2>1. /\ c.op = "create" /\ c.at = "back" /\ kind = "skill" /\ UNCHANGED bare
          /\ Setup!Ends(c, TRUE)
          /\ rows' = (rows \ Setup!With(c.id))
                       \cup {[r EXCEPT !.live = TRUE] : r \in Setup!With(c.id)}
      BY <1>6, <1>b DEF Setup!Restore, Setup!Set, SettingsCall
    <2>2. CASE Setup!With(c.id) = {}
      <3>1. rows' = rows BY <2>1, <2>2
      <3>2. QED BY <1>e, <2>1, <3>1
    <2>3. ASSUME NEW r \in rows, Setup!With(c.id) = {r} PROVE RowSet(c)
      <3>1. PICK s : s = [r EXCEPT !.live = TRUE] OBVIOUS
      <3>2. s \in Setup!Row /\ s.id = r.id /\ s.text = r.text /\ s.name = r.name
        BY <3>1 DEF SettingsTyped, Setup!TypeOK, Setup!Row
      <3>3. rows' = (rows \ {r}) \cup {s} BY <2>1, <2>3, <3>1
      <3>4. QED BY <2>1, <3>2, <3>3 DEF RowSet
    <2>4. QED BY <1>g, <1>i, <2>1, <2>2, <2>3
  <1>7. ASSUME NEW c \in run, Setup!RenameFind(c)
        PROVE  \/ \E k, new : Moved(k, new)
               \/ Stayed
    <2>1. c.op = "rename" /\ c.at = "find" /\ UNCHANGED <<rows, bare>> BY <1>7 DEF Setup!RenameFind
    <2>2. Setup!Goes(c, "write") \/ Setup!Ends(c, FALSE) BY <1>7 DEF Setup!RenameFind
    <2>3. CASE Setup!Goes(c, "write") BY <1>b, <1>f, <2>1, <2>3
    <2>4. CASE Setup!Ends(c, FALSE) BY <1>e, <2>1, <2>4
    <2>5. QED BY <2>2, <2>3, <2>4
  <1>8. ASSUME NEW c \in run, Setup!Rename(c)
        PROVE  \/ Written
               \/ Stayed
    <2>1. c.op = "rename" /\ c.at = "write" /\ UNCHANGED bare /\ ~ c.page BY <1>8, <1>b DEF Setup!Rename, SettingsCall
    <2>2. CASE rows' = rows /\ Setup!Ends(c, FALSE) BY <1>e, <2>1, <2>2
    <2>3. CASE /\ Setup!Ends(c, TRUE) /\ (Setup!Free(c.name) \/ Setup!Named(c.name) = Setup!With(c.id))
               /\ rows' = (rows \ Setup!With(c.id))
                       \cup {[r EXCEPT !.name = c.name, !.preset = FALSE] : r \in Setup!With(c.id)}
      <3>1. CASE Setup!With(c.id) = {}
        <4>1. rows' = rows BY <2>3, <3>1
        <4>2. QED BY <1>e, <2>1, <2>3, <4>1
      <3>2. ASSUME NEW r \in rows, Setup!With(c.id) = {r} PROVE RowSet(c)
        <4>1. PICK s : s = [r EXCEPT !.name = c.name, !.preset = FALSE] OBVIOUS
        <4>2. /\ s \in Setup!Row /\ s.id = r.id /\ s.text = r.text /\ s.name = c.name
              /\ s.live = r.live /\ s.preset = FALSE BY <1>b, <4>1 DEF SettingsTyped, Setup!TypeOK, Setup!Row
        <4>3. rows' = (rows \ {r}) \cup {s} BY <2>3, <3>2, <4>1
        <4>4. kind = "point" \/ Setup!Named(c.name) \subseteq {r} BY <2>3, <3>2 DEF Setup!Free
        <4>5. QED BY <2>1, <4>2, <4>3, <4>4 DEF RowSet
      <3>3. QED BY <1>g, <1>i, <2>1, <2>3, <3>1, <3>2
    <2>4. QED BY <1>8, <2>2, <2>3 DEF Setup!Rename, Setup!Set
  <1>9. ASSUME NEW c \in run, Setup!Delete(c)
        PROVE  \/ Written
               \/ Stayed
    <2>1. /\ c.op = "delete" /\ c.at # "roles" /\ UNCHANGED bare
          /\ rows' = (rows \ Setup!With(c.id))
                       \cup {[r EXCEPT !.live = FALSE] : r \in Setup!With(c.id)}
      BY <1>9, <1>b DEF Setup!Delete, Setup!Set, SettingsCall
    <2>2. CASE Setup!With(c.id) = {}
      <3>1. Setup!Ends(c, FALSE) BY <1>9, <2>2 DEF Setup!Delete, Setup!Ends, Setup!Answer
      <3>2. rows' = rows BY <2>1, <2>2
      <3>3. QED BY <1>e, <2>1, <3>1, <3>2
    <2>3. ASSUME NEW r \in rows, Setup!With(c.id) = {r} PROVE RowSet(c) /\ Ended(c, TRUE)
      <3>1. PICK s : s = [r EXCEPT !.live = FALSE] OBVIOUS
      <3>2. s \in Setup!Row /\ s.id = r.id /\ s.text = r.text /\ s.name = r.name /\ s.live = FALSE
        BY <3>1 DEF SettingsTyped, Setup!TypeOK, Setup!Row
      <3>3. rows' = (rows \ {r}) \cup {s} BY <2>1, <2>3, <3>1
      <3>4. Setup!Ends(c, TRUE) BY <1>9, <2>3 DEF Setup!Delete, Setup!Ends, Setup!Answer
      <3>5. QED BY <1>g, <2>1, <3>2, <3>3, <3>4 DEF RowSet
    <2>4. QED BY <1>i, <2>2, <2>3
  <1>10. ASSUME NEW c \in run, Setup!Save(c)
        PROVE  \/ Written
               \/ Stayed
    <2>1. c.op = "save" /\ c.at # "roles" /\ UNCHANGED bare BY <1>10, <1>b DEF Setup!Save, SettingsCall
    <2>2. "template" \in Setup!Texts BY DEF Setup!Texts
    <2>3. CASE Setup!Free(c.name) BY <1>10, <1>g, <1>h, <2>1, <2>2, <2>3 DEF Setup!Save
    <2>4. CASE ~ Setup!Free(c.name) BY <1>10, <1>e, <2>1, <2>4 DEF Setup!Save
    <2>5. QED BY <2>3, <2>4
  <1>11. ASSUME NEW c \in run, Setup!Discard(c) PROVE Ended(c, TRUE) /\ RowsLess(c)
    BY <1>11, <1>b, <1>g DEF Setup!Discard, SettingsCall, RowsLess
  <1>12. ASSUME NEW c \in run, Setup!Use(c)
        PROVE  \/ \E k, new : Moved(k, new)
               \/ Stayed
    <2>1. c.op = "use" /\ c.at = "find" /\ UNCHANGED rows BY <1>12 DEF Setup!Use
    <2>2. CASE bare' = bare \cup {c.n} /\ Setup!Goes(c, "roles") BY <1>b, <1>f, <2>1, <2>2
    <2>3. CASE bare' = bare /\ Setup!Ends(c, FALSE) BY <1>e, <2>1, <2>3
    <2>4. QED BY <1>12, <2>2, <2>3 DEF Setup!Use
  <1>13. ASSUME NEW c \in run, Setup!UseRoles(c) PROVE Ended(c, TRUE) /\ RowsStay(c, TRUE)
    BY <1>13, <1>b DEF Setup!UseRoles, Setup!Ends, Ended, RowsStay, SettingsCall
  <1>14. ASSUME NEW c \in run, Setup!Stop(c) PROVE Broken(c) BY <1>14 DEF Setup!Stop, Setup!Fault, Broken
  <1>15. ASSUME NEW c \in run, Setup!Lost(c) PROVE Broken(c)
    <2>1. PICK new : new = [c EXCEPT !.page = FALSE] OBVIOUS
    <2>2. c \in Setup!Call BY <1>b DEF SettingsCall
    <2>3. /\ new \in Setup!Call /\ new.n = c.n /\ new.op = c.op /\ new.at = c.at /\ new.text = c.text
          /\ new.page = FALSE BY <2>1, <2>2 DEF Setup!Call
    <2>4. SettingsCall(new) BY <1>b, <2>3 DEF SettingsCall
    <2>5. QED BY <1>15, <2>1, <2>3, <2>4 DEF Setup!Lost, Setup!Fault, Broken
  <1>16. ASSUME NEW names \in SUBSET Offered, Setup!Press(names) PROVE PageGoes BY <1>16 DEF Setup!Press, PageGoes
  <1>17. ASSUME Setup!Load \/ Setup!LoadFails PROVE PageGoes
    BY <1>17 DEF Setup!Load, Setup!LoadFails, Setup!Fault, PageGoes
  <1>18. QED
    BY <1>1, <1>2, <1>3, <1>4, <1>5, <1>6, <1>7, <1>8, <1>9, <1>10, <1>11, <1>12, <1>13, <1>14, <1>15, <1>16, <1>17
       DEF Setup!Next

LEMMA SettingsSorts ==
  ASSUME SettingsTyped
  PROVE  /\ Calls["catalogue"] \in Nat /\ MaxFaults \in Nat /\ Offered \subseteq Titles
         /\ kind \in {"role", "skill", "point"} /\ MaxListed[kind] \in Nat
         /\ calls \in Nat /\ faults \in Nat /\ IsFiniteSet(Setup!Counted)
         /\ Cardinality(Setup!Counted) \in Nat
         /\ \A c \in run : /\ SettingsCall(c) /\ c.n \in Nat /\ c.name \in Titles /\ c.page \in BOOLEAN
                           /\ c.op \in {"create", "rename", "delete", "save", "discard", "use"}
  <1>1. /\ Calls["catalogue"] \in Nat /\ MaxFaults \in Nat /\ Offered \subseteq Titles
        /\ kind \in {"role", "skill", "point"} /\ MaxListed[kind] \in Nat
        /\ calls \in Nat /\ faults \in Nat
    BY BoundsAssumption, NamesAssumption, LimitsAssumption DEF Areas, SettingsTyped, Setup!TypeOK, Setup!Kinds
  <1>2. IsFiniteSet(Setup!Counted) BY FS_Subset DEF SettingsTyped, Setup!Counted
  <1>3. Cardinality(Setup!Counted) \in Nat BY <1>2, FS_CardinalityType
  <1>4. \A c \in run : /\ SettingsCall(c) /\ c.n \in Nat /\ c.name \in Titles /\ c.page \in BOOLEAN
                       /\ c.op \in {"create", "rename", "delete", "save", "discard", "use"}
    BY DEF SettingsTyped, SettingsCall, Setup!Call
  <1>5. QED BY <1>1, <1>2, <1>3, <1>4

\* What the answer does to the page.
LEMMA PageTyped ==
  ASSUME NEW c, NEW ok \in BOOLEAN, SettingsTyped, Setup!Answer(c, ok)
  PROVE  list' = list /\ adding' \subseteq adding /\ stage' \in {"idle", "sent", "load"}
         /\ failed' \in BOOLEAN
  <1>1. stage \in {"idle", "sent", "load"} /\ failed \in BOOLEAN BY DEF SettingsTyped, Setup!TypeOK
  <1>2. CASE ~ c.page BY <1>1, <1>2 DEF Setup!Answer, Setup!pane
  <1>3. CASE c.page /\ (ok \/ kind = "skill") BY <1>1, <1>3 DEF Setup!Answer
  <1>4. CASE c.page /\ ~ (ok \/ kind = "skill") BY <1>1, <1>4 DEF Setup!Answer
  <1>5. QED BY <1>2, <1>3, <1>4

\* The rows after a call that ended well.
LEMMA RowsTyped ==
  ASSUME NEW c \in run, SettingsTyped, RowMade(c) \/ RowSet(c) \/ RowsLess(c)
  PROVE  /\ rows' \subseteq Setup!Row /\ IsFiniteSet(rows')
         /\ \A r \in rows' : r.id = c.n \/ \E s \in rows : s.id = r.id
         /\ \A r, s \in rows' : r.id = s.id => r = s
  <1>1. /\ rows \subseteq Setup!Row /\ IsFiniteSet(rows) /\ \A r \in rows : r.id # c.n
        /\ \A r, s \in rows : r.id = s.id => r = s BY DEF SettingsTyped, Setup!TypeOK, Numbered
  <1>2. CASE RowMade(c)
    <2>1. PICK new \in Setup!Row : rows' = rows \cup {new} /\ new.id = c.n BY <1>2 DEF RowMade
    <2>2. IsFiniteSet(rows \cup {new}) BY <1>1, FS_AddElement
    <2>3. QED BY <1>1, <2>1, <2>2
  <1>3. CASE RowSet(c)
    <2>1. PICK r \in rows, s \in Setup!Row : rows' = (rows \ {r}) \cup {s} /\ s.id = r.id BY <1>3 DEF RowSet
    <2>2. IsFiniteSet((rows \ {r}) \cup {s}) BY <1>1, FS_AddElement, FS_RemoveElement
    <2>3. QED BY <1>1, <2>1, <2>2
  <1>4. CASE RowsLess(c) BY <1>1, <1>4, FS_Subset DEF RowsLess
  <1>5. QED BY <1>2, <1>3, <1>4

LEMMA SettingsTypes ==
  ASSUME SettingsTyped, Setup!Next PROVE SettingsTyped'
  <1>a. /\ calls \in 0..Calls["catalogue"] /\ faults \in 0..MaxFaults /\ raced \subseteq Setup!Kinds
        /\ rows \subseteq Setup!Row /\ bare \subseteq Nat /\ list \cup adding \subseteq Titles
        /\ kind \in Setup!Kinds /\ IsFiniteSet(rows)
        /\ stage \in {"idle", "sent", "load"} /\ failed \in BOOLEAN
        /\ \A c, d \in run : c.n = d.n => c = d
        /\ \A r \in rows : r.id \in Nat /\ r.id < calls /\ \A c \in run : r.id # c.n
        /\ \A r, s \in rows : r.id = s.id => r = s BY DEF SettingsTyped, Setup!TypeOK, Numbered, Setup!Row
  <1>b. \A c \in run : SettingsCall(c) /\ c.n \in Nat /\ c.n < calls /\ c.page \in BOOLEAN
    BY SettingsSorts DEF SettingsCall
  <1>c. Calls["catalogue"] \in Nat /\ MaxFaults \in Nat /\ Offered \subseteq Titles BY SettingsSorts
  <1>d. ASSUME \A k \in run' : SettingsCall(k)', calls' \in 0..Calls["catalogue"],
               faults' \in 0..MaxFaults, raced' \subseteq Setup!Kinds, kind' = kind,
               rows' \subseteq Setup!Row, IsFiniteSet(rows'), bare' \subseteq Nat,
               list' \cup adding' \subseteq Titles, stage' \in {"idle", "sent", "load"},
               failed' \in BOOLEAN,
               \A k, d \in run' : k.n = d.n => k = d,
               \A r \in rows' : r.id < calls' /\ \A k \in run' : r.id # k.n,
               \A r, s \in rows' : r.id = s.id => r = s
        PROVE  SettingsTyped'
    <2>1. run' \subseteq Setup!Call BY <1>d DEF SettingsCall
    <2>2. Setup!TypeOK' BY <1>a, <1>d, <2>1 DEF Setup!TypeOK
    <2>3. Numbered' BY <1>d DEF Numbered
    <2>4. QED BY <1>d, <2>2, <2>3 DEF SettingsTyped
  <1>e. ASSUME NEW k, SettingsCall(k), kind' = kind, calls' = calls PROVE SettingsCall(k)' BY <1>e DEF SettingsCall
  <1>1. ASSUME NEW new, Asked(new) PROVE SettingsTyped'
    <2>1. /\ run' = run \cup {new} /\ new.n = calls /\ calls' = calls + 1
          /\ calls < Calls["catalogue"] /\ raced' = raced \cup {kind : h \in run}
          /\ SettingsCall(new)' /\ UNCHANGED <<kind, rows, bare, list, adding, failed, faults>>
          /\ stage' \in {"idle", "sent", "load"} BY <1>1, <1>a DEF Asked
    <2>2. \A k \in run : SettingsCall(k)' BY <1>b, <1>c, <1>a, <2>1 DEF SettingsCall
    <2>3. \A k \in run' : SettingsCall(k)' BY <2>1, <2>2
    <2>4. calls' \in 0..Calls["catalogue"] /\ \A r \in rows' : r.id < calls' /\ r.id # calls BY <1>a, <1>c, <2>1
    <2>5. \A k \in run : k.n # calls BY <1>a, <1>b
    <2>6. /\ \A k, d \in run' : k.n = d.n => k = d
          /\ \A r \in rows' : \A k \in run' : r.id # k.n BY <1>a, <2>1, <2>4, <2>5
    <2>7. raced' \subseteq Setup!Kinds BY <1>a, <2>1
    <2>8. QED BY <1>a, <1>d, <2>1, <2>3, <2>4, <2>6, <2>7
  <1>2. ASSUME NEW c, NEW new, Moved(c, new) PROVE SettingsTyped'
    <2>1. /\ c \in run /\ run' = (run \ {c}) \cup {new} /\ new.n = c.n /\ SettingsCall(new)
          /\ UNCHANGED <<kind, rows, list, adding, stage, failed, raced, calls, faults>>
          /\ bare' \subseteq bare \cup {c.n} BY <1>2 DEF Moved
    <2>2. \A k \in run' : SettingsCall(k)' BY <1>b, <1>e, <2>1
    <2>3. bare' \subseteq Nat BY <1>a, <1>b, <2>1
    <2>4. /\ \A k, d \in run' : k.n = d.n => k = d
          /\ \A r \in rows' : \A k \in run' : r.id # k.n BY <1>a, <2>1
    <2>5. QED BY <1>a, <1>d, <2>1, <2>2, <2>3, <2>4
  <1>3. ASSUME NEW c, NEW ok \in BOOLEAN, Ended(c, ok),
               rows' \subseteq Setup!Row, IsFiniteSet(rows'),
               \A r \in rows' : r.id = c.n \/ \E s \in rows : s.id = r.id,
               \A r, s \in rows' : r.id = s.id => r = s
        PROVE  SettingsTyped'
    <2>1. /\ c \in run /\ run' = run \ {c} /\ UNCHANGED <<kind, raced, calls, faults>>
          /\ bare' \subseteq bare BY <1>3 DEF Ended
    <2>2. \A k \in run' : SettingsCall(k)' BY <1>b, <1>e, <2>1
    <2>3. /\ list' = list /\ adding' \subseteq adding /\ stage' \in {"idle", "sent", "load"}
          /\ failed' \in BOOLEAN BY <1>3, PageTyped DEF Ended
    <2>4. \A k, d \in run' : k.n = d.n => k = d BY <1>a, <2>1
    <2>5. \A r \in rows' : r.id < calls' /\ \A k \in run' : r.id # k.n BY <1>a, <1>b, <1>3, <2>1
    <2>6. QED BY <1>a, <1>d, <1>3, <2>1, <2>2, <2>3, <2>4, <2>5
  <1>4. ASSUME NEW c, NEW ok \in BOOLEAN, Ended(c, ok), RowsStay(c, ok) PROVE SettingsTyped'
    BY <1>3, <1>4, <1>a DEF RowsStay
  <1>5. ASSUME NEW c, Ended(c, TRUE), RowMade(c) \/ RowSet(c) \/ RowsLess(c) PROVE SettingsTyped'
    <2>1. c \in run BY <1>5 DEF Ended
    <2>2. /\ rows' \subseteq Setup!Row /\ IsFiniteSet(rows')
          /\ \A r \in rows' : r.id = c.n \/ \E s \in rows : s.id = r.id
          /\ \A r, s \in rows' : r.id = s.id => r = s BY <1>5, <2>1, RowsTyped
    <2>3. PICK ok \in BOOLEAN : ok = TRUE OBVIOUS
    <2>4. Ended(c, ok) BY <1>5, <2>3
    <2>5. QED BY <1>3, <2>2, <2>4
  <1>6. CASE PageGoes
    <2>1. UNCHANGED <<kind, rows, bare, run, raced, calls>> BY <1>6 DEF PageGoes
    <2>2. \A k \in run' : SettingsCall(k)' BY <1>b, <1>e, <2>1
    <2>3. faults' \in 0..MaxFaults BY <1>a, <1>c, <1>6 DEF PageGoes
    <2>4. {r.name : r \in Setup!Counted} \subseteq Titles BY <1>a DEF Setup!Counted, Setup!Row
    <2>5. /\ list' \cup adding' \subseteq Titles /\ stage' \in {"idle", "sent", "load"}
          /\ failed' \in BOOLEAN BY <1>a, <1>c, <1>6, <2>4 DEF PageGoes
    <2>6. QED BY <1>a, <1>d, <2>1, <2>2, <2>3, <2>5
  <1>7. ASSUME NEW c, Broken(c) PROVE SettingsTyped'
    <2>a. UNCHANGED <<kind, rows, bare, list, raced, calls>> /\ c \in run /\ faults' \in 0..MaxFaults
      BY <1>7, <1>a, <1>c DEF Broken
    <2>b. adding' \subseteq adding /\ stage' \in {"idle", "sent", "load"} /\ failed' \in BOOLEAN
      <3>1. CASE UNCHANGED <<adding, stage, failed>> BY <1>a, <3>1
      <3>2. CASE adding' = {} /\ stage' = "idle" /\ failed' = TRUE BY <3>2
      <3>3. QED BY <1>7, <3>1, <3>2 DEF Broken
    <2>1. /\ UNCHANGED <<kind, rows, bare, list, raced, calls>> /\ c \in run
          /\ faults' \in 0..MaxFaults /\ adding' \subseteq adding
          /\ stage' \in {"idle", "sent", "load"} /\ failed' \in BOOLEAN BY <2>a, <2>b
    <2>2. /\ \A k \in run' : k \in run \/ (SettingsCall(k) /\ k.n = c.n)
          /\ \A k, d \in run' : k.n = d.n => k = d BY <1>7, <1>a DEF Broken
    <2>3. /\ \A k \in run' : SettingsCall(k)'
          /\ \A r \in rows' : \A k \in run' : r.id # k.n BY <1>a, <1>b, <1>e, <2>1, <2>2
    <2>4. QED BY <1>a, <1>d, <2>1, <2>2, <2>3
  <1>8. QED BY <1>1, <1>2, <1>4, <1>5, <1>6, <1>7, SettingsMoves

LEMMA NamesStayApart ==
  ASSUME SettingsTyped, NamesApart, Setup!Next PROVE NamesApart'
  <1>a. ASSUME UNCHANGED <<kind, rows>> PROVE NamesApart' BY <1>a DEF NamesApart
  <1>1. ASSUME NEW c, Ended(c, TRUE), RowMade(c) \/ RowSet(c) \/ RowsLess(c) PROVE NamesApart'
    <2>1. kind' = kind /\ c \in run BY <1>1 DEF Ended
    <2> SUFFICES ASSUME kind # "point"
                 PROVE  \A r, s \in rows' : r.name = s.name => r = s BY <2>1 DEF NamesApart
    <2>2. \A r, s \in rows : r.name = s.name => r = s BY DEF NamesApart
    <2>3. CASE RowMade(c) BY <2>2, <2>3 DEF RowMade, Setup!Free, Setup!Named
    <2>4. CASE RowSet(c) BY <2>2, <2>4 DEF RowSet, Setup!Named
    <2>5. CASE RowsLess(c) BY <2>2, <2>5 DEF RowsLess
    <2>6. QED BY <1>1, <2>3, <2>4, <2>5
  <1>2. QED BY <1>a, <1>1, SettingsMoves DEF Asked, Moved, Ended, RowsStay, PageGoes, Broken

LEMMA OneMore ==
  ASSUME NEW S, IsFiniteSet(S), NEW x, NEW T \in SUBSET (S \cup {x})
  PROVE  /\ IsFiniteSet(T) /\ Cardinality(T) \in Nat /\ Cardinality(T) <= Cardinality(S) + 1
         /\ \A r \in S : T \subseteq (S \ {r}) \cup {x} => Cardinality(T) <= Cardinality(S)
  <1>1. /\ IsFiniteSet(S \cup {x}) /\ Cardinality(S \cup {x}) <= Cardinality(S) + 1
        /\ Cardinality(S) \in Nat BY FS_AddElement, FS_CardinalityType
  <1>2. /\ IsFiniteSet(T) /\ Cardinality(T) \in Nat /\ Cardinality(T) <= Cardinality(S \cup {x})
    BY <1>1, FS_Subset, FS_CardinalityType
  <1>3. ASSUME NEW r \in S, T \subseteq (S \ {r}) \cup {x} PROVE Cardinality(T) <= Cardinality(S)
    <2>1. IsFiniteSet(S \ {r}) /\ Cardinality(S \ {r}) = Cardinality(S) - 1 BY FS_RemoveElement
    <2>2. /\ IsFiniteSet((S \ {r}) \cup {x})
          /\ Cardinality((S \ {r}) \cup {x}) <= Cardinality(S \ {r}) + 1
      <3> DEFINE R == S \ {r}
      <3>1. IsFiniteSet(R) /\ Cardinality(R) \in Nat BY <2>1, FS_CardinalityType
      <3> HIDE DEF R
      <3>2. /\ IsFiniteSet(R \cup {x}) /\ Cardinality(R \cup {x}) <= Cardinality(R) + 1
        <4>1. /\ IsFiniteSet(R \cup {x})
              /\ Cardinality(R \cup {x}) = IF x \in R THEN Cardinality(R) ELSE Cardinality(R) + 1
          BY <3>1, FS_AddElement
        <4>2. QED BY <3>1, <4>1
      <3>3. QED BY <3>2 DEF R
    <2>3. Cardinality(T) <= Cardinality((S \ {r}) \cup {x}) BY <1>3, <2>2, FS_Subset
    <2>4. Cardinality((S \ {r}) \cup {x}) \in Nat /\ Cardinality(S \ {r}) \in Nat BY <2>1, <2>2, FS_CardinalityType
    <2>5. QED BY <1>1, <1>2, <2>1, <2>2, <2>3, <2>4
  <1>4. Cardinality(S \cup {x}) \in Nat BY <1>1, FS_CardinalityType
  <1>5. QED BY <1>1, <1>2, <1>3, <1>4

LEMMA RoomStays ==
  ASSUME SettingsTyped, RoomLeft, Setup!Next PROVE RoomLeft'
  <1> SUFFICES ASSUME kind' \notin raced'
               PROVE  /\ \A k, d \in run' : k = d
                      /\ Cardinality(Setup!Counted') <= MaxListed[kind']
                      /\ \A k \in run' : k.op = "create" /\ k.at # "count" =>
                           Cardinality(Setup!Counted') < MaxListed[kind'] BY DEF RoomLeft
  <1>a. kind' = kind /\ raced \subseteq raced' BY SettingsMoves DEF Asked, Moved, Ended, PageGoes, Broken
  <1>b. /\ \A k, d \in run : k = d
        /\ Cardinality(Setup!Counted) <= MaxListed[kind]
        /\ \A k \in run : k.op = "create" /\ k.at # "count" =>
             Cardinality(Setup!Counted) < MaxListed[kind] BY <1>a DEF RoomLeft
  <1>c. /\ IsFiniteSet(Setup!Counted) /\ Cardinality(Setup!Counted) \in Nat
        /\ MaxListed[kind] \in Nat BY SettingsSorts
  <1>d. rows' = rows => Setup!Counted' = Setup!Counted BY DEF Setup!Counted
  <1>1. ASSUME NEW new, Asked(new) PROVE run' = {new} /\ rows' = rows /\ ~ (new.op = "create" /\ new.at # "count")
    <2>1. run = {} BY <1>1, <1>a DEF Asked
    <2>2. QED BY <1>1, <2>1 DEF Asked, SettingsCall
  <1>2. ASSUME NEW c, NEW new, Moved(c, new)
        PROVE  /\ run' = {new} /\ rows' = rows
               /\ new.op = "create" => Cardinality(Setup!Counted) < MaxListed[kind]
    <2>1. run = {c} BY <1>2, <1>b DEF Moved
    <2>2. QED BY <1>2, <1>b, <2>1 DEF Moved
  <1>3. ASSUME NEW c, Ended(c, TRUE), RowMade(c) \/ RowSet(c) \/ RowsLess(c)
        PROVE  run' = {} /\ Cardinality(Setup!Counted') <= MaxListed[kind]
    <2>1. c \in run /\ run' = {} BY <1>3, <1>b DEF Ended
    <2>2. CASE RowMade(c) /\ c.op = "create" /\ c.at = "write"
      <3>1. PICK new : rows' = rows \cup {new} BY <2>2 DEF RowMade
      <3>2. Setup!Counted' \subseteq Setup!Counted \cup {new} BY <3>1 DEF Setup!Counted
      <3>3. Cardinality(Setup!Counted) < MaxListed[kind] BY <1>b, <2>1, <2>2
      <3>4. QED BY <1>c, <2>1, <3>2, <3>3, OneMore
    <2>3. ASSUME Setup!Counted' \subseteq Setup!Counted PROVE run' = {} /\ Cardinality(Setup!Counted') <= MaxListed[kind]
      <3>1. /\ Cardinality(Setup!Counted') <= Cardinality(Setup!Counted)
            /\ IsFiniteSet(Setup!Counted') BY <1>c, <2>3, FS_Subset
      <3>2. Cardinality(Setup!Counted') \in Nat BY <3>1, FS_CardinalityType
      <3>3. QED BY <1>b, <1>c, <2>1, <3>1, <3>2
    <2>4. CASE RowMade(c) /\ ~ (c.op = "create" /\ c.at = "write")
      <3>1. PICK new : rows' = rows \cup {new} /\ new.text = "template" BY <2>4 DEF RowMade
      <3>2. Setup!Counted' \subseteq Setup!Counted BY <3>1 DEF Setup!Counted
      <3>3. QED BY <2>3, <3>2
    <2>5. CASE RowsLess(c) BY <2>3, <2>5 DEF RowsLess, Setup!Counted
    <2>6. CASE RowSet(c)
      <3>1. PICK r, s :
              /\ r \in rows /\ rows' = (rows \ {r}) \cup {s} /\ s.text = r.text
              /\ \/ s.live = r.live \/ ~ s.live
                 \/ c.op = "create" /\ c.at = "back" BY <2>6 DEF RowSet
      <3>2. /\ Setup!Counted' \subseteq Setup!Counted \cup {s}
            /\ s \in Setup!Counted' => Setup!Counted' \subseteq (Setup!Counted \ {r}) \cup {s}
            /\ s \notin Setup!Counted' => Setup!Counted' \subseteq Setup!Counted BY <3>1 DEF Setup!Counted
      <3>3. CASE s \notin Setup!Counted' BY <2>3, <3>2, <3>3
      <3>4. CASE s \in Setup!Counted' /\ r \in Setup!Counted
        <4>1. Cardinality(Setup!Counted') <= Cardinality(Setup!Counted)
              /\ Cardinality(Setup!Counted') \in Nat BY <1>c, <3>2, <3>4, OneMore
        <4>2. QED BY <1>b, <1>c, <2>1, <4>1
      <3>5. CASE s \in Setup!Counted' /\ r \notin Setup!Counted
        <4>1. c.op = "create" /\ c.at = "back" BY <3>1, <3>5 DEF Setup!Counted
        <4>2. Cardinality(Setup!Counted) < MaxListed[kind] BY <1>b, <2>1, <4>1
        <4>3. Cardinality(Setup!Counted') <= Cardinality(Setup!Counted) + 1
              /\ Cardinality(Setup!Counted') \in Nat BY <1>c, <3>2, OneMore
        <4>4. QED BY <1>c, <2>1, <4>2, <4>3
      <3>6. QED BY <3>3, <3>4, <3>5
    <2>7. QED BY <1>3, <2>2, <2>4, <2>5, <2>6
  <1>4. ASSUME NEW c, NEW ok \in BOOLEAN, Ended(c, ok), RowsStay(c, ok) PROVE run' = {} /\ rows' = rows
    BY <1>4, <1>b DEF Ended, RowsStay
  <1>5. ASSUME PageGoes PROVE run' = run /\ rows' = rows BY <1>5 DEF PageGoes
  <1>6. ASSUME NEW c, Broken(c)
        PROVE  /\ rows' = rows /\ \A k, d \in run' : k = d
               /\ \A k \in run' : \E d \in run : k.op = d.op /\ k.at = d.at
    <2>1. run = {c} BY <1>6, <1>b DEF Broken
    <2>2. QED BY <1>6, <2>1 DEF Broken
  <1>7. QED BY <1>a, <1>b, <1>d, <1>1, <1>2, <1>3, <1>4, <1>5, <1>6, SettingsMoves

LEMMA PageKeepsUp ==
  ASSUME SettingsTyped, PageKnows, Setup!Next PROVE PageKnows'
  <1> DEFINE Known == /\ \A r \in FromPage(rows') : r.text = "plain" /\ r.name \notin adding'
                      /\ \A r, s \in FromPage(rows') : r.name = s.name => r = s
                      /\ stage' = "idle" /\ adding' = {} => \A r \in FromPage(rows') : r.name \in list'
                      /\ stage' = "load" => adding' = {}
                      /\ \A c \in run' : c.page => stage' = "sent" /\ c.name \in adding'
                      /\ \A c, d \in run' : c.page /\ d.page => c = d
  <1> SUFFICES ASSUME kind' = "point", ~ failed' PROVE Known BY DEF PageKnows
  <1>k. kind = "point" BY SettingsMoves DEF Asked, Moved, Ended, PageGoes, Broken
  <1>p. failed => failed'
    <2>1. ASSUME NEW c, NEW ok, Setup!Answer(c, ok) PROVE failed => failed' BY <2>1 DEF Setup!Answer, Setup!pane
    <2>2. \A c, ok : Ended(c, ok) => (failed => failed') BY <2>1 DEF Ended
    <2>3. \A new : Asked(new) => failed' = failed BY DEF Asked
    <2>4. \A c, new : Moved(c, new) => failed' = failed BY DEF Moved
    <2>5. PageGoes => (failed => failed') BY DEF PageGoes
    <2>6. \A c : Broken(c) => (failed => failed') BY DEF Broken
    <2>7. QED BY <2>2, <2>3, <2>4, <2>5, <2>6, SettingsMoves
  <1>a. kind = "point" /\ ~ failed BY <1>k, <1>p
  <1>b. /\ \A r \in FromPage(rows) : r.text = "plain" /\ r.name \notin adding
        /\ \A r, s \in FromPage(rows) : r.name = s.name => r = s
        /\ stage = "idle" /\ adding = {} => \A r \in FromPage(rows) : r.name \in list
        /\ stage = "load" => adding = {}
        /\ \A c \in run : c.page => stage = "sent" /\ c.name \in adding
        /\ \A c, d \in run : c.page /\ d.page => c = d BY <1>a DEF PageKnows
  <1>c. \A c \in run : SettingsCall(c) BY SettingsSorts
  <1>1. CASE \E new : Asked(new)
    <2>1. PICK new : /\ run' = run \cup {new} /\ UNCHANGED <<rows, list, adding>>
                     /\ IF new.page THEN stage = "idle" /\ stage' = "sent" /\ new.name \in adding
                                    ELSE UNCHANGED stage BY <1>1 DEF Asked
    <2>2. QED BY <1>b, <2>1
  <1>2. CASE \E c, new : Moved(c, new)
    <2>1. PICK c, new : /\ c \in run /\ run' = (run \ {c}) \cup {new} /\ new.page = c.page
                        /\ new.name = c.name /\ UNCHANGED <<rows, list, adding, stage>> BY <1>2 DEF Moved
    <2>2. QED BY <1>b, <2>1
  <1>3. ASSUME NEW c, NEW ok \in BOOLEAN, Ended(c, ok), ~ c.page, FromPage(rows') \subseteq FromPage(rows) PROVE Known
    BY <1>3, <1>b DEF Ended, Setup!Answer, Setup!pane
  <1>4. ASSUME NEW c, NEW ok \in BOOLEAN, Ended(c, ok), RowsStay(c, ok)
        PROVE  ~ c.page /\ FromPage(rows') \subseteq FromPage(rows) BY <1>4, <1>a DEF Ended, RowsStay, Setup!Answer
  <1>5. ASSUME NEW c, Ended(c, TRUE), RowSet(c) \/ RowsLess(c)
        PROVE  ~ c.page /\ FromPage(rows') \subseteq FromPage(rows)
    <2>1. SettingsCall(c) /\ c.op # "create" BY <1>5, <1>a, <1>c DEF Ended, RowSet, RowsLess, SettingsCall
    <2>2. ~ c.page BY <2>1 DEF SettingsCall
    <2>3. QED BY <1>5, <2>1, <2>2 DEF RowSet, RowsLess, FromPage
  <1>6. ASSUME NEW c, Ended(c, TRUE), RowMade(c) PROVE Known
    <2>1. PICK new : /\ rows' = rows \cup {new} /\ new.name = c.name /\ new.preset = c.page
                     /\ (c.op = "create" /\ new.text = c.text) \/ c.op = "save" BY <1>6 DEF RowMade
    <2>2. CASE ~ c.page
      <3>1. FromPage(rows') \subseteq FromPage(rows) BY <2>1, <2>2 DEF FromPage
      <3>2. PICK ok \in BOOLEAN : ok = TRUE OBVIOUS
      <3>3. QED BY <1>3, <1>6, <2>2, <3>1, <3>2
    <2>3. CASE c.page
      <3>1. new.text = "plain" /\ c \in run /\ run' = run \ {c}
        BY <1>6, <1>a, <1>c, <2>1, <2>3 DEF SettingsCall, Ended
      <3>2. /\ adding' = adding \ {c.name} /\ stage' = IF adding' = {} THEN "load" ELSE "idle"
        BY <1>6, <2>3 DEF Ended, Setup!Answer
      <3>3. c.name \in adding /\ \A k \in run' : ~ k.page BY <1>b, <2>3, <3>1
      <3>4. FromPage(rows') \subseteq FromPage(rows) \cup {new} BY <2>1 DEF FromPage
      <3>5. QED BY <1>b, <2>1, <3>1, <3>2, <3>3, <3>4
    <2>4. QED BY <2>2, <2>3
  <1>7. CASE PageGoes
    <2>1. FromPage(rows) \subseteq Setup!Counted /\ rows' = rows /\ run' = run
      BY <1>b, <1>7 DEF FromPage, Setup!Counted, PageGoes
    <2>2. QED BY <1>b, <1>7, <2>1 DEF PageGoes
  <1>8. CASE \E c : Broken(c) BY <1>b, <1>8 DEF Broken
  <1>9. ASSUME NEW c, Ended(c, TRUE), RowSet(c) \/ RowsLess(c) PROVE Known
    <2>1. PICK ok \in BOOLEAN : ok = TRUE OBVIOUS
    <2>2. QED BY <1>3, <1>5, <1>9, <2>1
  <1>10. QED BY <1>1, <1>2, <1>3, <1>4, <1>6, <1>7, <1>8, <1>9, SettingsMoves

LEMMA RolesStillFollow ==
  ASSUME SettingsTyped, RolesFollow, Setup!Next PROVE RolesFollow'
  <1>a. faults \in Nat /\ \A c, d \in run : c.n = d.n => c = d BY SettingsSorts DEF SettingsTyped, Numbered
  <1> SUFFICES ASSUME faults' = 0, NEW n \in bare'
               PROVE  \E k \in run' : k.at = "roles" /\ k.n = n BY DEF RolesFollow
  <1>b. faults = 0 /\ \A c : ~ Broken(c)
    <2>1. \A c : Broken(c) => faults' = faults + 1 BY DEF Broken
    <2>2. \A c, ok : Ended(c, ok) => faults' = faults BY DEF Ended
    <2>3. (\E new : Asked(new)) \/ (\E c, new : Moved(c, new)) => faults' = faults BY DEF Asked, Moved
    <2>4. PageGoes => faults' = faults \/ faults' = faults + 1 BY DEF PageGoes
    <2>5. faults' = faults \/ faults' = faults + 1 BY <2>1, <2>2, <2>3, <2>4, SettingsMoves
    <2>6. QED BY <1>a, <2>1, <2>5
  <1>c. \A m \in bare : \E k \in run : k.at = "roles" /\ k.n = m BY <1>b DEF RolesFollow
  <1>1. CASE \E new : Asked(new) BY <1>1, <1>c DEF Asked
  <1>2. CASE \E c, new : Moved(c, new)
    <2>1. PICK c, new : Moved(c, new) BY <1>2
    <2>2. CASE n \in bare BY <1>c, <2>1, <2>2 DEF Moved
    <2>3. CASE n \notin bare BY <2>1, <2>3 DEF Moved
    <2>4. QED BY <2>2, <2>3
  <1>3. CASE \E c : \E ok \in BOOLEAN : Ended(c, ok)
    <2>1. PICK c : /\ c \in run /\ run' = run \ {c}
                   /\ IF c.at = "roles" THEN bare' = bare \ {c.n} ELSE UNCHANGED bare BY <1>3 DEF Ended
    <2>2. QED BY <1>a, <1>c, <2>1
  <1>4. CASE PageGoes BY <1>4, <1>c DEF PageGoes
  <1>5. QED BY <1>b, <1>1, <1>2, <1>3, <1>4, SettingsMoves

LEMMA SettingsInvariant == Spec => [](area = "catalogue" => SettingsInv)
  <1>1. Init => (area = "catalogue" => SettingsInv)
    <2> SUFFICES ASSUME Init PROVE SettingsInv OBVIOUS
    <2>1. Setup!Init BY DEF Init
    <2>2. Calls["catalogue"] \in Nat /\ MaxFaults \in Nat BY BoundsAssumption DEF Areas
    <2>3. rows = {} /\ run = {} /\ bare = {} /\ raced = {} /\ calls = 0 /\ faults = 0 BY <2>1 DEF Setup!Init
    <2>a. failed \in BOOLEAN /\ stage \in {"idle", "sent", "load"} BY <2>1 DEF Setup!Init
    <2>b. /\ kind \in Setup!Kinds /\ rows = {} /\ bare = {} /\ list = {} /\ adding = {}
          /\ run = {} /\ raced = {} /\ calls = 0 /\ faults = 0 BY <2>1 DEF Setup!Init
    <2>4. Setup!TypeOK BY <2>2, <2>a, <2>b DEF Setup!TypeOK
    <2>5. IsFiniteSet(rows) BY <2>3, FS_EmptySet
    <2>6. SettingsTyped BY <2>3, <2>4, <2>5 DEF SettingsTyped, Numbered
    <2>7. Cardinality(Setup!Counted) = 0
      <3>1. Setup!Counted = {} BY <2>3 DEF Setup!Counted
      <3>2. QED BY <3>1, FS_EmptySet
    <2>8. 0 <= MaxListed[kind] BY <2>6, SettingsSorts
    <2>9. RoomLeft BY <2>3, <2>7, <2>8 DEF RoomLeft
    <2>10. PageKnows BY <2>1, <2>3 DEF PageKnows, FromPage, Setup!Init
    <2>11. QED BY <2>3, <2>6, <2>9, <2>10 DEF SettingsInv, NamesApart, RolesFollow
  <1>2. (area = "catalogue" => SettingsInv) /\ [Next]_vars => (area = "catalogue" => SettingsInv)'
    <2> SUFFICES ASSUME area = "catalogue", SettingsInv, [Next]_vars PROVE SettingsInv' BY DEF Next, vars
    <2>1. CASE Setup!Next
      BY <2>1, SettingsTypes, NamesStayApart, RoomStays, PageKeepsUp, RolesStillFollow DEF SettingsInv
    <2>2. CASE UNCHANGED SettingsVars
      BY <2>2 DEF SettingsVars, SettingsInv, SettingsTyped, Setup!TypeOK, SettingsCall, Numbered, NamesApart,
         RoomLeft, Setup!Counted, PageKnows, RolesFollow
    <2>3. QED BY <2>1, <2>2, SettingsStep
  <1>3. QED BY <1>1, <1>2, PTL DEF Spec

LEMMA SettingsKept ==
  SettingsInv => /\ Setup!TypeOK /\ Setup!LimitUnlessRaced
                 /\ Setup!PresetOnceUnlessFailed /\ Setup!RolesFollowUnlessStopped
  <1> SUFFICES ASSUME SettingsInv
               PROVE  /\ Setup!LimitUnlessRaced /\ Setup!PresetOnceUnlessFailed
                      /\ Setup!RolesFollowUnlessStopped BY DEF SettingsInv, SettingsTyped
  <1>1. Setup!LimitUnlessRaced BY SettingsSizes DEF SettingsInv, RoomLeft, Setup!LimitUnlessRaced
  <1>2. Setup!PresetOnceUnlessFailed BY DEF SettingsInv, NamesApart, PageKnows, FromPage, Setup!PresetOnceUnlessFailed
  <1>3. Setup!RolesFollowUnlessStopped
    <2>1. faults \in Nat BY SettingsSorts DEF SettingsInv
    <2>2. QED BY <2>1 DEF SettingsInv, RolesFollow, Setup!RolesFollowUnlessStopped
  <1>4. QED BY <1>1, <1>2, <1>3

------------
(* Accounts *)

\* Who may do what: the company keeps a super admin and tells its accounts apart, a person has
\* one wallet and one number, a company its rows once, and what the platform's log says of a
\* company is so: subaccount.service.ts, auth.service.ts, id-card.ts, task-template.service.ts,
\* platform.service.ts.
THEOREM AccountsKeptApart == Spec => []AccountsHold
  <1>1. /\ (area = "accounts" => AccountInv) /\ (area = "workers" => WorkerInv)
        /\ (area = "catalogue" => SettingsInv) /\ (area = "companies" => FirmInv)
        /\ (area = "identity" => Identity!MistakeIsRefused /\ Identity!CardPasses
                                 /\ Identity!OneAccountUnlessX)
        => AccountsHold BY AccountsKept, SettingsKept, CompaniesKept DEF AccountsHold, WorkerInv
  <1>2. QED BY <1>1, AccountInvariant, WorkerInvariant, SettingsInvariant, FirmInvariant, IdentityHolds, PTL

------------
(* The market of the mini-program *)

LEMMA MarketStep ==
  ASSUME area = "market", [Next]_vars PROVE area' = "market" /\ (Finder!Next \/ UNCHANGED MarketVars)
  BY DEF Next, vars, MarketVars, market

LEMMA MarketNumbers ==
  /\ LastPage \in Nat /\ 1 \in 1..LastPage /\ Calls["market"] \in Nat /\ MaxFaults \in Nat
  BY LimitsAssumption, BoundsAssumption DEF Areas

\* The list with an answer.
LEMMA PagePut ==
  ASSUME MarketTyped, NEW r \in run, Finder!Answer(r)
  PROVE  /\ found' \in Seq(OnePage) /\ pageNo' = r.page
         /\ IF r.page = 1 THEN Len(found') = 1 /\ found'[1] = [of |-> r.of, page |-> r.page]
                          ELSE /\ Len(found') = Len(found) + 1
                               /\ \A i \in 1..Len(found) : found'[i] = found[i]
                               /\ found'[Len(found) + 1] = [of |-> r.of, page |-> r.page]
  <1>1. PICK one : one = [of |-> r.of, page |-> r.page] OBVIOUS
  <1>2. one \in OnePage BY <1>1 DEF MarketTyped, Finder!TypeOK, Finder!Request, OnePage
  <1>3. found \in Seq(OnePage) BY DEF MarketTyped, Finder!TypeOK, OnePage
  <1>4. pageNo' = r.page /\ found' = IF r.page = 1 THEN <<one>> ELSE found \o <<one>> BY <1>1 DEF Finder!Answer
  <1> HIDE DEF OnePage
  <1>5. <<one>> \in Seq(OnePage) /\ Len(<<one>>) = 1 /\ <<one>>[1] = one BY <1>2
  <1>6. /\ found \o <<one>> \in Seq(OnePage) /\ Len(found \o <<one>>) = Len(found) + 1
        /\ \A i \in 1..Len(found) : (found \o <<one>>)[i] = found[i]
        /\ (found \o <<one>>)[Len(found) + 1] = one
    <2>1. found \o <<one>> = Append(found, one) BY <1>2, <1>3, <1>5
    <2>2. QED BY <1>2, <1>3, <2>1, Appended
  <1>7. QED BY <1>1, <1>4, <1>5, <1>6

LEMMA MarketTypes ==
  ASSUME MarketTyped, Finder!Next PROVE MarketTyped'
  <1>a. /\ query \in Queries /\ found \in Seq(OnePage) /\ pageNo \in 1..LastPage
        /\ timers \subseteq Finder!Timer /\ run \subseteq Finder!Request
        /\ calls \in 0..Calls["market"] /\ faults \in 0..MaxFaults
        /\ \A r \in run : r.page \in 1..LastPage BY DEF MarketTyped, Finder!TypeOK, OnePage
  <1>b. waiting \in BOOLEAN /\ clean \in BOOLEAN BY DEF MarketTyped, Finder!TypeOK
  <1>c. ASSUME query' \in Queries, found' \in Seq(OnePage), pageNo' \in 1..LastPage,
               timers' \subseteq Finder!Timer, run' \subseteq Finder!Request,
               calls' \in 0..Calls["market"], faults' \in 0..MaxFaults,
               \A r \in run' : r.page \in 1..LastPage, waiting' \in BOOLEAN, clean' \in BOOLEAN
        PROVE  MarketTyped'
    <2>1. calls' \in Nat /\ faults' \in Nat BY <1>c
    <2>2. QED BY <1>c, <2>1 DEF MarketTyped, Finder!TypeOK, OnePage
  <1>d. ASSUME NEW n \in Nat, NEW q \in Queries, NEW busy \in BOOLEAN, NEW p \in 1..LastPage,
               Finder!loadTasks(n, q, busy, p)
        PROVE  /\ run' \subseteq Finder!Request /\ \A r \in run' : r.page \in 1..LastPage
               /\ waiting' \in BOOLEAN
    <2>1. CASE busy BY <1>a, <1>b, <1>d, <2>1 DEF Finder!loadTasks
    <2>2. CASE ~ busy
      <3>1. PICK new : new = [n |-> n, of |-> q, page |-> p] OBVIOUS
      <3>2. new \in Finder!Request /\ new.page = p BY <1>d, <3>1, MarketNumbers DEF Finder!Request
      <3>3. run' = run \cup {new} /\ waiting' = TRUE BY <1>d, <2>2, <3>1 DEF Finder!loadTasks
      <3>4. waiting' \in BOOLEAN BY <3>3
      <3>5. QED BY <1>a, <3>2, <3>3, <3>4
    <2>3. QED BY <1>d, <2>1, <2>2
  <1>e. ASSUME Finder!Acts PROVE calls \in Nat /\ calls' \in 0..Calls["market"] /\ UNCHANGED <<found, pageNo, faults>>
    BY <1>a, <1>e, MarketNumbers DEF Finder!Acts
  <1>1. CASE Finder!Show
    <2>1. Finder!Acts /\ Finder!loadTasks(calls, query, waiting, 1) /\ UNCHANGED <<query, timers, clean>>
      BY <1>1 DEF Finder!Show
    <2>2. QED BY <1>a, <1>b, <1>c, <1>d, <1>e, <2>1, MarketNumbers
  <1>2. CASE Finder!Scroll
    <2>1. /\ Finder!Acts /\ pageNo < LastPage /\ Finder!loadTasks(calls, query, waiting, pageNo + 1)
          /\ UNCHANGED <<query, timers, clean>> BY <1>2 DEF Finder!Scroll
    <2>2. pageNo + 1 \in 1..LastPage BY <1>a, <2>1, MarketNumbers
    <2>3. QED BY <1>a, <1>b, <1>c, <1>d, <1>e, <2>1, <2>2
  <1>3. ASSUME NEW q \in Queries, Finder!Type(q) PROVE MarketTyped'
    <2>1. Finder!Acts /\ query' = q /\ clean' = FALSE /\ UNCHANGED <<waiting, timers, run>> BY <1>3 DEF Finder!Type
    <2>2. clean' \in BOOLEAN BY <2>1
    <2>3. QED BY <1>a, <1>b, <1>c, <1>e, <2>1, <2>2
  <1>4. ASSUME NEW q \in Queries, Finder!Choose(q) PROVE MarketTyped'
    <2>1. /\ Finder!Acts /\ query' = q /\ clean' = FALSE /\ UNCHANGED <<waiting, run>>
          /\ timers' = timers \cup {[n |-> calls, of |-> query, busy |-> waiting]} BY <1>4 DEF Finder!Choose
    <2>2. clean' \in BOOLEAN BY <2>1
    <2>3. [n |-> calls, of |-> query, busy |-> waiting] \in Finder!Timer BY <1>a, <1>b, <1>e, <2>1 DEF Finder!Timer
    <2>4. QED BY <1>a, <1>b, <1>c, <1>e, <2>1, <2>2, <2>3
  <1>5. ASSUME NEW t \in timers, Finder!Fire(t) PROVE MarketTyped'
    <2>1. /\ timers' = timers \ {t} /\ Finder!loadTasks(t.n, t.of, t.busy, 1)
          /\ UNCHANGED <<query, found, pageNo, clean, calls, faults>> BY <1>5 DEF Finder!Fire
    <2>2. t.n \in Nat /\ t.of \in Queries /\ t.busy \in BOOLEAN BY <1>a DEF Finder!Timer
    <2>3. QED BY <1>a, <1>b, <1>c, <1>d, <2>1, <2>2, MarketNumbers
  <1>6. ASSUME NEW r \in run, Finder!Answer(r) PROVE MarketTyped'
    <2>1. found' \in Seq(OnePage) /\ pageNo' = r.page BY <1>6, PagePut
    <2>2. /\ run' = run \ {r} /\ waiting' = FALSE /\ UNCHANGED <<query, timers, calls, faults>>
      BY <1>6 DEF Finder!Answer
    <2>3. clean' = (r.of = query /\ run' = {} /\ timers = {}) \/ clean' = clean BY <1>6 DEF Finder!Answer
    <2>4. clean' \in BOOLEAN /\ waiting' \in BOOLEAN BY <1>b, <2>2, <2>3
    <2>5. QED BY <1>a, <1>c, <2>1, <2>2, <2>4
  <1>7. ASSUME NEW r \in run, Finder!Fail(r) PROVE MarketTyped'
    <2>1. /\ run' = run \ {r} /\ waiting' = FALSE /\ faults < MaxFaults /\ faults' = faults + 1
          /\ UNCHANGED <<query, found, pageNo, timers, clean, calls>> BY <1>7 DEF Finder!Fail
    <2>2. faults' \in 0..MaxFaults BY <1>a, <2>1, MarketNumbers
    <2>3. waiting' \in BOOLEAN BY <2>1
    <2>4. QED BY <1>a, <1>b, <1>c, <2>1, <2>2, <2>3
  <1>8. QED BY <1>1, <1>2, <1>3, <1>4, <1>5, <1>6, <1>7 DEF Finder!Next

LEMMA FinderStaysCalm ==
  ASSUME MarketTyped, FinderCalm, Finder!Next PROVE FinderCalm'
  <1> SUFFICES ASSUME clean'
               PROVE  /\ timers' = {} /\ (run' # {} => waiting')
                      /\ \A r, s \in run' : r = s
                      /\ \A r \in run' : r.of = query' /\ r.page \in {1, pageNo' + 1}
                      /\ Len(found') = pageNo'
                      /\ \A i \in 1..pageNo' : found'[i] = [of |-> query', page |-> i] BY DEF FinderCalm
  <1>a. pageNo \in Nat /\ Len(found) \in Nat BY MarketNumbers, ElementsOf DEF MarketTyped, Finder!TypeOK
  <1>b. clean => /\ timers = {} /\ (run # {} => waiting)
                 /\ \A r, s \in run : r = s
                 /\ \A r \in run : r.of = query /\ r.page \in {1, pageNo + 1}
                 /\ Len(found) = pageNo
                 /\ \A i \in 1..pageNo : found[i] = [of |-> query, page |-> i] BY DEF FinderCalm
  <1>c. ASSUME NEW n, NEW p \in {1, pageNo + 1}, clean, Finder!loadTasks(n, query, waiting, p),
               UNCHANGED <<query, timers, found, pageNo>>
        PROVE  /\ timers' = {} /\ (run' # {} => waiting')
               /\ \A r, s \in run' : r = s
               /\ \A r \in run' : r.of = query' /\ r.page \in {1, pageNo' + 1}
               /\ Len(found') = pageNo'
               /\ \A i \in 1..pageNo' : found'[i] = [of |-> query', page |-> i]
    <2>1. CASE waiting BY <1>b, <1>c, <2>1 DEF Finder!loadTasks
    <2>2. CASE ~ waiting
      <3>1. PICK new : new = [n |-> n, of |-> query, page |-> p] OBVIOUS
      <3>2. new.of = query /\ new.page = p BY <3>1
      <3>3. run' = {new} /\ waiting' BY <1>b, <1>c, <2>2, <3>1 DEF Finder!loadTasks
      <3>4. QED BY <1>b, <1>c, <3>2, <3>3
    <2>3. QED BY <2>1, <2>2
  <1>1. CASE Finder!Show BY <1>1, <1>c DEF Finder!Show, Finder!Acts
  <1>2. CASE Finder!Scroll BY <1>2, <1>c DEF Finder!Scroll, Finder!Acts
  <1>3. ASSUME NEW q, Finder!Type(q) \/ Finder!Choose(q) PROVE FALSE BY <1>3 DEF Finder!Type, Finder!Choose
  <1>4. ASSUME NEW t \in timers, Finder!Fire(t) PROVE FALSE BY <1>4, <1>b DEF Finder!Fire
  <1>5. ASSUME NEW r \in run, Finder!Answer(r)
        PROVE  /\ timers' = {} /\ (run' # {} => waiting')
               /\ \A h, s \in run' : h = s
               /\ \A h \in run' : h.of = query' /\ h.page \in {1, pageNo' + 1}
               /\ Len(found') = pageNo'
               /\ \A i \in 1..pageNo' : found'[i] = [of |-> query', page |-> i]
    <2>1. run' = run \ {r} /\ query' = query /\ timers' = timers /\ pageNo' = r.page BY <1>5 DEF Finder!Answer
    <2>2. CASE r.page = 1
      <3>1. r.of = query /\ run' = {} /\ timers = {} BY <1>5, <2>2 DEF Finder!Answer
      <3>2. Len(found') = 1 /\ found'[1] = [of |-> r.of, page |-> 1] BY <1>5, <2>2, PagePut
      <3>3. QED BY <2>1, <2>2, <3>1, <3>2
    <2>3. CASE r.page # 1
      <3>1. clean BY <1>5, <2>3 DEF Finder!Answer
      <3>2. /\ r.of = query /\ r.page = pageNo + 1 /\ run' = {} /\ timers' = {}
            /\ Len(found) = pageNo BY <1>b, <2>1, <2>3, <3>1
      <3>3. /\ Len(found') = Len(found) + 1 /\ \A i \in 1..Len(found) : found'[i] = found[i]
            /\ found'[Len(found) + 1] = [of |-> r.of, page |-> r.page] BY <1>5, <2>3, PagePut
      <3>4. \A i \in 1..(pageNo + 1) : i \in 1..pageNo \/ i = pageNo + 1 BY <1>a
      <3>5. \A i \in 1..(pageNo + 1) : found'[i] = [of |-> query, page |-> i] BY <1>b, <3>1, <3>2, <3>3, <3>4
      <3>6. QED BY <2>1, <3>2, <3>3, <3>5
    <2>4. QED BY <2>2, <2>3
  <1>6. ASSUME NEW r \in run, Finder!Fail(r)
        PROVE  /\ timers' = {} /\ (run' # {} => waiting')
               /\ \A h, s \in run' : h = s
               /\ \A h \in run' : h.of = query' /\ h.page \in {1, pageNo' + 1}
               /\ Len(found') = pageNo'
               /\ \A i \in 1..pageNo' : found'[i] = [of |-> query', page |-> i]
    <2>1. run' = run \ {r} /\ UNCHANGED <<query, found, pageNo, timers, clean>> BY <1>6 DEF Finder!Fail
    <2>2. QED BY <1>b, <2>1
  <1>7. QED BY <1>1, <1>2, <1>3, <1>4, <1>5, <1>6 DEF Finder!Next

LEMMA MarketInvariant == Spec => [](area = "market" => MarketInv)
  <1>1. Init => (area = "market" => MarketInv)
    <2> SUFFICES ASSUME Init PROVE MarketInv OBVIOUS
    <2>1. /\ query \in Queries /\ found = << >> /\ pageNo = 1 /\ waiting = FALSE /\ timers = {}
          /\ run = {} /\ clean = FALSE /\ calls = 0 /\ faults = 0 BY DEF Init, Finder!Init
    <2>2. waiting \in BOOLEAN /\ clean \in BOOLEAN /\ ~ clean BY <2>1
    <2>3. found \in Seq(OnePage) BY <2>1
    <2>4. MarketTyped BY <2>1, <2>2, <2>3, MarketNumbers DEF MarketTyped, Finder!TypeOK, OnePage
    <2>5. QED BY <2>2, <2>4 DEF MarketInv, FinderCalm
  <1>2. (area = "market" => MarketInv) /\ [Next]_vars => (area = "market" => MarketInv)'
    <2> SUFFICES ASSUME area = "market", MarketInv, [Next]_vars PROVE MarketInv' BY DEF Next, vars
    <2>1. CASE Finder!Next BY <2>1, MarketTypes, FinderStaysCalm DEF MarketInv
    <2>2. CASE UNCHANGED MarketVars BY <2>2 DEF MarketVars, market, MarketInv, MarketTyped, Finder!TypeOK, FinderCalm
    <2>3. QED BY <2>1, <2>2, MarketStep
  <1>3. QED BY <1>1, <1>2, PTL DEF Spec

LEMMA MarketKept == MarketInv => Finder!TypeOK /\ Finder!OneQueryOnceClean
  <1> SUFFICES ASSUME MarketInv, clean
               PROVE  found = [i \in 1..pageNo |-> [of |-> query, page |-> i]]
    BY DEF MarketInv, MarketTyped, Finder!OneQueryOnceClean
  <1>1. found \in Seq(OnePage) BY DEF MarketInv, MarketTyped, Finder!TypeOK, OnePage
  <1>2. /\ Len(found) = pageNo /\ \A i \in 1..pageNo : found[i] = [of |-> query, page |-> i]
    BY DEF MarketInv, FinderCalm
  <1>3. found = [i \in 1..Len(found) |-> found[i]]
    <2> HIDE DEF OnePage
    <2>1. QED BY <1>1
  <1>4. QED BY <1>2, <1>3

------------
(* The page with the tasks *)

LEMMA BoardStep ==
  ASSUME area = "board", [Next]_vars PROVE area' = "board" /\ (List!Next \/ UNCHANGED BoardVars)
  BY DEF Next, vars, BoardVars, board

LEMMA Kinds ==
  /\ List!Kind("list") = "list" /\ List!Kind("apps") = "apps"
  /\ \A op \in {"detail", "again", "reload"} : List!Kind(op) = "detail"
  /\ \A op \in List!Verbs : List!Kind(op) = "button"
  /\ \A c \in List!Request : c.op \in {"list", "detail", "again", "reload", "apps"} \cup List!Verbs
  /\ List!Verbs = {"accept", "refuse", "pay", "cancel"} BY DEF List!Kind, List!Verbs, List!Request

LEMMA BoardTypes ==
  ASSUME BoardTyped, List!Next PROVE BoardTyped'
  <1>a. /\ state \in [Posts -> List!Stages] /\ filter \in Filters /\ listed \in Filters
        /\ {wanted, drawer, apps} \subseteq Posts \cup {None}
        /\ detail \in [task: Posts, stage: List!Stages] \cup {None}
        /\ cried \subseteq 0..Calls["board"] /\ run \subseteq List!Request
        /\ raced \subseteq {"list", "detail", "apps", "button"}
        /\ calls \in 0..Calls["board"] /\ faults \in 0..MaxFaults
        /\ \A c \in run : BoardCall(c)
        /\ detail # None => detail \in [task: Posts, stage: List!Stages]
        /\ Calls["board"] \in Nat /\ MaxFaults \in Nat BY BoundsAssumption DEF BoardTyped, List!TypeOK, Areas
  <1>b. ASSUME state' \in [Posts -> List!Stages], filter' \in Filters, listed' \in Filters,
               {wanted', drawer', apps'} \subseteq Posts \cup {None},
               detail' \in [task: Posts, stage: List!Stages] \cup {None},
               cried' \subseteq 0..Calls["board"],
               raced' \subseteq {"list", "detail", "apps", "button"},
               calls' \in 0..Calls["board"], faults' \in 0..MaxFaults, \A c \in run' : BoardCall(c)
        PROVE  BoardTyped'
    <2>1. run' \subseteq List!Request BY <1>b DEF BoardCall
    <2>2. List!TypeOK' BY <1>b, <2>1 DEF List!TypeOK
    <2>3. \A c \in run' : BoardCall(c)' BY <1>b DEF BoardCall
    <2>4. calls' \in Nat /\ faults' \in Nat BY <1>a, <1>b
    <2>5. QED BY <1>b, <2>2, <2>3, <2>4 DEF BoardTyped
  <1>c. ASSUME NEW op \in {"list", "detail", "again", "reload", "apps"} \cup List!Verbs,
               NEW of \in IF op = "list" THEN Filters ELSE Posts, calls < Calls["board"]
        PROVE  BoardCall(List!New(op, of))
    <2>1. PICK new : new = [n |-> calls, op |-> op, of |-> of, got |-> "sent"] OBVIOUS
    <2>2. new \in List!Request /\ new.n = calls /\ new.op = op /\ new.of = of /\ new.got = "sent"
      BY <1>a, <2>1 DEF List!Request
    <2>3. BoardCall(new) BY <1>a, <1>c, <2>2 DEF BoardCall
    <2>4. QED BY <2>1, <2>3 DEF List!New
  <1>d. \A what \in {"list", "detail", "apps", "button"} :
          List!Late(what) \subseteq {"list", "detail", "apps", "button"} BY DEF List!Late
  <1>e. ASSUME List!Click
        PROVE  /\ calls < Calls["board"] /\ calls' \in 0..Calls["board"]
               /\ state' = state /\ faults' = faults BY <1>a, <1>e DEF List!Click
  <1>f. ASSUME NEW c \in run, NEW op \in {"list", "detail", "again", "reload", "apps"} \cup List!Verbs,
               NEW of \in IF op = "list" THEN Filters ELSE Posts,
               NEW got \in List!Stages \cup {"sent", "done", "refused"},
               List!Kind(op) = "detail" => got \in List!Stages \cup {"sent"},
               NEW new, new = [c EXCEPT !.op = op, !.of = of, !.got = got]
        PROVE  BoardCall(new)
    <2>1. c \in List!Request /\ c.n <= Calls["board"] BY <1>a DEF BoardCall
    <2>2. new \in List!Request /\ new.n = c.n /\ new.op = op /\ new.of = of /\ new.got = got
      BY <1>f, <2>1 DEF List!Request
    <2>3. QED BY <1>f, <2>1, <2>2 DEF BoardCall
  <1>g. ASSUME NEW s \in List!Stages, NEW t \in Posts
        PROVE  [task |-> t, stage |-> s] \in [task: Posts, stage: List!Stages] OBVIOUS
  <1>1. ASSUME NEW f \in Filters, List!Choose(f) PROVE BoardTyped'
    <2>1. /\ List!Click /\ filter' = f /\ run' = run \cup {List!New("list", f)}
          /\ raced' = raced \cup List!Late("list")
          /\ UNCHANGED <<listed, wanted, detail, drawer, apps, cried>> BY <1>1 DEF List!Choose
    <2>2. BoardCall(List!New("list", f)) BY <1>c, <1>e, <2>1
    <2>3. QED BY <1>a, <1>b, <1>d, <1>e, <2>1, <2>2
  <1>2. ASSUME NEW t \in Posts, List!OpenTask(t) PROVE BoardTyped'
    <2>1. /\ List!Click /\ wanted' = t /\ detail' = None /\ run' = run \cup {List!New("detail", t)}
          /\ raced' = raced \cup List!Late("detail") \cup List!Late("button")
          /\ UNCHANGED <<filter, listed, drawer, apps, cried>> BY <1>2 DEF List!OpenTask
    <2>2. BoardCall(List!New("detail", t)) BY <1>c, <1>e, <2>1
    <2>3. QED BY <1>a, <1>b, <1>d, <1>e, <2>1, <2>2
  <1>3. ASSUME NEW t \in Posts, List!OpenApplications(t) PROVE BoardTyped'
    <2>1. /\ List!Click /\ drawer' = t /\ run' = run \cup {List!New("apps", t)}
          /\ raced' = raced \cup List!Late("apps")
          /\ UNCHANGED <<filter, listed, wanted, detail, apps, cried>> BY <1>3 DEF List!OpenApplications
    <2>2. BoardCall(List!New("apps", t)) BY <1>c, <1>e, <2>1
    <2>3. QED BY <1>a, <1>b, <1>d, <1>e, <2>1, <2>2
  <1>4. ASSUME NEW verb \in List!Verbs, List!Press(verb) PROVE BoardTyped'
    <2>1. /\ List!Click /\ detail # None /\ run' = run \cup {List!New(verb, detail.task)}
          /\ UNCHANGED <<List!screen, raced>> BY <1>4 DEF List!Press
    <2>2. detail.task \in Posts /\ verb # "list" BY <1>a, <2>1 DEF List!Verbs
    <2>3. BoardCall(List!New(verb, detail.task)) BY <1>c, <1>e, <2>1, <2>2
    <2>4. QED BY <1>a, <1>b, <1>d, <1>e, <2>1, <2>3 DEF List!screen
  <1>5. ASSUME NEW t \in Posts, List!Deliver(t) PROVE BoardTyped'
    BY <1>5, <1>a, <1>b DEF List!Deliver, List!screen, List!Stages
  <1>6. ASSUME NEW c \in run, List!Serve(c) PROVE BoardTyped'
    <2>1. UNCHANGED <<List!screen, raced, calls, faults>> /\ BoardCall(c) BY <1>6, <1>a DEF List!Serve
    <2>2. /\ c.op \in {"list", "detail", "again", "reload", "apps"} \cup List!Verbs
          /\ c.of \in IF c.op = "list" THEN Filters ELSE Posts BY <2>1, Kinds DEF BoardCall
    <2>3. state' \in [Posts -> List!Stages]
      <3>1. \A verb \in List!Verbs : List!To(verb) \in List!Stages BY DEF List!Verbs, List!To, List!Stages
      <3>2. QED BY <1>6, <1>a, <3>1 DEF List!Serve
    <2>4. PICK got \in List!Stages \cup {"sent", "done", "refused"} :
            /\ run' = (run \ {c}) \cup {[c EXCEPT !.got = got]}
            /\ List!Kind(c.op) = "detail" => got \in List!Stages \cup {"sent"}
      <3>1. CASE List!Kind(c.op) = "detail"
        <4>1. c.op \notin List!Verbs /\ c.op # "list" BY <2>2, <3>1, Kinds
        <4>2. state[c.of] \in List!Stages BY <1>a, <2>2, <4>1
        <4>3. QED BY <1>6, <3>1, <4>1, <4>2 DEF List!Serve, List!Gets
      <3>2. CASE List!Kind(c.op) # "detail" BY <1>6, <3>2 DEF List!Serve, List!Gets
      <3>3. QED BY <3>1, <3>2
    <2>5. PICK new : new = [c EXCEPT !.op = c.op, !.of = c.of, !.got = got] OBVIOUS
    <2>6. new = [c EXCEPT !.got = got] BY <2>1, <2>5 DEF BoardCall, List!Request
    <2>7. BoardCall(new) BY <1>f, <2>2, <2>4, <2>5
    <2>8. \A k \in run' : BoardCall(k) BY <1>a, <2>4, <2>6, <2>7
    <2>9. QED BY <1>a, <1>b, <2>1, <2>3, <2>8 DEF List!screen
  <1>7. ASSUME NEW c \in run, List!ShowList(c) PROVE BoardTyped'
    <2>1. /\ c.op = "list" /\ run' = run \ {c} /\ listed' = c.of
          /\ UNCHANGED <<state, calls, faults, filter, wanted, detail, drawer, apps, cried, raced>>
      BY <1>7 DEF List!ShowList, List!Answered
    <2>2. c.of \in Filters BY <1>a, <2>1 DEF BoardCall
    <2>3. QED BY <1>a, <1>b, <2>1, <2>2
  <1>8. ASSUME NEW c \in run, List!ShowDetail(c) PROVE BoardTyped'
    <2>1. /\ c.op = "detail" /\ run' = run \ {c} /\ c.got # "sent"
          /\ detail' = [task |-> c.of, stage |-> c.got]
          /\ UNCHANGED <<state, calls, faults, filter, listed, wanted, drawer, apps, cried, raced>>
      BY <1>8 DEF List!ShowDetail, List!Answered
    <2>2. c.of \in Posts /\ c.got \in List!Stages BY <1>a, <2>1, Kinds DEF BoardCall
    <2>3. detail' \in [task: Posts, stage: List!Stages] BY <1>g, <2>1, <2>2
    <2>4. QED BY <1>a, <1>b, <2>1, <2>3
  <1>9. ASSUME NEW c \in run, List!ShowApplications(c) PROVE BoardTyped'
    <2>1. /\ c.op = "apps" /\ run' = run \ {c} /\ apps' = c.of
          /\ UNCHANGED <<state, calls, faults, filter, listed, wanted, detail, drawer, cried, raced>>
      BY <1>9 DEF List!ShowApplications, List!Answered
    <2>2. c.of \in Posts BY <1>a, <2>1 DEF BoardCall
    <2>3. QED BY <1>a, <1>b, <2>1, <2>2
  <1>10. ASSUME NEW c \in run, List!Pressed(c) PROVE BoardTyped'
    <2>1. UNCHANGED <<state, calls, faults, filter, listed, wanted, detail, drawer, apps>>
      BY <1>10 DEF List!Pressed, List!Answered
    <2>2. c.n \in 0..Calls["board"] /\ c \in List!Request BY <1>a DEF BoardCall, List!Request
    <2>3. CASE c.got = "done" /\ detail # None
      <3>1. /\ run' = (run \ {c}) \cup {[c EXCEPT !.op = List!Reload(@), !.of = detail.task,
                                                  !.got = "sent"]}
            /\ raced' = raced \cup List!Late("detail") /\ cried' = cried BY <1>10, <2>3 DEF List!Pressed
      <3>2. PICK op \in {"again", "reload"} : op = List!Reload(c.op) BY DEF List!Reload
      <3>3. PICK new : new = [c EXCEPT !.op = op, !.of = detail.task, !.got = "sent"] OBVIOUS
      <3>4. detail.task \in Posts BY <1>a, <2>3
      <3>5. BoardCall(new) BY <1>f, <3>3, <3>4
      <3>6. \A k \in run' : BoardCall(k) BY <1>a, <3>1, <3>2, <3>3, <3>5
      <3>7. QED BY <1>a, <1>b, <1>d, <2>1, <3>1, <3>6
    <2>4. CASE ~ (c.got = "done" /\ detail # None)
      <3>1. run' = run \ {c} /\ raced' = raced /\ cried' \subseteq cried \cup {c.n} BY <1>10, <2>4 DEF List!Pressed
      <3>2. QED BY <1>a, <1>b, <2>1, <2>2, <3>1
    <2>5. QED BY <2>3, <2>4
  <1>11. ASSUME NEW c \in run, List!ShowAgain(c) PROVE BoardTyped'
    <2>1. /\ c.op \in {"again", "reload"} /\ c.got # "sent"
          /\ run' = (run \ {c}) \cup {[c EXCEPT !.op = "list", !.of = filter, !.got = "sent"]}
          /\ raced' = raced \cup List!Late("list")
          /\ detail' = [task |-> c.of, stage |-> c.got]
          /\ UNCHANGED <<state, calls, faults, filter, listed, wanted, drawer, apps, cried>>
      BY <1>11 DEF List!ShowAgain, List!Answered
    <2>2. c.of \in Posts /\ c.got \in List!Stages BY <1>a, <2>1, Kinds DEF BoardCall
    <2>3. detail' \in [task: Posts, stage: List!Stages] BY <1>g, <2>1, <2>2
    <2>4. PICK new : new = [c EXCEPT !.op = "list", !.of = filter, !.got = "sent"] OBVIOUS
    <2>5. BoardCall(new) BY <1>a, <1>f, <2>4
    <2>6. \A k \in run' : BoardCall(k) BY <1>a, <2>1, <2>4, <2>5
    <2>7. QED BY <1>a, <1>b, <1>d, <2>1, <2>3, <2>6
  <1>12. ASSUME NEW c \in run, List!Fail(c) PROVE BoardTyped'
    <2>1. /\ faults < MaxFaults /\ faults' = faults + 1 /\ run' = run \ {c}
          /\ apps' \in {apps, None} /\ cried' \subseteq cried \cup {c.n}
          /\ UNCHANGED <<state, filter, listed, wanted, detail, drawer, raced, calls>> BY <1>12 DEF List!Fail
    <2>2. c.n \in 0..Calls["board"] BY <1>a DEF BoardCall, List!Request
    <2>3. faults' \in 0..MaxFaults BY <1>a, <2>1
    <2>4. QED BY <1>a, <1>b, <2>1, <2>2, <2>3
  <1>13. QED BY <1>1, <1>2, <1>3, <1>4, <1>5, <1>6, <1>7, <1>8, <1>9, <1>10, <1>11, <1>12 DEF List!Next

LEMMA LateWhenOpen == \A what : List!Late(what) = IF Requests(what) # {} THEN {what} ELSE {}
  BY DEF List!Late, List!Open, Requests

LEMMA RequestsThen ==
  ASSUME NEW what
  PROVE  /\ run' = run => Requests(what)' = Requests(what)
         /\ \A new : Came(new) =>
              Requests(what)' = Requests(what) \cup (IF List!Kind(new.op) = what THEN {new} ELSE {})
         /\ \A c, new : Became(c, new) =>
              Requests(what)' = (Requests(what) \ {c})
                                  \cup (IF List!Kind(new.op) = what THEN {new} ELSE {})
         /\ \A c : Went(c) => Requests(what)' = Requests(what) \ {c} BY DEF Requests, Came, Became, Went

LEMMA BoardMoves ==
  ASSUME BoardTyped, List!Next
  PROVE  \/ \E new : Clicked(new)
         \/ \E c, new : Served(c, new)
         \/ \E c : Shown(c)
         \/ \E c, new : Followed(c, new)
         \/ \E c : Dropped(c)
         \/ \E c : LostOne(c)
         \/ UNCHANGED <<run, raced, List!screen, faults>>
  <1>a. \A c \in run : /\ c \in List!Request /\ c.of \in IF c.op = "list" THEN Filters ELSE Posts
                       /\ List!Kind(c.op) = "detail" => c.got \in List!Stages \cup {"sent"}
    BY DEF BoardTyped, BoardCall
  <1>b. ASSUME NEW op, NEW of PROVE \E new : new = List!New(op, of) /\ new.op = op /\ new.of = of
    <2>1. PICK new : new = List!New(op, of) OBVIOUS
    <2>2. new.op = op /\ new.of = of BY <2>1 DEF List!New
    <2>3. QED BY <2>1, <2>2
  <1>1. ASSUME NEW f, List!Choose(f) PROVE \E new : Clicked(new)
    <2>1. PICK new : new = List!New("list", f) /\ new.op = "list" /\ new.of = f BY <1>b
    <2>2. Clicked(new) BY <1>1, <2>1 DEF List!Choose, List!Click, Clicked, Came
    <2>3. QED BY <2>2
  <1>2. ASSUME NEW t, List!OpenTask(t) PROVE \E new : Clicked(new)
    <2>1. PICK new : new = List!New("detail", t) /\ new.op = "detail" /\ new.of = t BY <1>b
    <2>2. Clicked(new) BY <1>2, <2>1 DEF List!OpenTask, List!Click, Clicked, Came
    <2>3. QED BY <2>2
  <1>3. ASSUME NEW t, List!OpenApplications(t) PROVE \E new : Clicked(new)
    <2>1. PICK new : new = List!New("apps", t) /\ new.op = "apps" /\ new.of = t BY <1>b
    <2>2. Clicked(new) BY <1>3, <2>1 DEF List!OpenApplications, List!Click, Clicked, Came
    <2>3. QED BY <2>2
  <1>4. ASSUME NEW verb \in List!Verbs, List!Press(verb) PROVE \E new : Clicked(new)
    <2>1. PICK new : new = List!New(verb, detail.task) /\ new.op = verb BY <1>b
    <2>2. Clicked(new) BY <1>4, <2>1 DEF List!Press, List!Click, List!screen, Clicked, Came
    <2>3. QED BY <2>2
  <1>5. ASSUME NEW t, List!Deliver(t) PROVE UNCHANGED <<run, raced, List!screen, faults>> BY <1>5 DEF List!Deliver
  <1>6. ASSUME NEW c \in run, List!Serve(c) PROVE \E k, new : Served(k, new)
    <2>1. PICK got : run' = (run \ {c}) \cup {[c EXCEPT !.got = got]} BY <1>6 DEF List!Serve, List!Gets
    <2>a. PICK new : new = [c EXCEPT !.got = got] OBVIOUS
    <2>2. new = [c EXCEPT !.got = got] /\ new.op = c.op /\ new.of = c.of BY <1>a, <2>a DEF List!Request
    <2>3. Served(c, new) BY <1>6, <2>1, <2>2 DEF List!Serve, Served, Became
    <2>4. QED BY <2>3
  <1>d. ASSUME NEW c \in run, c.op \in {"detail", "again", "reload"}, c.got # "sent",
               detail' = [task |-> c.of, stage |-> c.got]
        PROVE  detail' \in [task: Posts, stage: List!Stages] /\ detail'.task = c.of
    <2>1. c.of \in Posts /\ c.got \in List!Stages BY <1>a, <1>d, Kinds
    <2>2. QED BY <1>d, <2>1
  <1>7. ASSUME NEW c \in run, List!ShowList(c) \/ List!ShowDetail(c) \/ List!ShowApplications(c) PROVE Shown(c)
    <2>1. CASE List!ShowList(c) BY <2>1 DEF List!ShowList, List!Answered, Shown, Went
    <2>2. CASE List!ShowDetail(c) BY <1>d, <2>2 DEF List!ShowDetail, List!Answered, Shown, Went
    <2>3. CASE List!ShowApplications(c) BY <2>3 DEF List!ShowApplications, List!Answered, Shown, Went
    <2>4. QED BY <1>7, <2>1, <2>2, <2>3
  <1>8. ASSUME NEW c \in run, List!Pressed(c) PROVE (\E k, new : Followed(k, new)) \/ Dropped(c)
    <2>1. CASE c.got = "done" /\ detail # None
      <3>1. PICK op \in {"again", "reload"} : op = List!Reload(c.op) BY DEF List!Reload
      <3>a. PICK new : new = [c EXCEPT !.op = op, !.of = detail.task, !.got = "sent"] OBVIOUS
      <3>2. new.op = op /\ new.of = detail.task BY <1>a, <3>a DEF List!Request
      <3>3. Followed(c, new) BY <1>8, <2>1, <3>1, <3>a, <3>2 DEF List!Pressed, List!Answered, Followed, Became
      <3>4. QED BY <3>3
    <2>2. CASE c.got = "done" /\ detail = None BY <1>8, <2>2 DEF List!Pressed, List!Answered, Dropped, Went
    <2>3. CASE c.got # "done"
      <3>1. cried' = cried BY <1>8, <2>3 DEF List!Pressed
      <3>2. QED BY <1>8, <2>3, <3>1 DEF List!Pressed, List!Answered, Dropped, Went
    <2>4. QED BY <2>1, <2>2, <2>3
  <1>9. ASSUME NEW c \in run, List!ShowAgain(c) PROVE \E k, new : Followed(k, new)
    <2>a. PICK new : new = [c EXCEPT !.op = "list", !.of = filter, !.got = "sent"] OBVIOUS
    <2>1. new.op = "list" /\ new.of = filter BY <1>a, <2>a DEF List!Request
    <2>2. c.op \in {"again", "reload"} /\ c.got # "sent" /\ detail' = [task |-> c.of, stage |-> c.got]
      BY <1>9 DEF List!ShowAgain, List!Answered
    <2>3. Followed(c, new) BY <1>9, <1>d, <2>a, <2>1, <2>2 DEF List!ShowAgain, List!Answered, Followed, Became
    <2>4. QED BY <2>3
  <1>10. ASSUME NEW c \in run, List!Fail(c) PROVE LostOne(c) BY <1>10 DEF List!Fail, LostOne, Went
  <1>11. QED BY <1>1, <1>2, <1>3, <1>4, <1>5, <1>6, <1>7, <1>8, <1>9, <1>10 DEF List!Next

LEMMA ShownAsAsked ==
  ASSUME BoardTyped, DetailAsked, AppsAsked, ListAsked, HeldByDrawer, List!Next
  PROVE  DetailAsked' /\ AppsAsked' /\ ListAsked' /\ HeldByDrawer'
  <1>a. \A c \in run : c.op \in {"list", "detail", "again", "reload", "apps"} \cup List!Verbs
    BY Kinds DEF BoardTyped, List!TypeOK
  <1>b. faults \in Nat BY DEF BoardTyped
  <1>c. None \notin [task: Posts, stage: List!Stages] BY DetailAssumption
  <1>l. \A what : Requests(what) # {} => List!Late(what) = {what} BY LateWhenOpen
  <1> USE DEF OnlyOne
  <1>1. ASSUME NEW new, Clicked(new) PROVE DetailAsked' /\ AppsAsked' /\ ListAsked' /\ HeldByDrawer'
    <2>0. Came(new) /\ UNCHANGED <<listed, apps, cried, faults>> /\ raced \subseteq raced' BY <1>1 DEF Clicked
    <2>1. \A what : Requests(what)' = Requests(what) \cup (IF List!Kind(new.op) = what THEN {new} ELSE {})
      BY <2>0, RequestsThen
    <2>2. CASE new.op = "list"
      BY <1>1, <1>l, <2>0, <2>1, <2>2, Kinds DEF Clicked, DetailAsked, AppsAsked, ListAsked, HeldByDrawer
    <2>3. CASE new.op = "detail"
      BY <1>1, <1>l, <2>0, <2>1, <2>3, Kinds DEF Clicked, DetailAsked, AppsAsked, ListAsked, HeldByDrawer
    <2>4. CASE new.op = "apps"
      BY <1>1, <1>l, <2>0, <2>1, <2>4, Kinds DEF Clicked, DetailAsked, AppsAsked, ListAsked, HeldByDrawer
    <2>5. CASE new.op \in List!Verbs
      BY <1>1, <2>0, <2>1, <2>5, Kinds DEF Clicked, DetailAsked, AppsAsked, ListAsked, HeldByDrawer
    <2>6. QED BY <1>1, <2>2, <2>3, <2>4, <2>5 DEF Clicked
  <1>2. ASSUME NEW c, NEW new, Served(c, new) PROVE DetailAsked' /\ AppsAsked' /\ ListAsked' /\ HeldByDrawer'
    <2>1. \A what : Requests(what)' = (Requests(what) \ {c})
                       \cup (IF List!Kind(new.op) = what THEN {new} ELSE {}) BY <1>2, RequestsThen DEF Served
    <2>2. c \in run /\ new.op = c.op /\ new.of = c.of /\ UNCHANGED <<List!screen, raced, faults>>
      BY <1>2 DEF Served, Became
    <2>3. \A what : /\ c \in Requests(what) <=> List!Kind(new.op) = what
                    /\ \A d \in Requests(what)' : d \in Requests(what) \/ (c \in Requests(what) /\ d = new)
      BY <2>1, <2>2 DEF Requests
    <2>4. \A what : /\ (\A d, e \in Requests(what) : d = e) => (\A d, e \in Requests(what)' : d = e)
                    /\ Requests(what) # {} <=> Requests(what)' # {}
                    /\ \A of : (\A d \in Requests(what) : d.of = of) => \A d \in Requests(what)' : d.of = of
      BY <2>1, <2>2, <2>3
    <2>5. QED BY <2>2, <2>4 DEF List!screen, DetailAsked, AppsAsked, ListAsked, HeldByDrawer
  <1>3. ASSUME NEW c, Shown(c) PROVE DetailAsked' /\ AppsAsked' /\ ListAsked' /\ HeldByDrawer'
    <2>1. \A what : Requests(what)' = Requests(what) \ {c} BY <1>3, RequestsThen DEF Shown
    <2>2. \A what : c \in Requests(what) <=> what = List!Kind(c.op) BY <1>3 DEF Shown, Went, Requests
    <2>3. CASE c.op = "list"
      BY <1>3, <2>1, <2>2, <2>3, Kinds DEF Shown, DetailAsked, AppsAsked, ListAsked, HeldByDrawer
    <2>4. CASE c.op = "detail"
      BY <1>3, <1>c, <2>1, <2>2, <2>4, Kinds DEF Shown, DetailAsked, AppsAsked, ListAsked, HeldByDrawer
    <2>5. CASE c.op = "apps"
      BY <1>3, <2>1, <2>2, <2>5, Kinds DEF Shown, DetailAsked, AppsAsked, ListAsked, HeldByDrawer
    <2>6. QED BY <1>3, <2>3, <2>4, <2>5 DEF Shown
  <1>4. ASSUME NEW c, NEW new, Followed(c, new) PROVE DetailAsked' /\ AppsAsked' /\ ListAsked' /\ HeldByDrawer'
    <2>1. \A what : Requests(what)' = (Requests(what) \ {c})
                       \cup (IF List!Kind(new.op) = what THEN {new} ELSE {}) BY <1>4, RequestsThen DEF Followed
    <2>2. \A what : c \in Requests(what) <=> what = List!Kind(c.op) BY <1>4 DEF Followed, Became, Requests
    <2>3. raced \subseteq raced' BY <1>4 DEF Followed
    <2>4. CASE c.op \in List!Verbs
      BY <1>4, <1>l, <2>1, <2>2, <2>3, <2>4, Kinds DEF Followed, DetailAsked, AppsAsked, ListAsked, HeldByDrawer
    <2>5. CASE c.op \in {"again", "reload"}
      BY <1>4, <1>c, <1>l, <2>1, <2>2, <2>3, <2>5, Kinds DEF Followed, DetailAsked, AppsAsked, ListAsked, HeldByDrawer
    <2>6. QED BY <1>4, <2>4, <2>5 DEF Followed
  <1>5. ASSUME NEW c, Dropped(c) PROVE DetailAsked' /\ AppsAsked' /\ ListAsked' /\ HeldByDrawer'
    <2>1. \A what : Requests(what)' = Requests(what) \ {c} BY <1>5, RequestsThen DEF Dropped
    <2>2. \A what : c \in Requests(what) <=> what = "button" BY <1>5, Kinds DEF Dropped, Went, Requests
    <2>3. QED BY <1>5, <2>1, <2>2 DEF Dropped, DetailAsked, AppsAsked, ListAsked, HeldByDrawer
  <1>6. ASSUME NEW c, LostOne(c) PROVE DetailAsked' /\ AppsAsked' /\ ListAsked' /\ HeldByDrawer'
    <2>1. \A what : Requests(what)' = Requests(what) \ {c} BY <1>6, RequestsThen DEF LostOne
    <2>2. c \in Requests("apps") <=> c.op = "apps" BY <1>6, <1>a, Kinds DEF LostOne, Went, Requests
    <2>3. faults' # 0 BY <1>6, <1>b DEF LostOne
    <2>4. QED BY <1>6, <2>1, <2>2, <2>3 DEF LostOne, DetailAsked, AppsAsked, ListAsked, HeldByDrawer
  <1>7. CASE UNCHANGED <<run, raced, List!screen, faults>>
    BY <1>7 DEF List!screen, Requests, DetailAsked, AppsAsked, ListAsked, HeldByDrawer
  <1>8. QED BY <1>1, <1>2, <1>3, <1>4, <1>5, <1>6, <1>7, BoardMoves

LEMMA BoardInvariant == Spec => [](area = "board" => BoardInv)
  <1>1. Init => (area = "board" => BoardInv)
    <2> SUFFICES ASSUME Init PROVE BoardInv OBVIOUS
    <2>1. List!Init /\ query \in Queries BY DEF Init, Finder!Init
    <2>2. (CHOOSE f \in Filters : TRUE) \in Filters BY DetailAssumption
    <2>3. Calls["board"] \in Nat /\ MaxFaults \in Nat BY BoundsAssumption DEF Areas
    <2>4. BoardTyped BY <2>1, <2>2, <2>3 DEF List!Init, BoardTyped, List!TypeOK, List!Stages
    <2>5. QED
      BY <2>1, <2>4 DEF List!Init, BoardInv, DetailAsked, AppsAsked, ListAsked, HeldByDrawer, OnlyOne, Requests
  <1>2. (area = "board" => BoardInv) /\ [Next]_vars => (area = "board" => BoardInv)'
    <2> SUFFICES ASSUME area = "board", BoardInv, [Next]_vars PROVE BoardInv' BY DEF Next, vars
    <2>1. CASE List!Next BY <2>1, BoardTypes, ShownAsAsked DEF BoardInv
    <2>2. CASE UNCHANGED BoardVars
      BY <2>2 DEF BoardVars, board, BoardInv, BoardTyped, List!TypeOK, BoardCall, DetailAsked, AppsAsked, ListAsked,
         HeldByDrawer, OnlyOne, Requests
    <2>3. QED BY <2>1, <2>2, BoardStep
  <1>3. QED BY <1>1, <1>2, PTL DEF Spec

LEMMA BoardKept ==
  BoardInv => List!TypeOK /\ List!ShownAsAskedUnlessRaced /\ List!FailureIsTrueUnlessLeft
  <1> SUFFICES ASSUME BoardInv PROVE List!ShownAsAskedUnlessRaced /\ List!FailureIsTrueUnlessLeft
    BY DEF BoardInv, BoardTyped
  <1>1. faults \in Nat /\ \A what : List!Open(what) <=> Requests(what) # {}
    BY DEF BoardInv, BoardTyped, List!Open, Requests
  <1>2. QED
    BY <1>1 DEF BoardInv, DetailAsked, AppsAsked, ListAsked, HeldByDrawer, List!ShownAsAskedUnlessRaced,
       List!FailureIsTrueUnlessLeft

------------
(* The assistants *)

LEMMA AdvisorStep ==
  ASSUME area = "advisor", [Next]_vars PROVE area' = "advisor" /\ (Aide!Next \/ UNCHANGED AdvisorVars)
  BY DEF Next, vars, AdvisorVars, advisor

LEMMA AdvisorNumbers ==
  /\ MaxHistory \in Nat \ {0} /\ Calls["advisor"] \in Nat /\ MaxFaults \in Nat /\ MaxAgents \in Nat
  /\ Agents # {} /\ None \notin Presets /\ Aide!Null \in Agents
  BY LimitsAssumption, NamesAssumption, BoundsAssumption DEF Areas, Aide!Null

LEMMA AdvisorTypesHold == AdvisorTyped => Aide!TypeOK
  <1> SUFFICES ASSUME AdvisorTyped PROVE Aide!TypeOK OBVIOUS
  <1>1. run \subseteq Aide!Request BY DEF AdvisorTyped, AgentCalls, AgentCall
  <1>2. DOMAIN history = 1..Len(history) BY ElementsOf DEF AdvisorTyped, AgentMemory
  <1>3. QED BY <1>1, <1>2 DEF AdvisorTyped, AgentRows, AgentRow, AgentMemory, AgentTalk, AgentRest, Aide!TypeOK

LEMMA CallCarries ==
  ASSUME NEW c \in Aide!Request
  PROVE  /\ c.n \in Nat /\ c.op \in {"chat", "create", "update", "delete", "toggle", "drop"}
         /\ c.at \in {"sent", "asked", "answered", "refused"} /\ c.agent \in Agents
         /\ c.session \in Nat /\ c.preset \in Presets \cup {None} /\ c.given \in Seq(Nat)
         /\ c.on \in BOOLEAN /\ c.waits \in BOOLEAN BY DEF Aide!Request

LEMMA TalkHas ==
  ASSUME AgentTalk
  PROVE  /\ talk.place \in {"drawer", "dialog"} /\ talk.agent \in Agents /\ talk.session \in Nat
         /\ talk.rounds \in Nat /\ talk.answered \in Seq(Nat) /\ talk.busy \in BOOLEAN BY DEF AgentTalk, Aide!Talk

LEMMA AdvisorMoves ==
  ASSUME AdvisorTyped, Aide!Next
  PROVE  \/ \E new : EnteredChat(new) \/ EnteredOffice(new)
         \/ Turned
         \/ \E c : Heard(c)
         \/ \E c, new : Looked1(c, new) \/ Told1(c, new) \/ NoAnswer(c, new) \/ Tired(c, new)
         \/ Restarted
         \/ \E c : Closed(c)
  <1> USE DEF Aide!rows, Aide!memory
  <1>a. \A c \in run : AgentCall(c, Len(owner)) /\ c \in Aide!Request BY DEF AdvisorTyped, AgentCalls, AgentCall
  <1>b. AgentTalk /\ AgentRows /\ calls \in Nat /\ strayed \in BOOLEAN BY DEF AdvisorTyped, AgentRest
  <1>c. /\ talk.place \in {"drawer", "dialog"} /\ talk.agent \in Agents /\ talk.session \in Nat
        /\ talk.rounds \in Nat /\ talk.answered \in Seq(Nat) /\ talk.busy \in BOOLEAN
        /\ talk \in Aide!Talk BY <1>b, TalkHas DEF AgentTalk
  <1>d. ASSUME NEW t, t = Aide!Apologised
        PROVE  /\ t \in Aide!Talk /\ t.session = talk.session /\ t.agent = talk.agent
               /\ t.answered = talk.answered BY <1>c, <1>d DEF Aide!Apologised, Aide!Talk
  <1>1. CASE Aide!Ask
    <2>1. PICK new : new = [n |-> calls, op |-> "chat", at |-> "sent", agent |-> talk.agent,
                            session |-> talk.session, preset |-> None, on |-> TRUE,
                            given |-> << >>, waits |-> TRUE] OBVIOUS
    <2>2. new.waits /\ new.waits = TRUE /\ new.on = TRUE BY <2>1
    <2>3. /\ new.n = calls /\ new.op = "chat" /\ new.at = "sent" /\ new.agent = talk.agent
          /\ new.session = talk.session /\ new.given = << >> /\ new.preset = None BY <2>1
    <2>4. new \in Aide!Request
      <3>1. << >> \in Seq(Nat) OBVIOUS
      <3>2. QED BY <1>b, <1>c, <2>1, <3>1 DEF Aide!Request
    <2>5. /\ run' = run \cup {new} /\ talk' = [talk EXCEPT !.rounds = @ + 1, !.busy = TRUE]
          /\ calls < Calls["advisor"] /\ calls' = calls + 1 /\ ~ talk.busy
          /\ UNCHANGED <<agent, preset, wish, owner, history, raced, strayed, faults>> BY <1>1, <2>1 DEF Aide!Ask
    <2>6. /\ talk' \in Aide!Talk /\ talk'.session = talk.session /\ talk'.agent = talk.agent
          /\ talk'.answered = talk.answered /\ talk'.busy = TRUE
      <3>1. PICK r \in Nat : r = talk.rounds + 1 BY <1>c
      <3>2. PICK b \in BOOLEAN : b = TRUE OBVIOUS
      <3>3. talk' = [talk EXCEPT !.rounds = r, !.busy = b] BY <2>5, <3>1, <3>2
      <3>4. QED BY <1>c, <3>2, <3>3 DEF Aide!Talk
    <2>7. talk'.busy BY <2>6
    <2>8. EnteredChat(new) BY <2>2, <2>3, <2>4, <2>5, <2>6, <2>7 DEF EnteredChat, Entered
    <2>9. QED BY <2>8
  <1>e. ASSUME NEW op \in {"create", "update", "delete", "toggle", "drop"}, NEW a \in Agents,
               NEW p \in Presets \cup {None}, Aide!Begin(op, a, p),
               op = "drop" => p \in Presets /\ \A b \in Aide!There : agent[b].preset # p
        PROVE  \E new : EnteredOffice(new)
    <2>1. PICK new : new = [n |-> calls, op |-> op, at |-> "asked", agent |-> a, session |-> 0,
                            preset |-> p, on |-> agent[a].on, given |-> << >>, waits |-> FALSE] OBVIOUS
    <2>2. new.n = calls /\ new.op = op /\ new.preset = p BY <2>1
    <2>3. new \in Aide!Request
      <3>1. << >> \in Seq(Nat) /\ 0 \in Nat OBVIOUS
      <3>2. agent[a].on \in BOOLEAN BY <1>b DEF AgentRows, AgentRow
      <3>3. QED BY <1>b, <1>e, <2>1, <3>1, <3>2 DEF Aide!Request
    <2>4. /\ run' = run \cup {new} /\ calls < Calls["advisor"] /\ calls' = calls + 1
          /\ UNCHANGED <<agent, preset, wish, owner, history, talk, strayed, faults>>
          /\ raced' = raced \cup UNION {Aide!Touches(new) \cup Aide!Touches(d) : d \in Met(new)}
      BY <1>e, <2>1 DEF Aide!Begin, Met
    <2>5. EnteredOffice(new) BY <1>e, <2>2, <2>3, <2>4 DEF EnteredOffice, Entered
    <2>6. QED BY <2>5
  <1>2. ASSUME NEW a \in Agents, NEW p \in Presets \cup {None}, Aide!SaveRead(a, p) PROVE \E new : EnteredOffice(new)
    BY <1>2, <1>e DEF Aide!SaveRead
  <1>3. ASSUME NEW a \in Agents, Aide!ToggleRead(a) \/ Aide!DeleteRead(a) PROVE \E new : EnteredOffice(new)
    BY <1>3, <1>e DEF Aide!ToggleRead, Aide!DeleteRead
  <1>4. ASSUME NEW p \in Presets, Aide!DropRead(p) PROVE \E new : EnteredOffice(new)
    BY <1>4, <1>e, AdvisorNumbers DEF Aide!DropRead
  <1>5. ASSUME NEW a \in Agents, Aide!Choose(a) PROVE Turned
    <2>1. /\ talk' = [talk EXCEPT !.agent = a, !.session = 0, !.rounds = 0, !.answered = << >>,
                                  !.busy = talk.busy /\ talk.place = "drawer"]
          /\ strayed' = (strayed \/ Aide!Waiting # {})
          /\ UNCHANGED <<agent, preset, wish, owner, history, run, raced, calls, faults>> BY <1>5 DEF Aide!Choose
    <2>2. PICK b \in BOOLEAN : b = (talk.busy /\ talk.place = "drawer") OBVIOUS
    <2>3. << >> \in Seq(Nat) /\ 0 \in Nat OBVIOUS
    <2>4. talk' = [talk EXCEPT !.agent = a, !.session = 0, !.rounds = 0, !.answered = << >>, !.busy = b] BY <2>1, <2>2
    <2>5. talk' \in Aide!Talk /\ talk'.session = 0 /\ talk'.answered = << >> BY <1>c, <2>3, <2>4 DEF Aide!Talk
    <2>6. QED BY <2>1, <2>5 DEF Turned
  <1>6. ASSUME NEW c \in run, Aide!Answer(c) PROVE Heard(c)
    <2>1. /\ c.op = "chat" /\ c.at = "answered" /\ run' = run \ {c}
          /\ UNCHANGED <<agent, preset, wish, owner, history, raced, strayed, calls, faults>>
      BY <1>6 DEF Aide!Answer, Aide!Ends
    <2>2. CASE c.waits
      <3>1. talk' = [talk EXCEPT !.answered = Append(talk.answered, c.n), !.session = c.session,
                                 !.busy = FALSE] BY <1>6, <2>2 DEF Aide!Answer
      <3>2. Append(talk.answered, c.n) \in Seq(Nat) /\ c.session \in Nat BY <1>a, <1>c, CallCarries, Appended
      <3>3. PICK q \in Seq(Nat) : q = Append(talk.answered, c.n) BY <3>2
      <3>4. talk' = [talk EXCEPT !.answered = q, !.session = c.session, !.busy = FALSE] BY <3>1, <3>3
      <3>5. /\ talk' \in Aide!Talk /\ talk'.session = c.session /\ talk'.agent = talk.agent
            /\ talk'.answered = q BY <1>c, <3>2, <3>4 DEF Aide!Talk
      <3>6. QED BY <2>1, <2>2, <3>3, <3>5 DEF Heard
    <2>3. CASE ~ c.waits
      <3>1. talk' = talk BY <1>6, <2>3 DEF Aide!Answer
      <3>2. QED BY <1>c, <2>1, <2>3, <3>1 DEF Heard
    <2>4. QED BY <2>2, <2>3
  <1>7. ASSUME NEW c \in run, Aide!Refused(c) PROVE Heard(c)
    <2>1. /\ c.op = "chat" /\ c.at = "refused" /\ run' = run \ {c}
          /\ UNCHANGED <<agent, preset, wish, owner, history, raced, strayed, calls, faults>>
          /\ IF c.waits THEN talk' = Aide!Apologised ELSE talk' = talk BY <1>7 DEF Aide!Refused, Aide!Ends
    <2>2. PICK t : t = talk' OBVIOUS
    <2>3. /\ talk' \in Aide!Talk /\ talk'.session = talk.session /\ talk'.agent = talk.agent
          /\ talk'.answered = talk.answered BY <1>c, <1>d, <2>1, <2>2
    <2>4. QED BY <2>1, <2>3 DEF Heard
  <1>g. \A c \in run : /\ c.session \in Nat /\ c.given \in Seq(Nat) /\ c.waits \in BOOLEAN /\ c.n \in Nat
                       /\ c.at \in {"sent", "asked", "answered", "refused"} BY <1>a, CallCarries
  <1>8. ASSUME NEW c \in run, Aide!GiveUp(c) PROVE \E new : Tired(c, new)
    <2>1. /\ c.op = "chat" /\ c.waits /\ run' = (run \ {c}) \cup {[c EXCEPT !.waits = FALSE]}
          /\ talk' = Aide!Apologised /\ faults < MaxFaults /\ faults' = faults + 1
          /\ UNCHANGED <<agent, preset, wish, owner, history, raced, strayed, calls>>
      BY <1>8 DEF Aide!GiveUp, Aide!Goes, Aide!Waiting, Aide!Fault
    <2>2. PICK new : new = [c EXCEPT !.waits = FALSE] OBVIOUS
    <2>3. /\ new \in Aide!Request /\ new.at = c.at /\ new.session = c.session
          /\ new.given = c.given /\ new.waits = FALSE /\ new.n = c.n /\ new.op = c.op
          /\ new.agent = c.agent /\ new.preset = c.preset BY <1>a, <2>2 DEF Aide!Request
    <2>4. Moved1(c, new) BY <2>1, <2>2, <2>3 DEF Moved1
    <2>5. PICK t : t = talk' OBVIOUS
    <2>6. /\ talk' \in Aide!Talk /\ talk'.session = talk.session
          /\ talk'.agent = talk.agent /\ talk'.answered = talk.answered BY <1>d, <2>1, <2>5
    <2>7. Tired(c, new) BY <2>1, <2>3, <2>4, <2>6 DEF Tired
    <2>8. QED BY <2>7
  <1>9. ASSUME NEW c \in run, Aide!Look(c) PROVE \E new : Looked1(c, new)
    <2>1. /\ c.op = "chat" /\ c.at = "sent"
          /\ UNCHANGED <<agent, preset, wish, raced, strayed, calls, talk, faults>> BY <1>9 DEF Aide!Look
    <2>2. CASE c.session = 0
      <3>1. /\ owner' = Append(owner, c.agent) /\ history' = Append(history, << >>)
            /\ run' = (run \ {c}) \cup {[c EXCEPT !.at = "asked", !.session = Len(owner) + 1]}
        BY <1>9, <2>2 DEF Aide!Look, Aide!Goes
      <3>2. PICK s \in Nat : s = Len(owner) + 1 BY ElementsOf DEF AdvisorTyped, AgentMemory
      <3>3. PICK new : new = [c EXCEPT !.at = "asked", !.session = s] OBVIOUS
      <3>4. /\ new \in Aide!Request /\ new.at = "asked" /\ new.session = s
            /\ new.given = c.given /\ new.waits = c.waits /\ new.n = c.n /\ new.op = c.op
            /\ new.agent = c.agent /\ new.preset = c.preset BY <1>a, <3>3 DEF Aide!Request
      <3>7. Moved1(c, new) BY <2>1, <3>1, <3>2, <3>3, <3>4 DEF Moved1
      <3>5. Looked1(c, new) BY <2>1, <2>2, <3>1, <3>2, <3>4, <3>7 DEF Looked1
      <3>6. QED BY <3>5
    <2>3. CASE c.session # 0
      <3>1. /\ UNCHANGED <<owner, history>>
            /\ run' = (run \ {c}) \cup {[c EXCEPT !.at = "asked", !.given = history[c.session]]}
        BY <1>9, <2>3 DEF Aide!Look, Aide!Goes
      <3>3. history[c.session] \in Seq(Nat)
        <4>1. c.session \in 1..Len(owner) /\ Len(owner) = Len(history) /\ history \in Seq(Seq(Nat))
          BY <1>a, <1>g, <2>1, <2>3 DEF AgentCall, AdvisorTyped, AgentMemory
        <4>2. QED BY <4>1, ElementsOf
      <3>2. PICK g \in Seq(Nat) : g = history[c.session] BY <3>3
      <3>4. PICK new : new = [c EXCEPT !.at = "asked", !.given = g] OBVIOUS
      <3>7. /\ new \in Aide!Request /\ new.at = "asked" /\ new.session = c.session
            /\ new.given = g /\ new.waits = c.waits /\ new.n = c.n /\ new.op = c.op
            /\ new.agent = c.agent /\ new.preset = c.preset BY <1>a, <3>4 DEF Aide!Request
      <3>8. Moved1(c, new) BY <2>1, <3>1, <3>2, <3>4, <3>7 DEF Moved1
      <3>5. Looked1(c, new) BY <2>1, <2>3, <3>1, <3>2, <3>7, <3>8 DEF Looked1
      <3>6. QED BY <3>5
    <2>4. QED BY <2>2, <2>3
  <1>h. ASSUME NEW c \in run, NEW at \in {"answered", "refused"}, c.op = "chat",
               Aide!Goes(c, [c EXCEPT !.at = at]),
               UNCHANGED <<agent, preset, wish, raced, strayed, calls>>
        PROVE  \E new : Moved1(c, new) /\ new.at = at /\ new.session = c.session /\ (new.waits <=> c.waits)
    <2>1. run' = (run \ {c}) \cup {[c EXCEPT !.at = at]} BY <1>h DEF Aide!Goes
    <2>2. PICK new : new = [c EXCEPT !.at = at] OBVIOUS
    <2>3. /\ new \in Aide!Request /\ new.at = at /\ new.session = c.session
          /\ new.given = c.given /\ new.waits = c.waits /\ new.n = c.n /\ new.op = c.op
          /\ new.agent = c.agent /\ new.preset = c.preset BY <1>a, <1>h, <2>2 DEF Aide!Request
    <2>4. Moved1(c, new) BY <1>h, <2>1, <2>2, <2>3 DEF Moved1
    <2>5. QED BY <2>3, <2>4
  <1>10. ASSUME NEW c \in run, Aide!NotFound(c) \/ Aide!Fail(c) PROVE \E new : NoAnswer(c, new)
    <2>1. /\ c.op = "chat" /\ Aide!Goes(c, [c EXCEPT !.at = "refused"])
          /\ UNCHANGED <<agent, preset, wish, owner, history, talk, raced, strayed, calls>>
          /\ \/ faults' = faults /\ c.at = "sent"
             \/ faults < MaxFaults /\ faults' = faults + 1 BY <1>10 DEF Aide!NotFound, Aide!Fail, Aide!Fault
    <2>2. PICK new : Moved1(c, new) /\ new.at = "refused" /\ (new.waits <=> c.waits) BY <1>h, <2>1
    <2>3. NoAnswer(c, new) BY <2>1, <2>2 DEF NoAnswer
    <2>4. QED BY <2>3
  <1>11. ASSUME NEW c \in run, Aide!ModelAnswers(c) PROVE \E new : Told1(c, new)
    <2>1. /\ c.op = "chat" /\ c.at = "asked" /\ Aide!Goes(c, [c EXCEPT !.at = "answered"])
          /\ history' = [history EXCEPT ![c.session] = Aide!Remember(history[c.session], c.n)]
          /\ UNCHANGED <<agent, preset, wish, owner, talk, raced, strayed, calls, faults>>
      BY <1>11 DEF Aide!ModelAnswers
    <2>2. PICK new : Moved1(c, new) /\ new.at = "answered" /\ new.session = c.session
                     /\ (new.waits <=> c.waits) BY <1>h, <2>1
    <2>3. Told1(c, new) BY <2>1, <2>2 DEF Told1
    <2>4. QED BY <2>3
  <1>12. CASE Aide!Restart
    <2>1. /\ UNCHANGED <<agent, preset, wish, owner, talk, raced, calls>>
          /\ history' = [s \in DOMAIN history |-> << >>]
          /\ run' = {[c EXCEPT !.at = "refused"] : c \in Aide!Waiting}
          /\ strayed' = TRUE /\ faults < MaxFaults /\ faults' = faults + 1 BY <1>12 DEF Aide!Restart, Aide!Fault
    <2>2. ASSUME NEW k \in run' PROVE k \in Aide!Request /\ k.op = "chat" /\ k.at = "refused"
      <3>1. PICK c \in run : c.op = "chat" /\ k = [c EXCEPT !.at = "refused"] BY <2>1 DEF Aide!Waiting
      <3>2. QED BY <1>a, <3>1 DEF Aide!Request
    <2>3. strayed' /\ strayed' \in BOOLEAN BY <2>1
    <2>4. QED BY <2>1, <2>2, <2>3 DEF Restarted
  <1>13. ASSUME NEW c \in run, Aide!WriteFails(c) PROVE Closed(c) BY <1>13 DEF Aide!WriteFails, Aide!Ends, Closed
  <1>14. ASSUME NEW c \in run, Aide!Write(c) PROVE Closed(c)
    <2>1. /\ c.op # "chat" /\ run' = run \ {c}
          /\ UNCHANGED <<owner, history, talk, raced, strayed, calls, faults>> BY <1>14 DEF Aide!Write, Aide!Ends
    <2>2. CASE c.op = "drop"
      <3>1. /\ preset' = preset \ {c.preset} /\ UNCHANGED wish
            /\ agent' = [a \in Agents |->
                 IF agent[a].preset = c.preset THEN [agent[a] EXCEPT !.preset = None] ELSE agent[a]]
        BY <1>14, <2>2 DEF Aide!Write
      <3>2. QED BY <2>1, <2>2, <3>1 DEF Closed
    <2>3. CASE c.op # "drop"
      <3>1. PICK r : r = Aide!Row(c) OBVIOUS
      <3>2. /\ agent' = [agent EXCEPT ![c.agent] = r] /\ UNCHANGED preset
            /\ wish' = [wish EXCEPT ![c.agent] = agent'[c.agent].preset] BY <1>14, <2>3, <3>1 DEF Aide!Write
      <3>3. /\ c.agent \in Agents /\ c.preset \in Presets \cup {None} /\ c.on \in BOOLEAN
            /\ c.op \in {"create", "update", "toggle", "delete"} BY <1>a, <2>1, <2>3, CallCarries
      <3>4. agent[c.agent] \in AgentRow BY <1>b, <3>3 DEF AgentRows
      <3>5. CASE c.op = "create"
        <4>1. r = [there |-> TRUE, preset |-> c.preset, on |-> TRUE] BY <3>1, <3>5 DEF Aide!Row
        <4>2. r \in AgentRow /\ r.preset = c.preset BY <3>3, <4>1 DEF AgentRow
        <4>3. agent'[c.agent] = r BY <1>b, <3>2, <3>3 DEF AgentRows
        <4>4. QED BY <2>1, <2>3, <3>2, <4>2, <4>3 DEF Closed
      <3>6. CASE c.op = "update"
        <4>1. r = [agent[c.agent] EXCEPT !.preset = c.preset] BY <3>1, <3>6 DEF Aide!Row
        <4>2. r \in AgentRow /\ r.preset = c.preset BY <3>3, <3>4, <4>1 DEF AgentRow
        <4>3. agent'[c.agent] = r BY <1>b, <3>2, <3>3 DEF AgentRows
        <4>4. QED BY <2>1, <2>3, <3>2, <4>2, <4>3 DEF Closed
      <3>7. CASE c.op = "toggle"
        <4>1. r = [agent[c.agent] EXCEPT !.on = ~ c.on] BY <3>1, <3>7 DEF Aide!Row
        <4>2. PICK b \in BOOLEAN : b = ~ c.on OBVIOUS
        <4>3. r = [agent[c.agent] EXCEPT !.on = b] BY <4>1, <4>2
        <4>4. r \in AgentRow /\ r.preset = agent[c.agent].preset BY <3>4, <4>3 DEF AgentRow
        <4>5. agent'[c.agent] = r BY <1>b, <3>2, <3>3 DEF AgentRows
        <4>6. c.agent \in Aide!There BY <1>14, <3>7 DEF Aide!Write, Aide!Allowed
        <4>7. QED BY <2>1, <2>3, <3>2, <3>7, <4>4, <4>5, <4>6 DEF Closed
      <3>8. CASE c.op = "delete"
        <4>1. r = [there |-> FALSE, preset |-> None, on |-> FALSE] BY <3>1, <3>8 DEF Aide!Row
        <4>2. r \in AgentRow BY <4>1 DEF AgentRow
        <4>3. ~ r.there BY <4>1
        <4>4. agent'[c.agent] = r BY <1>b, <3>2, <3>3 DEF AgentRows
        <4>5. QED BY <2>1, <2>3, <3>2, <4>2, <4>3, <4>4 DEF Closed
      <3>9. QED BY <3>3, <3>5, <3>6, <3>7, <3>8
    <2>4. QED BY <2>2, <2>3
  <1>15. QED BY <1>1, <1>2, <1>3, <1>4, <1>5, <1>6, <1>7, <1>8, <1>9, <1>10, <1>11, <1>12, <1>13, <1>14 DEF Aide!Next

LEMMA Remembers ==
  ASSUME NEW h \in Seq(Nat), Len(h) <= MaxHistory, NEW n \in Nat
  PROVE  /\ Aide!Remember(h, n) \in Seq(Nat) /\ Len(Aide!Remember(h, n)) <= MaxHistory
         /\ Len(h) < MaxHistory => Aide!Remember(h, n) = Append(h, n)
         /\ Len(Aide!Remember(h, n)) < MaxHistory => Len(h) < MaxHistory BY AdvisorNumbers DEF Aide!Remember

LEMMA AdvisorTypes ==
  ASSUME AdvisorTyped, Aide!Next PROVE AdvisorTyped'
  <1>a. /\ owner \in Seq(Agents) /\ history \in Seq(Seq(Nat)) /\ Len(owner) = Len(history)
        /\ Len(owner) \in Nat /\ \A s \in 1..Len(history) : Len(history[s]) <= MaxHistory
        /\ AgentRows /\ AgentRest /\ talk \in Aide!Talk /\ talk.session \in 0..Len(owner)
        /\ \A c \in run : AgentCall(c, Len(owner)) BY ElementsOf DEF AdvisorTyped, AgentMemory, AgentTalk, AgentCalls
  <1>b. \A s \in 1..Len(history) : history[s] \in Seq(Nat) BY <1>a, ElementsOf
  <1>c. \A c \in run : c \in Aide!Request /\ c.agent \in Agents /\ c.n \in Nat /\ c.session \in Nat
                       /\ c.preset \in Presets \cup {None} /\ Aide!Touches(c) \subseteq Agents \cup Presets
    <2> SUFFICES ASSUME NEW c \in run
                 PROVE  /\ c \in Aide!Request /\ c.agent \in Agents /\ c.n \in Nat
                        /\ c.session \in Nat /\ c.preset \in Presets \cup {None}
                        /\ Aide!Touches(c) \subseteq Agents \cup Presets OBVIOUS
    <2>1. c \in Aide!Request /\ (c.op = "drop" => c.preset \in Presets) BY <1>a DEF AgentCall
    <2>2. QED BY <2>1, CallCarries DEF Aide!Touches
  <1>d. calls \in 0..Calls["advisor"] /\ faults \in 0..MaxFaults BY <1>a DEF AgentRest
  <1>1. ASSUME NEW new, EnteredChat(new) PROVE AdvisorTyped'
    <2>1. AgentCall(new, Len(owner)) BY <1>1, <1>a DEF EnteredChat, Entered, AgentCall
    <2>2. AgentCalls' BY <1>1, <1>a, <2>1 DEF EnteredChat, Entered, AgentCalls
    <2>3. AgentRest' BY <1>1, <1>a, <1>d, AdvisorNumbers DEF EnteredChat, Entered, AgentRest
    <2>4. QED BY <1>1, <1>a, <2>2, <2>3 DEF EnteredChat, Entered, AdvisorTyped, AgentRows, AgentMemory, AgentTalk
  <1>2. ASSUME NEW new, EnteredOffice(new) PROVE AdvisorTyped'
    <2>1. AgentCall(new, Len(owner)) /\ new \in Aide!Request BY <1>2 DEF EnteredOffice, Entered, AgentCall
    <2>2. AgentCalls' BY <1>2, <1>a, <2>1 DEF EnteredOffice, Entered, AgentCalls
    <2>3. Aide!Touches(new) \subseteq Agents \cup Presets BY <1>2, <2>1, CallCarries DEF EnteredOffice, Aide!Touches
    <2>4. raced' \subseteq Agents \cup Presets
      <3>1. raced \subseteq Agents \cup Presets BY <1>a DEF AgentRest
      <3>2. QED BY <1>2, <1>c, <2>3, <3>1 DEF EnteredOffice, Met
    <2>5. calls' \in 0..Calls["advisor"] /\ faults' = faults /\ strayed' = strayed
      BY <1>2, <1>d, AdvisorNumbers DEF EnteredOffice, Entered
    <2>6. AgentRest' BY <1>a, <2>4, <2>5 DEF AgentRest
    <2>7. QED BY <1>2, <1>a, <2>2, <2>6 DEF EnteredOffice, Entered, AdvisorTyped, AgentRows, AgentMemory, AgentTalk
  <1>3. CASE Turned BY <1>3, <1>a DEF Turned, AdvisorTyped, AgentRows, AgentMemory, AgentTalk, AgentCalls, AgentRest
  <1>4. ASSUME NEW c, Heard(c) PROVE AdvisorTyped'
    <2>1. AgentTalk' BY <1>4, <1>a DEF Heard, AgentTalk, AgentCall
    <2>2. QED BY <1>4, <1>a, <2>1 DEF Heard, AdvisorTyped, AgentRows, AgentMemory, AgentCalls, AgentRest
  <1>e. ASSUME NEW c, NEW new, Moved1(c, new), NEW m \in Nat, m >= Len(owner), AgentCall(new, m)
        PROVE  \A k \in run' : AgentCall(k, m) BY <1>e, <1>a DEF Moved1, AgentCall
  <1>5. ASSUME NEW c, NEW new, Looked1(c, new) PROVE AdvisorTyped'
    <2>1. /\ c \in run /\ AgentCall(c, Len(owner)) /\ c.agent \in Agents /\ c.op = "chat"
          /\ new \in Aide!Request /\ Moved1(c, new) /\ c.session \in Nat
          /\ new.op = "chat" /\ new.at = "asked" BY <1>5, <1>a, <1>c DEF Looked1, Moved1
    <2>2. CASE c.session = 0
      <3>1. /\ owner' = Append(owner, c.agent) /\ history' = Append(history, << >>)
            /\ new.session = Len(owner) + 1 BY <1>5, <2>2 DEF Looked1
      <3>2. owner' \in Seq(Agents) /\ Len(owner') = Len(owner) + 1 BY <1>a, <2>1, <3>1, Appended
      <3>3. << >> \in Seq(Nat) /\ Len(<< >>) = 0 OBVIOUS
      <3>4. /\ history' \in Seq(Seq(Nat)) /\ Len(history') = Len(history) + 1
            /\ \A i \in 1..Len(history) : history'[i] = history[i]
            /\ history'[Len(history) + 1] = << >> BY <1>a, <3>1, <3>3, Appended
      <3>9. ASSUME NEW s \in 1..Len(history') PROVE Len(history'[s]) <= MaxHistory
        <4>1. CASE s = Len(history) + 1 BY <3>3, <3>4, <4>1, AdvisorNumbers
        <4>2. CASE s # Len(history) + 1
          <5>1. s \in 1..Len(history) BY <1>a, <3>4, <4>2
          <5>2. history'[s] = history[s] /\ Len(history[s]) <= MaxHistory BY <1>a, <3>4, <5>1
          <5>3. QED BY <5>2
        <4>3. QED BY <4>1, <4>2
      <3>5. AgentMemory' BY <1>a, <3>2, <3>4, <3>9 DEF AgentMemory
      <3>6. AgentCall(new, Len(owner')) BY <1>a, <2>1, <3>1, <3>2 DEF AgentCall
      <3>7. AgentCalls' BY <1>a, <1>e, <2>1, <3>2, <3>6 DEF AgentCalls
      <3>8. QED BY <1>5, <1>a, <3>2, <3>5, <3>7 DEF Looked1, Moved1, AdvisorTyped, AgentRows, AgentTalk, AgentRest
    <2>3. CASE c.session # 0
      <3>1. UNCHANGED <<owner, history>> /\ new.session = c.session BY <1>5, <2>3 DEF Looked1
      <3>2. AgentCall(new, Len(owner)) BY <1>5, <1>a, <2>1, <2>3, <3>1 DEF Looked1, AgentCall
      <3>3. AgentCalls' BY <1>a, <1>e, <2>1, <3>1, <3>2 DEF AgentCalls
      <3>4. QED
        BY <1>5, <1>a, <3>1, <3>3 DEF Looked1, Moved1, AdvisorTyped, AgentRows, AgentMemory, AgentTalk, AgentRest
    <2>4. QED BY <2>2, <2>3
  <1>6. ASSUME NEW c, NEW new, Told1(c, new) PROVE AdvisorTyped'
    <2>1. /\ c \in run /\ AgentCall(c, Len(owner)) /\ c.n \in Nat /\ c.op = "chat"
          /\ c.session \in 1..Len(history) /\ Moved1(c, new) BY <1>6, <1>a, <1>c DEF Told1, Moved1, AgentCall
    <2>2. AgentCall(new, Len(owner)) BY <1>6, <1>a, <2>1 DEF Told1, Moved1, AgentCall
    <2>3. AgentCalls' BY <1>6, <1>a, <1>e, <2>1, <2>2 DEF AgentCalls, Told1
    <2>4. PICK h : h = Aide!Remember(history[c.session], c.n) OBVIOUS
    <2>5. h \in Seq(Nat) /\ Len(h) <= MaxHistory BY <1>a, <1>b, <2>1, <2>4, Remembers
    <2>6. history' = [history EXCEPT ![c.session] = h] BY <1>6, <2>4 DEF Told1
    <2>7. AgentMemory' BY <1>6, <1>a, <2>1, <2>5, <2>6, Replaced DEF AgentMemory, Told1
    <2>8. QED BY <1>6, <1>a, <2>3, <2>7 DEF Told1, Moved1, AdvisorTyped, AgentRows, AgentTalk, AgentRest
  <1>7. ASSUME NEW c, NEW new, NoAnswer(c, new) PROVE AdvisorTyped'
    <2>1. AgentCall(new, Len(owner)) /\ Moved1(c, new) BY <1>7, <1>a DEF NoAnswer, Moved1, AgentCall
    <2>2. AgentCalls' BY <1>7, <1>a, <1>e, <2>1 DEF AgentCalls, NoAnswer
    <2>3. faults' \in 0..MaxFaults BY <1>7, <1>d, AdvisorNumbers DEF NoAnswer
    <2>4. QED
      BY <1>7, <1>a, <2>2, <2>3 DEF NoAnswer, Moved1, AdvisorTyped, AgentRows, AgentMemory, AgentTalk, AgentRest
  <1>8. ASSUME NEW c, NEW new, Tired(c, new) PROVE AdvisorTyped'
    <2>1. AgentCall(new, Len(owner)) /\ Moved1(c, new) BY <1>8, <1>a DEF Tired, Moved1, AgentCall
    <2>2. AgentCalls' BY <1>8, <1>a, <1>e, <2>1 DEF AgentCalls, Tired
    <2>3. faults' \in 0..MaxFaults BY <1>8, <1>d, AdvisorNumbers DEF Tired
    <2>4. QED BY <1>8, <1>a, <2>2, <2>3 DEF Tired, Moved1, AdvisorTyped, AgentRows, AgentMemory, AgentTalk, AgentRest
  <1>9. CASE Restarted
    <2>1. AgentCalls' BY <1>9 DEF Restarted, AgentCalls, AgentCall
    <2>2. faults' \in 0..MaxFaults BY <1>9, <1>d, AdvisorNumbers DEF Restarted
    <2>3. DOMAIN history = 1..Len(history) /\ Len(history) \in Nat BY <1>a, ElementsOf
    <2>4. << >> \in Seq(Nat) /\ Len(<< >>) = 0 OBVIOUS
    <2>5. PICK h : h = << >> /\ h \in Seq(Nat) /\ Len(h) = 0 BY <2>4
    <2>6. history' = [s \in 1..Len(history) |-> h] BY <1>9, <2>3, <2>5 DEF Restarted
    <2>7. /\ history' \in Seq(Seq(Nat)) /\ Len(history') = Len(history)
          /\ \A s \in 1..Len(history) : history'[s] = h BY <2>3, <2>5, <2>6
    <2>8. AgentMemory' BY <1>9, <1>a, <2>5, <2>7, AdvisorNumbers DEF Restarted, AgentMemory
    <2>9. QED BY <1>9, <1>a, <2>1, <2>2, <2>8 DEF Restarted, AdvisorTyped, AgentRows, AgentTalk, AgentRest
  <1>10. ASSUME NEW c, Closed(c) PROVE AdvisorTyped'
    <2>1. AgentRows'
      <3>1. AgentRows /\ c.agent \in Agents BY <1>10, <1>a, <1>c DEF Closed
      <3>2. CASE UNCHANGED <<agent, preset, wish>> BY <3>1, <3>2 DEF AgentRows
      <3>3. CASE /\ UNCHANGED wish /\ preset' \subseteq preset
                 /\ agent' = [a \in Agents |->
                      IF agent[a].preset = c.preset THEN [agent[a] EXCEPT !.preset = None] ELSE agent[a]]
        <4>1. \A a \in Agents : agent[a] \in AgentRow /\ [agent[a] EXCEPT !.preset = None] \in AgentRow
          BY <3>1 DEF AgentRows, AgentRow
        <4>2. QED BY <3>1, <3>3, <4>1 DEF AgentRows
      <3>4. ASSUME UNCHANGED preset, NEW r \in AgentRow, agent' = [agent EXCEPT ![c.agent] = r],
                   wish' = [wish EXCEPT ![c.agent] = r.preset]
            PROVE  AgentRows'
        <4>1. r.preset \in Presets \cup {None} BY DEF AgentRow
        <4>2. QED BY <3>1, <3>4, <4>1 DEF AgentRows
      <3>5. QED BY <1>10, <3>2, <3>3, <3>4 DEF Closed
    <2>2. QED BY <1>10, <1>a, <2>1 DEF Closed, AdvisorTyped, AgentMemory, AgentTalk, AgentCalls, AgentRest
  <1>11. QED BY <1>1, <1>2, <1>3, <1>4, <1>5, <1>6, <1>7, <1>8, <1>9, <1>10, AdvisorMoves

LEMMA AddedToSet ==
  ASSUME NEW s \in Seq(Nat), NEW n \in Nat PROVE Aide!Range(Append(s, n)) = Aide!Range(s) \cup {n}
  <1>1. DOMAIN s = 1..Len(s) /\ DOMAIN Append(s, n) = 1..(Len(s) + 1) /\ Len(s) \in Nat BY Appended, ElementsOf
  <1>2. /\ \A i \in 1..Len(s) : Append(s, n)[i] = s[i]
        /\ Append(s, n)[Len(s) + 1] = n BY Appended
  <1>3. QED BY <1>1, <1>2 DEF Aide!Range

LEMMA RecallsStill ==
  ASSUME NEW h \in Seq(Nat), Len(h) <= MaxHistory, NEW heard \in Seq(Nat), NEW n \in Nat,
         Recalls(h, heard)
  PROVE  /\ Recalls(Aide!Remember(h, n), heard)
         /\ Recalls(Aide!Remember(h, n), Append(heard, n))
  <1> DEFINE g == Aide!Remember(h, n)
  <1>1. CASE Len(g) < MaxHistory
    <2>1. Len(h) < MaxHistory /\ g = Append(h, n) BY <1>1, Remembers
    <2>2. Aide!Range(heard) \subseteq Aide!Range(h) BY <2>1 DEF Recalls
    <2>3. /\ Aide!Range(g) = Aide!Range(h) \cup {n}
          /\ Aide!Range(Append(heard, n)) = Aide!Range(heard) \cup {n} BY <2>1, AddedToSet
    <2>4. QED BY <2>2, <2>3 DEF Recalls
  <1>2. CASE ~ (Len(g) < MaxHistory) BY <1>2 DEF Recalls
  <1>3. QED BY <1>1, <1>2

LEMMA SuffixGoes ==
  ASSUME NEW s \in Seq(Nat), NEW n \in Nat PROVE Aide!Suffix(Append(s, n), MaxHistory)
      = Aide!Remember(Aide!Suffix(s, MaxHistory), n)
  <1> DEFINE k == MaxHistory
             m == Len(s)
             t == Append(s, n)
  <1>1. /\ k \in Nat \ {0} /\ m \in Nat /\ t \in Seq(Nat) /\ Len(t) = m + 1
        /\ t[m + 1] = n /\ \A i \in 1..m : t[i] = s[i] BY AdvisorNumbers, ElementsOf, Appended
  <1>2. CASE m < k
    <2>1. Aide!Suffix(t, k) = t /\ Aide!Suffix(s, k) = s BY <1>1, <1>2 DEF Aide!Suffix
    <2>2. QED BY <1>1, <1>2, <2>1 DEF Aide!Remember
  <1>3. CASE m >= k
    <2> DEFINE u == Aide!Suffix(s, k)
               v == Aide!Suffix(t, k)
    <2>1. v = SubSeq(t, m + 1 - k + 1, m + 1)
      <3> HIDE DEF t, m, k
      <3>1. ~ (Len(t) <= k) BY <1>1, <1>3
      <3>2. QED BY <1>1, <3>1 DEF Aide!Suffix
    <2>2. v \in Seq(Nat) /\ Len(v) = k /\ \A i \in 1..k : v[i] = t[m + 1 - k + i]
      <3> HIDE DEF t, m, k, v
      <3>1. m + 1 - k + 1 \in 1..(m + 2) /\ m + 1 - k + 1 >= 1 /\ m + 1 <= Len(t) BY <1>1, <1>3
      <3>2. QED BY <1>1, <1>3, <2>1, <3>1
    <2>3. u \in Seq(Nat) /\ Len(u) = k /\ \A i \in 1..k : u[i] = s[m - k + i]
      <3>1. CASE m = k BY <1>1, <3>1 DEF Aide!Suffix
      <3>2. CASE m > k
        <4>1. u = SubSeq(s, m - k + 1, m) BY <1>1, <3>2 DEF Aide!Suffix
        <4>2. QED BY <1>1, <3>2, <4>1
      <3>3. QED BY <1>1, <1>3, <3>1, <3>2
    <2> DEFINE w == Append(Tail(u), n)
    <2>4. Aide!Remember(u, n) = w BY <2>3 DEF Aide!Remember
    <2>5. /\ Tail(u) \in Seq(Nat) /\ Len(Tail(u)) = k - 1
          /\ \A i \in 1..(k - 1) : Tail(u)[i] = u[i + 1]
      <3> HIDE DEF u
      <3>1. QED BY <1>1, <2>3
    <2>6. /\ w \in Seq(Nat) /\ Len(w) = k /\ w[k] = n
          /\ \A i \in 1..(k - 1) : w[i] = u[i + 1]
      <3> HIDE DEF u
      <3>1. QED BY <1>1, <2>5, Appended
    <2>7. ASSUME NEW i \in 1..k PROVE v[i] = w[i]
      <3> HIDE DEF u, v, w, t, m, k
      <3>1. CASE i = k BY <1>1, <2>2, <2>6, <3>1
      <3>2. CASE i # k
        <4>1. i \in 1..(k - 1) /\ i + 1 \in 1..k /\ m + 1 - k + i \in 1..m
              /\ m + 1 - k + i = m - k + (i + 1) BY <1>1, <1>3, <3>2
        <4>2. v[i] = t[m + 1 - k + i] /\ w[i] = u[i + 1] BY <2>2, <2>6, <4>1
        <4>3. u[i + 1] = s[m - k + (i + 1)] BY <2>3, <4>1
        <4>4. t[m + 1 - k + i] = s[m + 1 - k + i] BY <1>1, <4>1
        <4>5. QED BY <4>1, <4>2, <4>3, <4>4
      <3>3. QED BY <3>1, <3>2
    <2>8. v = w
      <3> HIDE DEF u, v, w
      <3>1. QED BY <2>2, <2>6, <2>7, SeqEqual
    <2>9. QED BY <2>4, <2>8
  <1>4. QED BY <1>1, <1>2, <1>3

LEMMA FitsMore ==
  ASSUME NEW h \in Seq(Nat), Len(h) <= MaxHistory, NEW heard \in Seq(Nat), NEW n \in Nat, NEW wrong,
         Fits(h, heard, wrong)
  PROVE  Fits(Aide!Remember(h, n), Append(heard, n), wrong) BY RecallsStill, SuffixGoes DEF Fits

LEMMA FitsNothing ==
  ASSUME NEW wrong PROVE Fits(<< >>, << >>, wrong)
  <1>1. Len(<< >>) = 0 OBVIOUS
  <1>2. Aide!Suffix(<< >>, MaxHistory) = << >> BY <1>1, AdvisorNumbers DEF Aide!Suffix
  <1>3. QED BY <1>2 DEF Fits, Recalls

LEMMA AgentsStillKept ==
  ASSUME AdvisorTyped, AgentsKept, Aide!Next PROVE AgentsKept'
  <1> USE DEF AgentsKept
  <1>a. \A c \in run : c.op = "drop" => c.preset \in Presets BY DEF AdvisorTyped, AgentCalls, AgentCall
  <1>1. ASSUME raced' = raced, UNCHANGED agent, UNCHANGED wish,
               \A c \in run' : c \in run \/ c.op = "chat"
        PROVE  AgentsKept' BY <1>1 DEF OfficeApart, DroppedUnused, Aide!KeepsPresetUnlessRaced, Aide!There
  <1>2. ASSUME NEW new, EnteredChat(new) PROVE AgentsKept' BY <1>1, <1>2 DEF EnteredChat, Entered
  <1>3. ASSUME NEW new, EnteredOffice(new) PROVE AgentsKept'
    <2>1. /\ run' = run \cup {new} /\ new.op # "chat" /\ UNCHANGED <<agent, wish>>
          /\ raced' = raced \cup UNION {Aide!Touches(new) \cup Aide!Touches(d) : d \in Met(new)}
          /\ new.op = "drop" => \A a \in Aide!There : agent[a].preset # new.preset BY <1>3 DEF EnteredOffice, Entered
    <2>2. raced \subseteq raced' BY <2>1
    <2>3. ASSUME NEW c \in run, NEW d \in run', c # d, c.op # "chat", d.op # "chat",
                 Aide!Touches(c) \cap Aide!Touches(d) # {}
          PROVE  Aide!Touches(c) \cup Aide!Touches(d) \subseteq raced'
      <3>1. CASE d \in run BY <2>2, <2>3, <3>1 DEF OfficeApart
      <3>2. CASE d = new
        <4>1. c \in Met(new) BY <2>3, <3>2 DEF Met
        <4>2. QED BY <2>1, <3>2, <4>1
      <3>3. QED BY <2>1, <3>1, <3>2
    <2>4. OfficeApart'
      <3>1. ASSUME NEW c \in run', NEW d \in run', c # d, c.op # "chat", d.op # "chat",
                   Aide!Touches(c) \cap Aide!Touches(d) # {}
            PROVE  Aide!Touches(c) \cup Aide!Touches(d) \subseteq raced'
        <4>1. c \in run \/ d \in run BY <2>1, <3>1
        <4>2. QED BY <2>3, <3>1, <4>1
      <3>2. QED BY <3>1 DEF OfficeApart, Aide!Touches
    <2>5. DroppedUnused' /\ Aide!KeepsPresetUnlessRaced'
      BY <2>1, <2>2 DEF DroppedUnused, Aide!KeepsPresetUnlessRaced, Aide!There
    <2>6. QED BY <2>4, <2>5
  <1>4. CASE Turned BY <1>1, <1>4 DEF Turned
  <1>5. ASSUME NEW c, Heard(c) PROVE AgentsKept' BY <1>1, <1>5 DEF Heard
  <1>6. ASSUME NEW c, NEW new, Moved1(c, new) PROVE AgentsKept' BY <1>1, <1>6 DEF Moved1
  <1>7. CASE Restarted BY <1>1, <1>7 DEF Restarted
  <1>8. ASSUME NEW c, Closed(c) PROVE AgentsKept'
    <2>1. c \in run /\ c.op # "chat" /\ run' = run \ {c} /\ raced' = raced BY <1>8 DEF Closed
    <2>2. OfficeApart' BY <2>1 DEF OfficeApart, Aide!Touches
    <2>3. CASE UNCHANGED <<agent, preset, wish>> BY <1>1, <2>1, <2>3
    <2>4. CASE /\ c.op = "drop" /\ UNCHANGED wish
               /\ agent' = [a \in Agents |->
                    IF agent[a].preset = c.preset THEN [agent[a] EXCEPT !.preset = None] ELSE agent[a]]
      <3>1. ASSUME NEW a \in Agents
            PROVE  /\ agent'[a].there <=> agent[a].there
                   /\ agent[a].preset # c.preset => agent'[a] = agent[a]
                   /\ agent[a].preset = c.preset => agent'[a].preset = None
        <4>1. agent[a] \in AgentRow BY DEF AdvisorTyped, AgentRows
        <4>2. CASE agent[a].preset # c.preset BY <2>4, <4>2
        <4>3. CASE agent[a].preset = c.preset
          <5>1. agent'[a] = [agent[a] EXCEPT !.preset = None] BY <2>4, <4>3
          <5>2. agent'[a].there = agent[a].there /\ agent'[a].preset = None BY <4>1, <5>1 DEF AgentRow
          <5>3. QED BY <4>3, <5>2
        <4>4. QED BY <4>2, <4>3
      <3>2. Aide!There' = Aide!There BY <3>1 DEF Aide!There
      <3>3. DroppedUnused'
        <4>1. ASSUME NEW d \in run', d.op = "drop", d.preset \notin raced', NEW a \in Aide!There'
              PROVE  agent'[a].preset # d.preset
          <5>1. d \in run /\ d.preset \notin raced /\ a \in Aide!There /\ a \in Agents
            BY <2>1, <3>2, <4>1 DEF Aide!There
          <5>2. agent[a].preset # d.preset /\ d.preset \in Presets BY <1>a, <4>1, <5>1 DEF DroppedUnused
          <5>3. QED BY <3>1, <5>1, <5>2, AdvisorNumbers
        <4>2. QED BY <4>1 DEF DroppedUnused
      <3>4. Aide!KeepsPresetUnlessRaced'
        <4>1. ASSUME NEW a \in Aide!There', a \notin raced', wish'[a] \notin raced' PROVE agent'[a].preset = wish'[a]
          <5>1. a \in Aide!There /\ a \in Agents /\ a \notin raced /\ wish[a] \notin raced
            BY <2>1, <2>4, <3>2, <4>1 DEF Aide!There
          <5>2. agent[a].preset = wish[a] BY <5>1 DEF Aide!KeepsPresetUnlessRaced
          <5>3. agent[a].preset # c.preset BY <2>1, <2>4, <5>1, <5>2 DEF DroppedUnused
          <5>4. QED BY <2>4, <3>1, <5>1, <5>2, <5>3
        <4>2. QED BY <4>1 DEF Aide!KeepsPresetUnlessRaced
      <3>5. QED BY <2>2, <3>3, <3>4
    <2>5. CASE /\ c.op # "drop"
               /\ \E r \in AgentRow :
                    /\ agent' = [agent EXCEPT ![c.agent] = r]
                    /\ wish' = [wish EXCEPT ![c.agent] = r.preset]
                    /\ r.there => r.preset = c.preset \/ (c.op = "toggle" /\ r.preset = agent[c.agent].preset
                                                           /\ c.agent \in Aide!There)
      <3>1. PICK r \in AgentRow :
                    /\ agent' = [agent EXCEPT ![c.agent] = r]
                    /\ wish' = [wish EXCEPT ![c.agent] = r.preset]
                    /\ r.there => r.preset = c.preset \/ (c.op = "toggle" /\ r.preset = agent[c.agent].preset
                                                           /\ c.agent \in Aide!There) BY <2>5
      <3>2. c.agent \in Agents BY <2>1, CallCarries DEF AdvisorTyped, AgentCalls, AgentCall
      <3>3. /\ agent'[c.agent] = r /\ wish'[c.agent] = r.preset
            /\ \A a \in Agents : a # c.agent => agent'[a] = agent[a] /\ wish'[a] = wish[a]
        BY <3>1, <3>2 DEF AdvisorTyped, AgentRows
      <3>4. Aide!KeepsPresetUnlessRaced' BY <2>1, <3>3 DEF Aide!KeepsPresetUnlessRaced, Aide!There
      <3>5. ASSUME NEW d \in run', d.op = "drop", d.preset \notin raced', NEW a \in Aide!There'
            PROVE  agent'[a].preset # d.preset
        <4>1. d \in run /\ d # c /\ d.preset \notin raced /\ a \in Agents /\ d.preset \in Presets
          BY <1>a, <2>1, <3>5 DEF Aide!There
        <4>2. CASE a # c.agent BY <3>3, <3>5, <4>1, <4>2 DEF Aide!There, DroppedUnused
        <4>3. CASE a = c.agent /\ r.preset = c.preset
          <5>1. c.preset # d.preset
            <6>1. SUFFICES ASSUME c.preset = d.preset PROVE FALSE OBVIOUS
            <6>2. d.preset \in Aide!Touches(c) /\ d.preset \in Aide!Touches(d)
              BY <2>5, <3>5, <4>1, <6>1, AdvisorNumbers DEF Aide!Touches
            <6>3. QED BY <2>1, <3>5, <4>1, <6>2 DEF OfficeApart
          <5>2. QED BY <3>3, <4>3, <5>1
        <4>4. CASE a = c.agent /\ r.preset = agent[c.agent].preset /\ c.agent \in Aide!There
          BY <3>3, <3>5, <4>1, <4>4 DEF DroppedUnused
        <4>5. QED BY <3>1, <3>3, <3>5, <4>1, <4>2, <4>3, <4>4 DEF Aide!There
      <3>6. DroppedUnused' BY <3>5 DEF DroppedUnused
      <3>7. QED BY <2>2, <3>4, <3>6
    <2>6. QED BY <1>8, <2>3, <2>4, <2>5 DEF Closed
  <1>9. QED BY <1>2, <1>3, <1>4, <1>5, <1>6, <1>7, <1>8, AdvisorMoves DEF Looked1, Told1, NoAnswer, Tired

LEMMA TalkStillKept ==
  ASSUME AdvisorTyped, TalkKept, Aide!Next PROVE TalkKept'
  <1> DEFINE Kept == OneAsked /\ PageHas /\ \A c \in Aide!Waiting : Carried(c)
  <1>a. /\ owner \in Seq(Agents) /\ history \in Seq(Seq(Nat)) /\ Len(owner) = Len(history)
        /\ Len(owner) \in Nat /\ \A s \in 1..Len(history) : Len(history[s]) <= MaxHistory
        /\ talk.session \in 0..Len(owner) /\ talk.answered \in Seq(Nat)
        /\ \A c \in run : AgentCall(c, Len(owner))
        /\ faults \in Nat /\ strayed \in BOOLEAN
    BY ElementsOf, TalkHas DEF AdvisorTyped, AgentMemory, AgentTalk, AgentCalls, AgentRest
  <1>b. \A s \in 1..Len(history) : history[s] \in Seq(Nat) BY <1>a, ElementsOf
  <1>c. \A c \in run : c.n \in Nat /\ c.session \in Nat /\ c.agent \in Agents /\ c.waits \in BOOLEAN
    BY <1>a, CallCarries DEF AgentCall
  <1>w. Aide!Waiting = {c \in run : c.op = "chat" /\ c.waits}
        /\ Aide!Waiting' = {c \in run' : c.op = "chat" /\ c.waits} BY DEF Aide!Waiting
  <1>1. SUFFICES ASSUME ~ strayed' PROVE Kept' BY DEF TalkKept
  <1>2. ASSUME strayed' = strayed, UNCHANGED <<owner, history, talk, faults>>,
               Aide!Waiting' = Aide!Waiting,
               \A c \in run' : c \in run \/ c.op # "chat"
        PROVE  Kept' BY <1>1, <1>2 DEF TalkKept, OneAsked, PageHas, Carried, Fits, Recalls
  <1>3. ASSUME NEW new, EnteredOffice(new) PROVE Kept' BY <1>2, <1>3, <1>w DEF EnteredOffice, Entered
  <1>4. ASSUME NEW c, Closed(c) PROVE Kept' BY <1>2, <1>4, <1>w DEF Closed
  <1>5. ASSUME NEW new, EnteredChat(new) PROVE Kept'
    <2>1. /\ ~ strayed /\ ~ talk.busy /\ talk'.busy /\ run' = run \cup {new}
          /\ UNCHANGED <<owner, history, faults>> /\ talk'.session = talk.session
          /\ talk'.agent = talk.agent /\ talk'.answered = talk.answered
          /\ new.op = "chat" /\ new.waits /\ new.at = "sent" /\ new.agent = talk.agent
          /\ new.session = talk.session BY <1>1, <1>5 DEF EnteredChat, Entered
    <2>2. Aide!Waiting = {} /\ Aide!Waiting' = {new} BY <1>w, <2>1 DEF TalkKept, OneAsked
    <2>3. OneAsked' BY <2>1, <2>2 DEF TalkKept, OneAsked
    <2>4. PageHas' BY <2>1, <2>2 DEF TalkKept, PageHas
    <2>5. Carried(new)' BY <2>1 DEF Carried
    <2>6. QED BY <2>2, <2>3, <2>4, <2>5
  <1>6. CASE Turned
    <2>1. /\ ~ strayed /\ Aide!Waiting = {} /\ Aide!Waiting' = {} /\ run' = run /\ faults' = faults
          /\ talk'.session = 0 /\ talk'.answered = << >> BY <1>1, <1>6, <1>w DEF Turned
    <2>2. QED BY <2>1 DEF TalkKept, OneAsked, PageHas
  <1>7. ASSUME NEW c, Heard(c) PROVE Kept'
    <2>1. /\ ~ strayed /\ c \in run /\ c.op = "chat" /\ run' = run \ {c}
          /\ UNCHANGED <<owner, history, faults, strayed>> BY <1>1, <1>7 DEF Heard
    <2>2. CASE c.waits
      <3>1. c \in Aide!Waiting /\ Aide!Waiting = {c} /\ Aide!Waiting' = {} /\ Carried(c)
        BY <1>w, <2>1, <2>2 DEF TalkKept, OneAsked
      <3>2. OneAsked' BY <2>1, <3>1 DEF TalkKept, OneAsked
      <3>3. CASE /\ c.at = "answered" /\ talk'.session = c.session /\ talk'.agent = talk.agent
                 /\ talk'.answered = Append(talk.answered, c.n)
        <4>1. c.session # 0 BY <1>a, <2>1, <3>3 DEF AgentCall
        <4>2. PageHas' BY <2>1, <3>1, <3>3, <4>1 DEF Carried, PageHas, Fits
        <4>3. QED BY <3>1, <3>2, <4>2
      <3>4. CASE c.at = "refused" /\ talk'.session = talk.session /\ talk'.agent = talk.agent
                 /\ talk'.answered = talk.answered BY <2>1, <3>1, <3>2, <3>4 DEF TalkKept, PageHas
      <3>5. QED BY <1>7, <2>2, <3>3, <3>4 DEF Heard
    <2>3. CASE ~ c.waits
      <3>1. talk' = talk /\ Aide!Waiting' = Aide!Waiting BY <1>7, <1>w, <2>1, <2>3 DEF Heard
      <3>2. QED BY <1>2, <2>1, <3>1
    <2>4. QED BY <2>2, <2>3
  <1>d. ASSUME NEW c, NEW new, Moved1(c, new), new.waits <=> c.waits, faults' = 0 => faults = 0
        PROVE  /\ ~ strayed /\ OneAsked /\ PageHas /\ c \in run /\ strayed' = strayed
               /\ c.waits => /\ Aide!Waiting = {c} /\ Aide!Waiting' = {new} /\ Carried(c)
               /\ ~ c.waits => /\ Aide!Waiting' = Aide!Waiting /\ faults # 0
               /\ talk' = talk => OneAsked'
    <2>1. /\ c \in run /\ c.op = "chat" /\ run' = (run \ {c}) \cup {new} /\ new.op = "chat"
          /\ strayed' = strayed BY <1>d DEF Moved1
    <2>2. ~ strayed /\ OneAsked /\ PageHas /\ \A d \in Aide!Waiting : Carried(d) BY <1>1, <2>1 DEF TalkKept
    <2>3. CASE c.waits
      <3>1. Aide!Waiting = {c} /\ Aide!Waiting' = {new} /\ Carried(c) BY <1>d, <1>w, <2>1, <2>2, <2>3 DEF OneAsked
      <3>2. talk' = talk => OneAsked' BY <1>d, <2>1, <2>2, <3>1 DEF OneAsked
      <3>3. QED BY <2>1, <2>2, <2>3, <3>1, <3>2
    <2>4. CASE ~ c.waits
      <3>1. Aide!Waiting' = Aide!Waiting /\ faults # 0 BY <1>d, <1>w, <2>1, <2>2, <2>4 DEF OneAsked
      <3>2. talk' = talk => OneAsked' BY <1>d, <2>1, <2>2, <3>1 DEF OneAsked
      <3>3. QED BY <2>1, <2>2, <2>4, <3>1, <3>2
    <2>5. QED BY <2>3, <2>4
  <1>e. \A h, heard, m : m # 0 => (Fits(h, heard, m) <=> Recalls(h, heard)) BY DEF Fits
  <1>8. ASSUME NEW c, NEW new, Looked1(c, new) PROVE Kept'
    <2>1. /\ Moved1(c, new) /\ talk' = talk /\ faults' = faults /\ c.at = "sent" /\ new.at = "asked"
          /\ (new.waits <=> c.waits) /\ c \in run /\ c.op = "chat" /\ new.agent = c.agent BY <1>8 DEF Looked1, Moved1
    <2>2. /\ ~ strayed /\ OneAsked /\ PageHas /\ OneAsked'
          /\ c.waits => /\ Aide!Waiting = {c} /\ Aide!Waiting' = {new} /\ Carried(c)
          /\ ~ c.waits => Aide!Waiting' = Aide!Waiting BY <1>d, <2>1
    <2>3. c.agent \in Agents /\ c.session \in 0..Len(owner) /\ c.given = << >> BY <1>a, <1>c, <2>1 DEF AgentCall
    <2>4. c.session = 0 =>
            /\ new.session = Len(owner) + 1 /\ new.given = << >>
            /\ owner'[new.session] = c.agent /\ history'[new.session] = << >>
            /\ \A s \in 1..Len(owner) : owner'[s] = owner[s] /\ history'[s] = history[s]
      <3>1. SUFFICES ASSUME c.session = 0
                     PROVE  /\ new.session = Len(owner) + 1 /\ new.given = << >>
                            /\ owner'[new.session] = c.agent /\ history'[new.session] = << >>
                            /\ \A s \in 1..Len(owner) : owner'[s] = owner[s] /\ history'[s] = history[s] OBVIOUS
      <3>2. /\ owner' = Append(owner, c.agent) /\ history' = Append(history, << >>)
            /\ new.session = Len(owner) + 1 /\ new.given = c.given BY <1>8, <3>1 DEF Looked1
      <3>3. << >> \in Seq(Nat) OBVIOUS
      <3>4. /\ owner'[Len(owner) + 1] = c.agent
            /\ \A s \in 1..Len(owner) : owner'[s] = owner[s] BY <1>a, <2>3, <3>2, Appended
      <3>5. /\ history'[Len(history) + 1] = << >>
            /\ \A s \in 1..Len(history) : history'[s] = history[s] BY <1>a, <3>2, <3>3, Appended
      <3>6. QED BY <1>a, <2>3, <3>2, <3>4, <3>5
    <2>5. c.session # 0 => /\ UNCHANGED <<owner, history>> /\ new.session = c.session
                           /\ new.given = history[c.session] BY <1>8 DEF Looked1
    <2>6. CASE c.waits
      <3>1. Carried(c) /\ c.session = talk.session /\ c.agent = talk.agent BY <2>1, <2>2, <2>6 DEF Carried
      <3>2. CASE c.session = 0
        <4>1. talk.answered = << >> BY <2>2, <3>1, <3>2 DEF PageHas
        <4>2. Carried(new)' BY <2>1, <2>4, <3>1, <3>2, <4>1, FitsNothing DEF Carried
        <4>3. PageHas' BY <2>1, <3>1, <3>2, <4>1 DEF PageHas
        <4>4. QED BY <2>2, <2>6, <4>2, <4>3
      <3>3. CASE c.session # 0
        <4>1. /\ owner[talk.session] = talk.agent /\ Recalls(history[talk.session], talk.answered)
              /\ Fits(history[talk.session], talk.answered, faults) BY <2>1, <2>2, <2>6, <3>1, <3>3 DEF PageHas
        <4>2. Carried(new)' BY <2>1, <2>5, <3>1, <3>3, <4>1 DEF Carried
        <4>3. PageHas' BY <2>1, <2>5, <3>1, <3>3, <4>1 DEF PageHas
        <4>4. QED BY <2>2, <2>6, <4>2, <4>3
      <3>4. QED BY <3>2, <3>3
    <2>7. CASE ~ c.waits
      <3>1. \A s \in 1..Len(owner) : owner'[s] = owner[s] /\ history'[s] = history[s] BY <2>4, <2>5
      <3>2. PageHas' BY <1>a, <2>1, <2>2, <2>7, <3>1 DEF PageHas
      <3>3. ASSUME NEW d \in Aide!Waiting PROVE Carried(d)'
        <4>1. Carried(d) BY <1>1, <2>2 DEF TalkKept
        <4>2. d.at \in {"asked", "answered"} => d.session \in 1..Len(owner) BY <1>a, <1>w DEF AgentCall
        <4>3. QED BY <2>1, <3>1, <4>1, <4>2 DEF Carried
      <3>4. QED BY <2>2, <2>7, <3>2, <3>3
    <2>8. QED BY <2>6, <2>7
  <1>9. ASSUME NEW c, NEW new, Told1(c, new) PROVE Kept'
    <2>1. /\ Moved1(c, new) /\ talk' = talk /\ faults' = faults /\ c.at = "asked" /\ new.at = "answered"
          /\ (new.waits <=> c.waits) /\ c \in run /\ c.op = "chat" /\ new.agent = c.agent /\ new.n = c.n
          /\ owner' = owner /\ new.session = c.session
          /\ history' = [history EXCEPT ![c.session] = Aide!Remember(history[c.session], c.n)]
      BY <1>9 DEF Told1, Moved1
    <2>2. /\ ~ strayed /\ OneAsked /\ PageHas /\ OneAsked'
          /\ c.waits => /\ Aide!Waiting = {c} /\ Aide!Waiting' = {new} /\ Carried(c)
          /\ ~ c.waits => Aide!Waiting' = Aide!Waiting /\ faults # 0 BY <1>d, <2>1
    <2>3. c.session \in 1..Len(history) /\ c.n \in Nat BY <1>a, <1>c, <2>1 DEF AgentCall
    <2> DEFINE h == history[c.session]
               g == Aide!Remember(h, c.n)
    <2>4. h \in Seq(Nat) /\ Len(h) <= MaxHistory /\ g \in Seq(Nat) BY <1>a, <1>b, <2>3, Remembers
    <2>5. history'[c.session] = g /\ \A s \in 1..Len(history) : s # c.session => history'[s] = history[s]
      <3> HIDE DEF h, g
      <3>1. history' = [history EXCEPT ![c.session] = g] BY <2>1 DEF h, g
      <3>2. QED BY <1>a, <2>3, <2>4, <3>1, Replaced
    <2>6. ASSUME NEW s \in 1..Len(history), NEW heard \in Seq(Nat), Recalls(history[s], heard)
          PROVE  Recalls(history'[s], heard)
      <3>1. CASE s = c.session BY <2>3, <2>4, <2>5, <2>6, <3>1, RecallsStill
      <3>2. CASE s # c.session BY <2>5, <2>6, <3>2
      <3>3. QED BY <3>1, <3>2
    <2> HIDE DEF h, g
    <2>7. CASE c.waits
      <3>1. /\ c.agent = talk.agent /\ owner[c.session] = talk.agent /\ talk.session \in {0, c.session}
            /\ Fits(h, talk.answered, faults) BY <2>1, <2>2, <2>7 DEF Carried, h
      <3>2. Fits(g, Append(talk.answered, c.n), faults) BY <1>a, <2>3, <2>4, <3>1, FitsMore DEF g
      <3>3. Carried(new)' BY <2>1, <2>5, <3>1, <3>2 DEF Carried
      <3>4. talk.session # 0 => Recalls(history'[talk.session], talk.answered) BY <1>a, <2>3, <2>6, <3>1 DEF Fits, h
      <3>5. PageHas' BY <2>1, <2>2, <2>7, <3>1, <3>4 DEF PageHas
      <3>6. QED BY <2>2, <2>7, <3>3, <3>5
    <2>8. CASE ~ c.waits
      <3>1. PageHas'
        <4>1. CASE talk.session = 0 BY <2>1, <2>2, <4>1 DEF PageHas
        <4>2. CASE talk.session # 0
          <5>1. talk.session \in 1..Len(history) BY <1>a, <4>2
          <5>2. owner[talk.session] = talk.agent /\ Recalls(history[talk.session], talk.answered)
            BY <2>2, <4>2 DEF PageHas
          <5>3. Recalls(history'[talk.session], talk.answered) BY <1>a, <2>6, <5>1, <5>2
          <5>4. Fits(history'[talk.session], talk.answered, faults) BY <1>e, <2>2, <2>8, <5>3
          <5>5. QED BY <2>1, <4>2, <5>2, <5>3, <5>4 DEF PageHas
        <4>3. QED BY <4>1, <4>2
      <3>2. ASSUME NEW d \in Aide!Waiting PROVE Carried(d)'
        <4>1. Carried(d) /\ d \in run /\ d.op = "chat" BY <1>1, <1>w, <2>2 DEF TalkKept
        <4>2. d.at \in {"asked", "answered"} => d.session \in 1..Len(history) BY <1>a, <4>1 DEF AgentCall
        <4>3. Append(talk.answered, d.n) \in Seq(Nat) BY <1>a, <1>c, <4>1, Appended
        <4>4. QED BY <1>a, <1>e, <2>1, <2>2, <2>6, <2>8, <4>1, <4>2, <4>3 DEF Carried
      <3>3. QED BY <2>2, <2>8, <3>1, <3>2
    <2>9. QED BY <2>7, <2>8
  <1>10. ASSUME NEW c, NEW new, NoAnswer(c, new) PROVE Kept'
    <2>1. /\ Moved1(c, new) /\ talk' = talk /\ new.at = "refused" /\ UNCHANGED <<owner, history>>
          /\ (new.waits <=> c.waits) /\ c \in run /\ c.op = "chat" /\ new.agent = c.agent
          /\ \/ faults' = faults /\ c.at = "sent"
             \/ faults' # 0
          /\ faults' = 0 => faults = 0 BY <1>10, <1>a DEF NoAnswer, Moved1
    <2>2. /\ ~ strayed /\ PageHas /\ OneAsked'
          /\ c.waits => /\ Aide!Waiting = {c} /\ Aide!Waiting' = {new} /\ Carried(c)
          /\ ~ c.waits => Aide!Waiting' = Aide!Waiting /\ faults # 0 /\ faults' # 0 BY <1>d, <2>1
    <2>3. CASE c.waits
      <3>1. Carried(new)' BY <2>1, <2>2, <2>3 DEF Carried
      <3>2. PageHas' BY <1>e, <2>1, <2>2, <2>3 DEF PageHas
      <3>3. QED BY <2>2, <2>3, <3>1, <3>2
    <2>4. CASE ~ c.waits
      <3>1. PageHas' BY <1>e, <2>1, <2>2, <2>4 DEF PageHas
      <3>2. ASSUME NEW d \in Aide!Waiting PROVE Carried(d)'
        <4>1. Carried(d) BY <1>1, <2>2 DEF TalkKept
        <4>2. QED BY <1>e, <2>1, <2>2, <2>4, <4>1 DEF Carried
      <3>3. QED BY <2>2, <2>4, <3>1, <3>2
    <2>5. QED BY <2>3, <2>4
  <1>11. ASSUME NEW c, NEW new, Tired(c, new) PROVE Kept'
    <2>1. /\ c \in run /\ c.op = "chat" /\ c.waits /\ ~ new.waits /\ run' = (run \ {c}) \cup {new}
          /\ strayed' = strayed /\ UNCHANGED <<owner, history>> /\ faults' # 0
          /\ talk'.session = talk.session /\ talk'.agent = talk.agent /\ talk'.answered = talk.answered
      BY <1>11, <1>a DEF Tired, Moved1
    <2>2. OneAsked /\ PageHas /\ Aide!Waiting' = {} BY <1>1, <1>w, <2>1 DEF TalkKept, OneAsked
    <2>3. OneAsked' BY <2>1, <2>2 DEF OneAsked
    <2>4. PageHas' BY <1>e, <2>1, <2>2 DEF PageHas
    <2>5. QED BY <2>2, <2>3, <2>4
  <1>12. CASE Restarted BY <1>1, <1>12 DEF Restarted
  <1>13. QED BY <1>3, <1>4, <1>5, <1>6, <1>7, <1>8, <1>9, <1>10, <1>11, <1>12, AdvisorMoves

LEMMA AdvisorInvariant == Spec => [](area = "advisor" => AdvisorInv)
  <1>1. Init => (area = "advisor" => AdvisorInv)
    <2> SUFFICES ASSUME Init PROVE AdvisorInv OBVIOUS
    <2>1. Aide!Init BY DEF Init
    <2>2. << >> \in Seq(Agents) /\ << >> \in Seq(Seq(Nat)) /\ << >> \in Seq(Nat) /\ Len(<< >>) = 0 OBVIOUS
    <2>3. talk \in Aide!Talk /\ talk.session = 0 /\ talk.answered = << >>
      <3>1. PICK b \in BOOLEAN : b = FALSE OBVIOUS
      <3>2. talk \in [place: {"drawer", "dialog"}, agent: {Aide!Null}, session: {0}, busy: {b},
                      rounds: {0}, answered: {<< >>}] BY <2>1, <3>1 DEF Aide!Init
      <3>3. PICK e \in Seq(Nat) : e = << >> BY <2>2
      <3>4. /\ talk.place \in {"drawer", "dialog"} /\ talk.agent = Aide!Null /\ talk.session = 0
            /\ talk.busy = b /\ talk.rounds = 0 /\ talk.answered = e
            /\ talk = [place |-> talk.place, agent |-> talk.agent, session |-> talk.session,
                       busy |-> talk.busy, rounds |-> talk.rounds, answered |-> talk.answered] BY <3>2, <3>3
      <3>5. talk \in Aide!Talk
        <4>1. talk.agent \in Agents /\ talk.session \in Nat /\ talk.rounds \in Nat
              /\ talk.answered \in Seq(Nat) BY <3>3, <3>4, AdvisorNumbers
        <4>2. talk.busy \in BOOLEAN BY <3>1, <3>4
        <4>3. QED BY <3>4, <4>1, <4>2 DEF Aide!Talk
      <3>6. QED BY <3>3, <3>4, <3>5
    <2>4. AgentRows
      <3>1. \A a \in Agents : [there |-> a = Aide!Null, on |-> a = Aide!Null, preset |-> None] \in AgentRow
        <4>1. TAKE a \in Agents
        <4>2. PICK b \in BOOLEAN : b = (a = Aide!Null) OBVIOUS
        <4>3. [there |-> b, on |-> b, preset |-> None] \in AgentRow BY DEF AgentRow
        <4>4. QED BY <4>2, <4>3
      <3>2. QED BY <2>1, <3>1 DEF Aide!Init, AgentRows
    <2>5. AgentMemory /\ Len(owner) = 0
      <3>1. Len(owner) = 0 /\ Len(history) = 0 /\ owner \in Seq(Agents) /\ history \in Seq(Seq(Nat))
        BY <2>1, <2>2 DEF Aide!Init
      <3>2. 1..Len(history) = {} BY <3>1
      <3>3. QED
        <4>1. \A s \in 1..Len(history) : Len(history[s]) <= MaxHistory BY <3>2
        <4>2. QED BY <3>1, <4>1 DEF AgentMemory
    <2>6. AdvisorTyped
      <3>1. AgentTalk BY <2>3, <2>5 DEF AgentTalk
      <3>2. AgentCalls BY <2>1 DEF Aide!Init, AgentCalls
      <3>3. raced = {} /\ strayed = FALSE /\ calls = 0 /\ faults = 0 BY <2>1 DEF Aide!Init
      <3>4. strayed \in BOOLEAN BY <3>3
      <3>5. AgentRest BY <3>3, <3>4, AdvisorNumbers DEF AgentRest
      <3>6. QED BY <2>4, <2>5, <3>1, <3>2, <3>5 DEF AdvisorTyped
    <2>7. AgentsKept
      BY <2>1 DEF Aide!Init, AgentsKept, OfficeApart, DroppedUnused, Aide!KeepsPresetUnlessRaced, Aide!There
    <2>8. TalkKept BY <2>1, <2>3 DEF Aide!Init, TalkKept, OneAsked, PageHas, Aide!Waiting
    <2>9. QED BY <2>6, <2>7, <2>8 DEF AdvisorInv
  <1>2. (area = "advisor" => AdvisorInv) /\ [Next]_vars => (area = "advisor" => AdvisorInv)'
    <2> SUFFICES ASSUME area = "advisor", AdvisorInv, [Next]_vars PROVE AdvisorInv' BY DEF Next, vars
    <2>1. CASE Aide!Next BY <2>1, AdvisorTypes, AgentsStillKept, TalkStillKept DEF AdvisorInv
    <2>2. CASE UNCHANGED AdvisorVars
      <3>1. UNCHANGED <<agent, preset, wish, owner, history, talk, strayed, run, raced, calls, faults>>
        BY <2>2 DEF AdvisorVars, advisor
      <3>2. AdvisorTyped'
        BY <3>1 DEF AdvisorInv, AdvisorTyped, AgentRows, AgentMemory, AgentTalk, AgentCalls, AgentRest
      <3>3. AgentsKept'
        BY <3>1 DEF AdvisorInv, AgentsKept, OfficeApart, DroppedUnused, Aide!KeepsPresetUnlessRaced, Aide!There
      <3>4. TalkKept' BY <3>1 DEF AdvisorInv, TalkKept, OneAsked, PageHas, Carried, Aide!Waiting
      <3>5. QED BY <3>2, <3>3, <3>4 DEF AdvisorInv
    <2>3. QED BY <2>1, <2>2, AdvisorStep
  <1>3. QED BY <1>1, <1>2, PTL DEF Spec

LEMMA AdvisorKept ==
  AdvisorInv => Aide!ContextUnlessStrayed /\ Aide!KeepsPresetUnlessRaced
  <1> SUFFICES ASSUME AdvisorInv PROVE Aide!ContextUnlessStrayed /\ Aide!KeepsPresetUnlessRaced OBVIOUS
  <1>1. Aide!KeepsPresetUnlessRaced BY DEF AdvisorInv, AgentsKept
  <1>2. Aide!ContextUnlessStrayed BY DEF AdvisorInv, TalkKept, Carried, Fits, Recalls, Aide!ContextUnlessStrayed
  <1>3. QED BY <1>1, <1>2

\* What a model is given: the conversation that the user sees, for the agent that the user
\* chose, unless another was chosen before the answer or the server forgot; and an agent keeps
\* the model preset that was saved for it (ai.service.ts).
THEOREM AdviceKept == Spec => []AdviceHolds
  <1>1. (area = "advisor" => AdvisorInv) => AdviceHolds BY AdvisorKept DEF AdviceHolds
  <1>2. QED BY <1>1, AdvisorInvariant, PTL

------------
(* Drafting *)

LEMMA DraftingStep ==
  ASSUME area = "drafting", [Next]_vars PROVE area' = "drafting" /\ (Editor!Next \/ UNCHANGED DraftVars)
  BY DEF Next, vars, DraftVars, drafting

LEMMA DraftingNumbers ==
  /\ MaxEdits \in Nat /\ MaxPages \in Nat
  /\ Calls["drafting"] \in Nat /\ MaxFaults \in Nat /\ None \notin Drafts
  BY LimitsAssumption, NamesAssumption, BoundsAssumption DEF Areas

LEMMA SaveCarries ==
  ASSUME NEW c \in Editor!Save
  PROVE  /\ c.kind \in {"auto", "draft", "publish"} /\ c.op \in {"create", "update", "roles", "publish"}
         /\ c.done \in BOOLEAN /\ c.on \in Drafts \cup {None} /\ c.text \in Editor!Texts
         /\ c.roles \in Editor!RoleForms /\ c.asked \in FormType /\ c.page \in Nat
  BY DEF Editor!Save, Editor!Form, FormType

LEMMA BlankTyped ==
  Editor!Blank \in FormType /\ Editor!Blank.text \in Editor!Texts /\ Editor!Blank.roles \in Editor!RoleForms
  BY DraftingNumbers DEF Editor!Blank, Editor!Texts, Editor!RoleForms, FormType

LEMMA UpdatedTyped ==
  ASSUME NEW old \in Editor!Texts, NEW new \in Editor!Texts
  PROVE  Editor!Updated(old, new) \in Editor!Texts /\ Editor!Updated(old, new).title = new.title
  BY DEF Editor!Updated, Editor!Texts

LEMMA DraftingMoves ==
  ASSUME DraftTyped, Editor!Next
  PROVE  \/ DraftOpened \/ DraftLoaded \/ DraftEdited \/ TimerGone
         \/ \E r : PageLeft(r)
         \/ \E new : SaveBegan(new)
         \/ \E c, new, d : SaveCreated(c, new, d)
         \/ \E c, new : SaveWrote(c, new) \/ SaveWent(c, new)
         \/ \E c : SaveEnded(c)
  <1> USE DEF Editor!screen
  <1>a. /\ page \in 0..MaxPages /\ shown \in BOOLEAN /\ timer \in BOOLEAN /\ mixed \in BOOLEAN
        /\ form \in FormType /\ draft \in Drafts \cup {None} /\ loading \in Drafts \cup {None}
        /\ stored \in [Drafts -> DraftRow] /\ pressed \in [Drafts -> FormType]
        /\ calls \in 0..Calls["drafting"] /\ faults \in 0..MaxFaults
    BY DEF DraftTyped, Editor!TypeOK, Editor!Form, FormType, DraftRow
  <1>b. /\ form.text \in Editor!Texts /\ form.roles \in Editor!RoleForms
        /\ form = [text |-> form.text, roles |-> form.roles] BY <1>a DEF FormType
  <1>c. \A d \in Drafts : stored[d] \in DraftRow /\ stored[d].text \in Editor!Texts
                          /\ stored[d].roles \in Editor!RoleForms /\ stored[d].page \in 0..MaxPages
                          /\ stored[d].status \in {"none", "draft", "published"}
    <2>1. ASSUME NEW d \in Drafts PROVE stored[d] \in DraftRow BY <1>a
    <2>2. QED BY <2>1 DEF DraftRow
  <1>d. \A c \in run : SaveCall(c) /\ c \in Editor!Save BY DEF DraftTyped, SaveCall
  <1>e. \A t \in Editor!Texts, r \in Editor!RoleForms : [text |-> t, roles |-> r] \in FormType BY DEF FormType
  <1>f. Editor!Blank \in FormType BY BlankTyped
  <1>g. ASSUME NEW r, r \subseteq run, Editor!Gone(r), shown, UNCHANGED <<page, stored, pressed, mixed, calls>>,
               faults' \in {faults, faults + 1}, faults' \in 0..MaxFaults
        PROVE  PageLeft(r) BY <1>f, <1>g DEF Editor!Gone, PageLeft
  <1>1. CASE Editor!Open BY <1>1, <1>a DEF Editor!Open, DraftOpened
  <1>2. CASE Editor!Load
    <2>1. PICK k \in {0, stored[loading].text.kept}, n \in {0, stored[loading].roles.role} :
            form' = [text |-> [stored[loading].text EXCEPT !.kept = k],
                     roles |-> [stored[loading].roles EXCEPT !.role = n]] BY <1>2 DEF Editor!Load
    <2>a. loading \in Drafts BY <1>2, <1>a DEF Editor!Load
    <2>b. [stored[loading].text EXCEPT !.kept = k] \in Editor!Texts
          /\ [stored[loading].roles EXCEPT !.role = n] \in Editor!RoleForms
      BY <1>c, <2>a, DraftingNumbers DEF Editor!Texts, Editor!RoleForms
    <2>2. form' \in FormType BY <1>e, <2>1, <2>b
    <2>3. DraftLoaded BY <1>2, <2>a, <2>2 DEF Editor!Load, DraftLoaded
    <2>4. QED BY <2>3
  <1>3. CASE Editor!LoadFails BY <1>3, <1>a, <1>g, DraftingNumbers DEF Editor!LoadFails
  <1>4. CASE Editor!Leave BY <1>4, <1>a, <1>g DEF Editor!Leave
  <1>5. CASE Editor!Edit
    <2>6. form' \in FormType /\ timer' \in BOOLEAN BY <1>5, <1>a DEF Editor!Edit, Editor!Form, FormType
    <2>7. DraftEdited BY <1>5, <2>6 DEF Editor!Edit, DraftEdited
    <2>8. QED BY <2>7
  <1>h. ASSUME NEW k \in {"auto", "draft", "publish"}, Editor!Begin(k), shown,
               k = "publish" => Editor!Chosen(form.roles),
               timer' \in BOOLEAN, calls' \in 0..Calls["drafting"],
               UNCHANGED <<page, shown, form, draft, loading, stored, pressed, faults>>
        PROVE  \E new : SaveBegan(new)
    <2>1. PICK o \in {"create", "update"} : o = IF draft = None THEN "create" ELSE "update" OBVIOUS
    <2>2. PICK a \in FormType : a = IF k = "publish" THEN form ELSE Editor!Blank BY <1>a, <1>f
    <2>3. PICK new : new = [kind |-> k, op |-> o, done |-> FALSE, on |-> draft, text |-> form.text,
                            roles |-> form.roles, asked |-> a, page |-> page] OBVIOUS
    <2>4. new \in Editor!Save
      <3>1. a \in Editor!Form /\ page \in Nat BY <1>a, <2>2, DraftingNumbers DEF FormType, Editor!Form
      <3>2. QED BY <1>a, <1>b, <2>1, <2>3, <3>1 DEF Editor!Save
    <2>5. /\ new.kind = k /\ new.op = o /\ new.done = FALSE /\ new.on = draft /\ new.text = form.text
          /\ new.roles = form.roles /\ new.asked = a /\ new.page = page BY <2>3
    <2>6. run' = run \cup {new} /\ mixed' = (mixed \/ run # {} \/ loading # None)
      BY <1>h, <2>1, <2>2, <2>3 DEF Editor!Begin
    <2>7. SaveBegan(new) BY <1>h, <2>1, <2>2, <2>4, <2>5, <2>6 DEF SaveBegan
    <2>8. QED BY <2>7
  <1>6. CASE Editor!AutoSave
    <2>1. timer' = FALSE /\ timer' \in BOOLEAN BY <1>6 DEF Editor!AutoSave
    <2>2. CASE form.text.title > 0 BY <1>6, <1>a, <1>h, <2>1, <2>2 DEF Editor!AutoSave
    <2>3. CASE ~ (form.text.title > 0) BY <1>6, <2>1, <2>3 DEF Editor!AutoSave, TimerGone
    <2>4. QED BY <2>2, <2>3
  <1>7. ASSUME NEW k \in {"draft", "publish"}, Editor!Press(k) PROVE \E new : SaveBegan(new)
    <2>1. calls' \in 0..Calls["drafting"] /\ timer' = timer BY <1>7, <1>a, DraftingNumbers DEF Editor!Press
    <2>2. QED BY <1>7, <1>a, <1>h, <2>1 DEF Editor!Press
  <1>8. ASSUME NEW c \in run, Editor!Create(c) PROVE \E new, d : SaveCreated(c, new, d)
    <2>1. PICK d \in Editor!Free : d = CHOOSE e \in Editor!Free : TRUE BY <1>8 DEF Editor!Create
    <2>2. /\ ~ c.done /\ c.op = "create"
          /\ stored' = [stored EXCEPT ![d] =
                          [status |-> "draft", text |-> c.text, roles |-> c.roles, page |-> c.page]]
          /\ run' = (run \ {c}) \cup {[c EXCEPT !.done = TRUE, !.on = d, !.text = Editor!Blank.text, !.roles = Editor!Blank.roles]}
          /\ UNCHANGED <<page, shown, form, draft, loading, timer, pressed, mixed, calls, faults>>
      BY <1>8, <2>1 DEF Editor!Create
    <2>3. PICK new : new = [c EXCEPT !.done = TRUE, !.on = d, !.text = Editor!Blank.text, !.roles = Editor!Blank.roles]
      OBVIOUS
    <2>4. d \in Drafts /\ stored[d].status = "none" BY <2>1 DEF Editor!Free
    <2>5. /\ new \in Editor!Save /\ new.kind = c.kind /\ new.page = c.page /\ new.asked = c.asked
          /\ new.op = c.op /\ new.on = d /\ new.done = TRUE
      <3>1. PICK b \in BOOLEAN : b = TRUE OBVIOUS
      <3>2. new = [c EXCEPT !.done = b, !.on = d, !.text = Editor!Blank.text, !.roles = Editor!Blank.roles]
        BY <2>3, <3>1
      <3>3. QED
        <4>1. c \in Editor!Save /\ d \in Drafts BY <1>d, <2>4
        <4>2. PICK z \in Editor!Texts, y \in Editor!RoleForms : z = Editor!Blank.text /\ y = Editor!Blank.roles
          BY BlankTyped
        <4>3. new = [c EXCEPT !.done = b, !.on = d, !.text = z, !.roles = y] BY <3>2, <4>2
        <4>4. new \in Editor!Save BY <4>1, <4>3 DEF Editor!Save
        <4>5. QED BY <3>1, <4>1, <4>3, <4>4 DEF Editor!Save
    <2>6. SaveMoved(c, new) BY <2>2, <2>3, <2>5 DEF SaveMoved
    <2>7. SaveCreated(c, new, d) BY <2>2, <2>4, <2>5, <2>6 DEF SaveCreated
    <2>8. QED BY <2>7
  <1>9. ASSUME NEW c \in run, Editor!Write(c) PROVE \E new : SaveWrote(c, new)
    <2>1. /\ ~ c.done /\ c.op # "create" /\ stored[c.on].status = "draft"
          /\ run' = (run \ {c}) \cup {[c EXCEPT !.done = TRUE, !.text = Editor!Blank.text, !.roles = Editor!Blank.roles]}
          /\ pressed' = IF c.op = "publish" THEN [pressed EXCEPT ![c.on] = c.asked] ELSE pressed
          /\ UNCHANGED <<page, shown, form, draft, loading, timer, mixed, calls, faults>>
      BY <1>9 DEF Editor!Write, Editor!Accepts
    <2>2. PICK new : new = [c EXCEPT !.done = TRUE, !.text = Editor!Blank.text, !.roles = Editor!Blank.roles] OBVIOUS
    <2>3. /\ new \in Editor!Save /\ new.kind = c.kind /\ new.page = c.page /\ new.asked = c.asked
          /\ new.op = c.op /\ new.on = c.on /\ new.done = TRUE
      <3>1. PICK b \in BOOLEAN : b = TRUE OBVIOUS
      <3>2. new = [c EXCEPT !.done = b, !.text = Editor!Blank.text, !.roles = Editor!Blank.roles] BY <2>2, <3>1
      <3>3. QED
        <4>1. c \in Editor!Save BY <1>d
        <4>2. PICK z \in Editor!Texts, y \in Editor!RoleForms : z = Editor!Blank.text /\ y = Editor!Blank.roles
          BY BlankTyped
        <4>3. new = [c EXCEPT !.done = b, !.text = z, !.roles = y] BY <3>2, <4>2
        <4>4. new \in Editor!Save BY <4>1, <4>3 DEF Editor!Save
        <4>5. QED BY <3>1, <4>1, <4>3, <4>4 DEF Editor!Save
    <2>4. SaveMoved(c, new) BY <2>1, <2>2, <2>3 DEF SaveMoved
    <2>5. /\ c.on \in Drafts /\ c.op \in {"update", "roles", "publish"} /\ c.text \in Editor!Texts
          /\ c.roles \in Editor!RoleForms /\ stored[c.on] \in DraftRow BY <1>c, <1>d, <2>1, SaveCarries DEF SaveCall
    <2>6. \E r \in DraftRow :
            /\ stored' = [stored EXCEPT ![c.on] = r] /\ r.page = stored[c.on].page
            /\ r.text.title = IF c.op = "update" THEN c.text.title ELSE stored[c.on].text.title
            /\ r.roles = IF c.op = "roles" THEN c.roles ELSE stored[c.on].roles
            /\ r.status = IF c.op = "publish" THEN "published" ELSE "draft"
      <3>1. CASE c.op = "update"
        <4>a. PICK u : u = Editor!Updated(stored[c.on].text, c.text) OBVIOUS
        <4>b. u \in Editor!Texts /\ u.title = c.text.title BY <1>c, <2>5, <4>a, UpdatedTyped
        <4>1. stored' = [stored EXCEPT ![c.on].text = u] BY <1>9, <3>1, <4>a DEF Editor!Write
        <4>2. PICK r : r = [stored[c.on] EXCEPT !.text = u] OBVIOUS
        <4>3. r \in DraftRow /\ r.text.title = c.text.title /\ r.page = stored[c.on].page
              /\ r.roles = stored[c.on].roles /\ r.status = "draft" BY <2>1, <2>5, <4>2, <4>b DEF DraftRow
        <4>4. stored' = [stored EXCEPT ![c.on] = r] BY <4>1, <4>2
        <4>5. QED BY <3>1, <4>3, <4>4
      <3>2. CASE c.op = "roles"
        <4>1. stored' = [stored EXCEPT ![c.on].roles = c.roles] BY <1>9, <3>2 DEF Editor!Write
        <4>2. PICK r : r = [stored[c.on] EXCEPT !.roles = c.roles] OBVIOUS
        <4>3. r \in DraftRow /\ r.roles = c.roles /\ r.page = stored[c.on].page
              /\ r.text = stored[c.on].text /\ r.status = "draft" BY <2>1, <2>5, <4>2 DEF DraftRow
        <4>4. stored' = [stored EXCEPT ![c.on] = r] BY <4>1, <4>2
        <4>5. QED BY <3>2, <4>3, <4>4
      <3>3. CASE c.op = "publish"
        <4>1. stored' = [stored EXCEPT ![c.on].status = "published"] BY <1>9, <3>3 DEF Editor!Write
        <4>2. PICK r : r = [stored[c.on] EXCEPT !.status = "published"] OBVIOUS
        <4>3. r \in DraftRow /\ r.status = "published" /\ r.page = stored[c.on].page
              /\ r.text = stored[c.on].text /\ r.roles = stored[c.on].roles BY <2>5, <4>2 DEF DraftRow
        <4>4. stored' = [stored EXCEPT ![c.on] = r] BY <4>1, <4>2
        <4>5. QED BY <3>3, <4>3, <4>4
      <3>4. QED BY <2>5, <3>1, <3>2, <3>3
    <2>7. SaveWrote(c, new) BY <2>1, <2>3, <2>4, <2>6 DEF SaveWrote
    <2>8. QED BY <2>7
  <1>i. ASSUME NEW c \in run, Editor!Ends(c), c.done, UNCHANGED <<page, stored, pressed, mixed, calls, faults>>,
               c.kind = "auto" \/ ~ shown =>
                 draft' = (IF c.op = "create" /\ Editor!Mine(c) THEN c.on ELSE draft)
        PROVE  (\E r : PageLeft(r)) \/ SaveEnded(c)
    <2>1. CASE c.kind = "auto" \/ ~ shown
      <3>1. run' = run \ {c} /\ UNCHANGED <<shown, timer, form, loading>> BY <1>i, <2>1 DEF Editor!Ends
      <3>2. c.on \in Drafts BY <1>d, <1>i DEF SaveCall
      <3>3. ~ shown => draft' = draft BY <1>i DEF Editor!Mine
      <3>4. draft' \in Drafts \cup {None} BY <1>a, <1>i, <2>1, <3>2
      <3>5. SaveEnded(c) BY <1>a, <1>i, <2>1, <3>1, <3>3, <3>4 DEF SaveEnded
      <3>6. QED BY <3>5
    <2>2. CASE ~ (c.kind = "auto" \/ ~ shown)
      <3>1. Editor!Gone(run \ {c}) BY <1>i, <2>2 DEF Editor!Ends
      <3>2. PageLeft(run \ {c}) BY <1>a, <1>g, <1>i, <2>2, <3>1
      <3>3. QED BY <3>2
    <2>3. QED BY <2>1, <2>2
  <1>10. ASSUME NEW c \in run, Editor!Refuse(c) PROVE SaveEnded(c)
    BY <1>10, <1>a DEF Editor!Refuse, Editor!Accepts, SaveEnded
  <1>11. ASSUME NEW c \in run, Editor!Fail(c) PROVE SaveEnded(c)
    BY <1>11, <1>a, DraftingNumbers DEF Editor!Fail, SaveEnded
  <1>12. ASSUME NEW c \in run, Editor!Answered(c) PROVE (\E r : PageLeft(r)) \/ SaveEnded(c)
    <2>1. /\ c.done /\ c.op = "create" /\ Editor!Ends(c)
          /\ c.kind = "auto" \/ ~ shown => draft' = IF Editor!Mine(c) THEN c.on ELSE draft
          /\ UNCHANGED <<page, stored, pressed, mixed, calls, faults>> BY <1>12 DEF Editor!Answered
    <2>2. QED BY <1>i, <2>1
  <1>13. ASSUME NEW c \in run, Editor!Goes(c) PROVE (\E r : PageLeft(r)) \/ SaveEnded(c) \/ \E new : SaveWent(c, new)
    <2>1. /\ c.done /\ (c.op = "create" => c.kind = "publish")
          /\ UNCHANGED <<page, stored, pressed, mixed, calls, faults>> BY <1>13 DEF Editor!Goes
    <2>2. CASE Editor!NextOp(c) = "end"
      <3>1. Editor!Ends(c) /\ (c.kind = "auto" \/ ~ shown => draft' = draft) BY <1>13, <2>2 DEF Editor!Goes
      <3>2. c.kind = "auto" => c.op # "create" BY <2>1
      <3>3. ~ shown => ~ Editor!Mine(c) BY DEF Editor!Mine
      <3>4. QED BY <1>i, <2>1, <3>1, <3>2, <3>3
    <2>3. CASE Editor!NextOp(c) # "end"
      <3>1. PICK o : o = Editor!NextOp(c) OBVIOUS
      <3>2. PICK r : r = Editor!Roles(c) OBVIOUS
      <3>3. PICK w : w = IF c.kind # "publish" /\ Editor!Mine(c) THEN draft ELSE c.on OBVIOUS
      <3>4. PICK new : new = [c EXCEPT !.op = o, !.done = FALSE, !.roles = r, !.text = Editor!Blank.text, !.on = w]
        OBVIOUS
      <3>5. run' = (run \ {c}) \cup {new} /\ UNCHANGED <<shown, timer, form, draft, loading>>
        BY <1>13, <2>3, <3>1, <3>2, <3>3, <3>4 DEF Editor!Goes
      <3>6. o \in {"roles", "publish"} BY <2>3, <3>1 DEF Editor!NextOp
      <3>7. r \in Editor!RoleForms
        <4>1. c.asked.roles \in Editor!RoleForms BY <1>d, SaveCarries DEF FormType
        <4>2. QED BY <1>b, <3>2, <4>1 DEF Editor!Roles
      <3>8. w \in Drafts \cup {None} BY <1>a, <1>d, <3>3, SaveCarries
      <3>9. /\ new \in Editor!Save /\ new.kind = c.kind /\ new.page = c.page /\ new.asked = c.asked
            /\ new.op = o /\ new.on = w /\ new.done = FALSE /\ new.roles = r
        <4>1. PICK b \in BOOLEAN : b = FALSE OBVIOUS
        <4>2. new = [c EXCEPT !.op = o, !.done = b, !.roles = r, !.text = Editor!Blank.text, !.on = w] BY <3>4, <4>1
        <4>3. QED
          <5>1. c \in Editor!Save BY <1>d
          <5>2. PICK z \in Editor!Texts : z = Editor!Blank.text BY BlankTyped
          <5>3. new = [c EXCEPT !.op = o, !.done = b, !.roles = r, !.text = z, !.on = w] BY <4>2, <5>2
          <5>4. new \in Editor!Save BY <3>6, <3>7, <3>8, <5>1, <5>3 DEF Editor!Save
          <5>5. QED BY <4>1, <5>1, <5>3, <5>4 DEF Editor!Save
      <3>10. SaveMoved(c, new) BY <2>1, <3>5, <3>9 DEF SaveMoved
      <3>11. SaveWent(c, new) BY <2>1, <2>3, <3>1, <3>2, <3>3, <3>9, <3>10 DEF SaveWent
      <3>12. QED BY <3>11
    <2>4. QED BY <2>2, <2>3
  <1>14. QED
    BY <1>1, <1>2, <1>3, <1>4, <1>5, <1>6, <1>7, <1>8, <1>9, <1>10, <1>11, <1>12, <1>13 DEF Editor!Next, Editor!Serve

LEMMA DraftTypesAre == DraftTyped <=> DraftTypes /\ \A c \in run : SaveCall(c)
  <1>1. Editor!TypeOK <=> DraftTypes /\ run \subseteq Editor!Save
    BY DEF Editor!TypeOK, DraftTypes, DraftRow, FormType, Editor!Form
  <1>2. QED BY <1>1 DEF DraftTyped, SaveCall

\* A page that is left gives its saves the form as it is.
LEMMA FormStays ==
  ASSUME NEW c \in Editor!Save, DraftTypes, NEW k,
         k = IF Editor!Mine(c) THEN [c EXCEPT !.asked = form] ELSE c
  PROVE  /\ k \in Editor!Save /\ k.kind = c.kind /\ k.op = c.op /\ (k.done <=> c.done) /\ k.on = c.on
         /\ k.text = c.text /\ k.roles = c.roles /\ k.page = c.page
         /\ c.asked = form => k.asked = c.asked
         /\ ~ Editor!Mine(c) => k = c
  <1>1. form \in Editor!Form BY DEF DraftTypes, FormType, Editor!Form
  <1>2. CASE Editor!Mine(c)
    <2>1. k = [c EXCEPT !.asked = form] BY <1>2
    <2>2. k \in Editor!Save /\ k.kind = c.kind /\ k.op = c.op /\ k.done = c.done /\ k.on = c.on
          /\ k.text = c.text /\ k.roles = c.roles /\ k.page = c.page /\ k.asked = form BY <1>1, <2>1 DEF Editor!Save
    <2>3. QED BY <1>2, <2>2
  <1>3. CASE ~ Editor!Mine(c) BY <1>3
  <1>4. QED BY <1>2, <1>3

LEMMA DraftingTypes ==
  ASSUME DraftTyped, Editor!Next PROVE DraftTyped'
  <1>a. DraftTypes /\ \A c \in run : SaveCall(c) BY DraftTypesAre
  <1>b. SUFFICES DraftTypes' /\ \A c \in run' : SaveCall(c)'
    <2>1. Editor!TypeOK' <=> DraftTypes' /\ run' \subseteq Editor!Save
      BY DEF Editor!TypeOK, DraftTypes, DraftRow, FormType, Editor!Form
    <2>2. QED BY <2>1 DEF DraftTyped, SaveCall
  <1>c. /\ page \in 0..MaxPages /\ page \in Nat
        /\ \A c \in run : c \in Editor!Save /\ c.page \in Nat /\ c.page <= page
    BY <1>a, SaveCarries, DraftingNumbers DEF DraftTypes, SaveCall
  <1>1. CASE DraftOpened
    <2>1. page' \in 0..MaxPages /\ page' = page + 1 /\ shown' \in BOOLEAN /\ mixed' \in BOOLEAN
      BY <1>1, <1>a, <1>c, DraftingNumbers DEF DraftOpened
    <2>2. DraftTypes' BY <1>1, <1>a, <2>1 DEF DraftOpened, DraftTypes
    <2>3. ASSUME NEW c \in run' PROVE SaveCall(c)'
      <3>1. c \in run /\ SaveCall(c) /\ c.page <= page /\ c.page \in Nat /\ draft' = draft
        BY <1>1, <1>a, <1>c, <2>3 DEF DraftOpened
      <3>2. ~ Editor!Mine(c)' BY <1>c, <2>1, <3>1 DEF Editor!Mine
      <3>3. c.page <= page' BY <1>c, <2>1, <3>1
      <3>4. QED BY <3>1, <3>2, <3>3 DEF SaveCall
    <2>4. QED BY <2>2, <2>3
  <1>2. CASE DraftLoaded
    <2>1. DraftTypes' BY <1>2, <1>a DEF DraftLoaded, DraftTypes
    <2>2. draft' # None BY <1>2, DraftingNumbers DEF DraftLoaded
    <2>3. QED BY <1>2, <1>a, <2>1, <2>2 DEF DraftLoaded, SaveCall, Editor!Mine
  <1>3. CASE DraftEdited
    <2>1. mixed' \in BOOLEAN /\ timer' \in BOOLEAN BY <1>3 DEF DraftEdited
    <2>2. DraftTypes' BY <1>3, <1>a, <2>1 DEF DraftEdited, DraftTypes
    <2>3. QED BY <1>3, <1>a, <2>2 DEF DraftEdited, SaveCall, Editor!Mine
  <1>4. CASE TimerGone
    <2>1. timer' \in BOOLEAN BY <1>4 DEF TimerGone
    <2>2. QED BY <1>4, <1>a, <2>1 DEF TimerGone, DraftTypes, SaveCall, Editor!Mine
  <1>5. ASSUME NEW r, PageLeft(r) PROVE DraftTypes' /\ \A c \in run' : SaveCall(c)'
    <2>1. shown' = FALSE /\ timer' = FALSE /\ shown' \in BOOLEAN /\ timer' \in BOOLEAN BY <1>5 DEF PageLeft
    <2>2. DraftTypes' BY <1>5, <1>a, <2>1 DEF PageLeft, DraftTypes
    <2>3. ASSUME NEW k \in run' PROVE SaveCall(k)'
      <3>1. PICK c \in run : k = IF Editor!Mine(c) THEN [c EXCEPT !.asked = form] ELSE c BY <1>5, <2>3 DEF PageLeft
      <3>2. /\ k \in Editor!Save /\ k.kind = c.kind /\ k.op = c.op /\ (k.done <=> c.done)
            /\ k.on = c.on /\ k.page = c.page BY <1>a, <1>c, <3>1, FormStays
      <3>3. SaveCall(c) /\ page' = page BY <1>5, <1>a DEF PageLeft
      <3>4. ~ Editor!Mine(k)' BY <2>1 DEF Editor!Mine
      <3>5. QED BY <3>2, <3>3, <3>4 DEF SaveCall
    <2>4. QED BY <2>2, <2>3
  <1>6. ASSUME NEW new, SaveBegan(new) PROVE DraftTypes' /\ \A c \in run' : SaveCall(c)'
    <2>1. mixed' \in BOOLEAN BY <1>6 DEF SaveBegan
    <2>2. DraftTypes' BY <1>6, <1>a, <2>1 DEF SaveBegan, DraftTypes
    <2>3. SaveCall(new)'
      <3>1. /\ new \in Editor!Save /\ new.page = page /\ page' = page /\ draft' = draft /\ ~ new.done
            /\ IF draft = None THEN new.op = "create" ELSE new.op = "update" /\ new.on = draft BY <1>6 DEF SaveBegan
      <3>2. draft \in Drafts \cup {None} BY <1>a DEF DraftTypes
      <3>3. QED BY <1>c, <3>1, <3>2 DEF SaveCall
    <2>4. QED BY <1>6, <1>a, <2>2, <2>3 DEF SaveBegan, SaveCall, Editor!Mine
  <1>d. ASSUME NEW c, NEW new, SaveMoved(c, new), SaveCall(new)' PROVE \A k \in run' : SaveCall(k)'
    BY <1>a, <1>d DEF SaveMoved, SaveCall, Editor!Mine
  <1>7. ASSUME NEW c, NEW new, NEW d, SaveCreated(c, new, d) PROVE DraftTypes' /\ \A k \in run' : SaveCall(k)'
    <2>1. SaveMoved(c, new) /\ c \in run /\ d \in Drafts BY <1>7 DEF SaveCreated, SaveMoved
    <2>2. [status |-> "draft", text |-> c.text, roles |-> c.roles, page |-> c.page] \in DraftRow
      <3>1. c.page \in 0..MaxPages /\ c.text \in Editor!Texts /\ c.roles \in Editor!RoleForms
        BY <1>c, <2>1, SaveCarries, DraftingNumbers
      <3>2. QED BY <3>1 DEF DraftRow
    <2>3. DraftTypes' BY <1>7, <1>a, <2>1, <2>2 DEF SaveCreated, SaveMoved, DraftTypes
    <2>4. SaveCall(new)' BY <1>7, <1>a, <2>1 DEF SaveCreated, SaveMoved, SaveCall
    <2>5. QED BY <1>d, <2>1, <2>3, <2>4
  <1>8. ASSUME NEW c, NEW new, SaveWrote(c, new) PROVE DraftTypes' /\ \A k \in run' : SaveCall(k)'
    <2>1. SaveMoved(c, new) /\ c \in run /\ SaveCall(c) /\ ~ c.done /\ c.op # "create"
      BY <1>8, <1>a DEF SaveWrote, SaveMoved
    <2>2. c.on \in Drafts /\ c.asked \in FormType BY <2>1, SaveCarries DEF SaveCall
    <2>3. stored' \in [Drafts -> DraftRow] BY <1>8, <1>a, <2>2 DEF SaveWrote, DraftTypes
    <2>4. pressed' \in [Drafts -> FormType] BY <1>8, <1>a, <2>2 DEF SaveWrote, DraftTypes
    <2>5. DraftTypes' BY <1>a, <2>1, <2>3, <2>4 DEF SaveMoved, DraftTypes
    <2>6. SaveCall(new)' BY <1>8, <2>1, <2>2 DEF SaveWrote, SaveMoved, SaveCall, Editor!Mine
    <2>7. QED BY <1>d, <2>1, <2>5, <2>6
  <1>9. ASSUME NEW c, NEW new, SaveWent(c, new) PROVE DraftTypes' /\ \A k \in run' : SaveCall(k)'
    <2>1. SaveMoved(c, new) /\ c \in run /\ SaveCall(c) /\ c.done /\ ~ new.done
          /\ UNCHANGED <<stored, pressed>> BY <1>9, <1>a DEF SaveWent, SaveMoved
    <2>2. DraftTypes' BY <1>a, <2>1 DEF SaveMoved, DraftTypes
    <2>3. /\ c.on \in Drafts /\ (c.op = "create" => c.kind = "publish")
          /\ new.on = IF c.kind # "publish" /\ Editor!Mine(c) THEN draft ELSE c.on
          /\ new.op = "publish" => c.kind = "publish" BY <1>9, <2>1 DEF SaveWent, SaveCall, Editor!NextOp
    <2>4. draft \in Drafts \cup {None} BY <1>a DEF DraftTypes
    <2>5. c.kind # "publish" /\ Editor!Mine(c) => draft # None BY <2>1, <2>3 DEF SaveCall
    <2>6. SaveCall(new)' BY <2>1, <2>3, <2>4, <2>5 DEF SaveMoved, SaveCall, Editor!Mine
    <2>7. QED BY <1>d, <2>1, <2>2, <2>6
  <1>10. ASSUME NEW c, SaveEnded(c) PROVE DraftTypes' /\ \A k \in run' : SaveCall(k)'
    <2>1. DraftTypes' BY <1>10, <1>a DEF SaveEnded, DraftTypes
    <2>2. c \in run /\ SaveCall(c) BY <1>10, <1>a DEF SaveEnded
    <2>3. draft' = draft \/ draft' # None BY <1>10, <2>2, DraftingNumbers DEF SaveEnded, SaveCall
    <2>4. QED BY <1>10, <1>a, <2>1, <2>3 DEF SaveEnded, SaveCall, Editor!Mine
  <1>11. QED BY <1>1, <1>2, <1>3, <1>4, <1>5, <1>6, <1>7, <1>8, <1>9, <1>10, DraftingMoves

LEMMA UnmixedStays ==
  ASSUME DraftTyped, Unmixed, ~ mixed', Editor!Next PROVE Unmixed'
  <1>a. DraftTypes /\ (\A c \in run : SaveCall(c)) /\ \A c \in run : c \in Editor!Save BY DraftTypesAre DEF SaveCall
  <1>b. OneSave /\ (\A c \in run : c.kind = "publish" => Publishes(c)) /\ PublishedIs /\ (faults = 0 => TaskEach)
    BY DEF Unmixed
  <1>c. /\ page \in Nat /\ faults \in Nat /\ draft \in Drafts \cup {None}
        /\ \A d \in Drafts : stored[d].page \in Nat
    <2>1. \A d \in Drafts : stored[d] \in DraftRow BY <1>a DEF DraftTypes
    <2>2. QED BY <1>a, <2>1, DraftingNumbers DEF DraftTypes, DraftRow
  <1>1. CASE DraftOpened
    <2>1. /\ ~ shown /\ shown' /\ page' = page + 1 /\ run = {} /\ run' = {}
          /\ UNCHANGED <<form, draft, stored, pressed, faults>> BY <1>1 DEF DraftOpened
    <2>2. OneSave' BY <2>1 DEF OneSave
    <2>3. PublishedIs' BY <1>b, <2>1 DEF PublishedIs
    <2>4. TaskEach => TaskEach' BY <1>c, <2>1 DEF TaskEach, Fresh
    <2>5. QED BY <1>b, <2>1, <2>2, <2>3, <2>4 DEF Unmixed
  <1>2. CASE DraftLoaded
    <2>1. /\ shown /\ run = {} /\ run' = {} /\ draft' # None /\ loading' = None
          /\ UNCHANGED <<page, shown, stored, pressed, faults>>
      BY <1>2, <1>b, DraftingNumbers DEF DraftLoaded, OneSave
    <2>2. QED BY <1>b, <2>1 DEF Unmixed, OneSave, PublishedIs, TaskEach, Fresh
  <1>3. CASE DraftEdited
    <2>1. /\ shown /\ UNCHANGED <<page, shown, draft, loading, stored, pressed, run, faults>>
          /\ ~ Editor!Pressed("publish") BY <1>3 DEF DraftEdited
    <2>2. \A c \in run : c.kind # "publish" BY <1>b, <2>1 DEF Editor!Pressed, Editor!Mine, OneSave
    <2>3. OneSave' /\ PublishedIs' /\ (faults' = 0 => TaskEach')
      BY <1>b, <2>1 DEF OneSave, PublishedIs, TaskEach, Fresh
    <2>4. QED BY <2>1, <2>2, <2>3 DEF Unmixed
  <1>4. CASE TimerGone
    <2>1. OneSave' /\ PublishedIs' /\ (faults' = 0 => TaskEach')
      BY <1>4, <1>b DEF TimerGone, OneSave, PublishedIs, TaskEach, Fresh
    <2>2. \A c \in run' : c.kind = "publish" => Publishes(c)'
      BY <1>4, <1>b DEF TimerGone, Publishes, HasText, HasRoles
    <2>3. QED BY <2>1, <2>2 DEF Unmixed
  <1>5. ASSUME NEW r, PageLeft(r) PROVE Unmixed'
    <2>1. /\ shown /\ shown' = FALSE /\ loading' = None /\ r \subseteq run
          /\ run' = {IF Editor!Mine(c) THEN [c EXCEPT !.asked = form] ELSE c : c \in r}
          /\ UNCHANGED <<page, stored, pressed>> /\ (faults' = 0 => faults = 0) BY <1>5, <1>c DEF PageLeft
    <2>2. ASSUME NEW k \in run' PROVE \E c \in run :
                   /\ k.kind = c.kind /\ k.op = c.op /\ (k.done <=> c.done) /\ k.on = c.on
                   /\ k.text = c.text /\ k.roles = c.roles /\ k.page = c.page
                   /\ c.asked = form => k.asked = c.asked
      <3>1. PICK c \in r : k = IF Editor!Mine(c) THEN [c EXCEPT !.asked = form] ELSE c BY <2>1
      <3>2. c \in run /\ c \in Editor!Save BY <1>a, <2>1
      <3>3. QED BY <1>a, <3>1, <3>2, FormStays
    <2>3. \A k, l \in run' : k = l BY <1>b, <2>1 DEF OneSave
    <2>4. OneSave' BY <1>b, <2>1, <2>2, <2>3 DEF OneSave
    <2>5. ASSUME NEW k \in run', k.kind = "publish" PROVE Publishes(k)'
      <3>1. PICK c \in run :
                   /\ k.kind = c.kind /\ k.op = c.op /\ (k.done <=> c.done) /\ k.on = c.on
                   /\ k.text = c.text /\ k.roles = c.roles /\ k.page = c.page
                   /\ c.asked = form => k.asked = c.asked BY <2>2
      <3>2. Publishes(c) BY <1>b, <2>5, <3>1
      <3>3. k.asked = c.asked BY <2>1, <3>1, <3>2 DEF Publishes
      <3>4. QED BY <2>1, <3>1, <3>2, <3>3 DEF Publishes, HasText, HasRoles
    <2>6. PublishedIs' BY <1>b, <2>1 DEF PublishedIs
    <2>7. TaskEach => TaskEach' BY <2>1, <2>2 DEF TaskEach, Fresh
    <2>8. QED BY <1>b, <2>1, <2>4, <2>5, <2>6, <2>7 DEF Unmixed
  <1>6. ASSUME NEW new, SaveBegan(new) PROVE Unmixed'
    <2>1. /\ shown /\ run = {} /\ loading = None /\ run' = {new} /\ new.page = page /\ ~ new.done
          /\ IF draft = None THEN new.op = "create" ELSE new.op = "update" /\ new.on = draft
          /\ new.text = form.text /\ new.roles = form.roles
          /\ new.kind = "publish" => new.asked = form /\ Editor!Chosen(form.roles)
          /\ UNCHANGED <<page, shown, form, draft, loading, stored, pressed, faults>> BY <1>6 DEF SaveBegan
    <2>2. OneSave' /\ PublishedIs' BY <1>b, <2>1 DEF OneSave, PublishedIs
    <2>3. new.kind = "publish" => Publishes(new)' BY <2>1 DEF Publishes, HasText, HasRoles
    <2>4. TaskEach => TaskEach' BY <2>1 DEF TaskEach, Fresh
    <2>5. QED BY <1>b, <2>1, <2>2, <2>3, <2>4 DEF Unmixed
  <1>e. ASSUME NEW c, NEW new, SaveMoved(c, new)
        PROVE  /\ c \in run /\ c \in Editor!Save /\ SaveCall(c) /\ run = {c} /\ run' = {new} /\ c.page = page /\ new.page = page
               /\ new.kind = c.kind /\ new.asked = c.asked /\ loading = None
               /\ UNCHANGED <<page, shown, form, draft, loading, faults>> /\ OneSave'
               /\ c.kind = "publish" => Publishes(c) BY <1>a, <1>b, <1>e DEF SaveMoved, OneSave
  <1>7. ASSUME NEW c, NEW new, NEW d, SaveCreated(c, new, d) PROVE Unmixed'
    <2>1. /\ SaveMoved(c, new) /\ ~ c.done /\ c.op = "create" /\ new.done /\ new.op = "create" /\ new.on = d
          /\ d \in Drafts /\ stored[d].status = "none" /\ UNCHANGED pressed
          /\ stored' = [stored EXCEPT ![d] =
                          [status |-> "draft", text |-> c.text, roles |-> c.roles, page |-> c.page]]
      BY <1>7 DEF SaveCreated
    <2>2. /\ stored'[d].status = "draft" /\ stored'[d].text = c.text /\ stored'[d].roles = c.roles
          /\ stored'[d].page = page
          /\ \A e \in Drafts : e # d => stored'[e] = stored[e] BY <1>a, <1>e, <2>1 DEF DraftTypes
    <2>3. new.kind = "publish" => Publishes(new)' BY <1>e, <2>1, <2>2 DEF Publishes, HasText, HasRoles
    <2>4. PublishedIs' BY <1>b, <2>1, <2>2 DEF PublishedIs
    <2>5. TaskEach => TaskEach'
      <3>1. SUFFICES ASSUME TaskEach PROVE TaskEach' OBVIOUS
      <3>2. Fresh /\ run' = {new} /\ page' = page BY <1>e, <2>1, <3>1 DEF TaskEach
      <3>3. \A e \in Drafts : stored'[e].status # "none" => stored'[e].page <= page BY <1>c, <2>2, <3>1 DEF TaskEach
      <3>4. \A e, f \in Drafts :
              stored'[e].status # "none" /\ stored'[f].status # "none" /\ stored'[e].page = stored'[f].page => e = f
        BY <2>2, <3>1, <3>2 DEF TaskEach, Fresh
      <3>5. QED BY <2>1, <2>2, <3>2, <3>3, <3>4 DEF TaskEach
    <2>6. QED BY <1>b, <1>e, <2>1, <2>3, <2>4, <2>5 DEF Unmixed
  <1>8. ASSUME NEW c, NEW new, SaveWrote(c, new) PROVE Unmixed'
    <2>1. /\ SaveMoved(c, new) /\ ~ c.done /\ c.op # "create" /\ new.done /\ new.op = c.op /\ new.on = c.on
          /\ stored[c.on].status = "draft"
          /\ pressed' = IF c.op = "publish" THEN [pressed EXCEPT ![c.on] = c.asked] ELSE pressed BY <1>8 DEF SaveWrote
    <2>2. c.on \in Drafts /\ (c.op = "publish" => c.kind = "publish") BY <1>e, <2>1 DEF SaveCall
    <2>3. PICK r \in DraftRow :
       /\ stored' = [stored EXCEPT ![c.on] = r] /\ r.page = stored[c.on].page
       /\ r.text.title = IF c.op = "update" THEN c.text.title ELSE stored[c.on].text.title
       /\ r.roles = IF c.op = "roles" THEN c.roles ELSE stored[c.on].roles
       /\ r.status = IF c.op = "publish" THEN "published" ELSE "draft" BY <1>8 DEF SaveWrote
    <2>4. stored'[c.on] = r /\ \A e \in Drafts : e # c.on => stored'[e] = stored[e] BY <1>a, <2>2, <2>3 DEF DraftTypes
    <2>5. new.kind = "publish" => Publishes(new)'
      <3>1. SUFFICES ASSUME c.kind = "publish" PROVE Publishes(new)' BY <1>e, <2>1
      <3>2. /\ new.asked = c.asked /\ Editor!Chosen(c.asked.roles) /\ (shown' => new.asked = form')
            /\ c.op \in {"update", "roles", "publish"} BY <1>e, <2>1, <3>1, SaveCarries DEF Publishes
      <3>3. stored'[new.on].text.title = c.asked.text.title
        BY <1>e, <2>1, <2>3, <2>4, <3>1, <3>2 DEF Publishes, HasText
      <3>4. c.op \in {"roles", "publish"} => stored'[new.on].roles = c.asked.roles
        BY <1>e, <2>1, <2>3, <2>4, <3>1, <3>2 DEF Publishes, HasRoles
      <3>5. QED BY <2>1, <3>2, <3>3, <3>4 DEF Publishes, HasRoles
    <2>6. PublishedIs'
      <3>1. ASSUME NEW d \in Drafts, stored'[d].status = "published"
            PROVE  stored'[d].text.title = pressed'[d].text.title /\ stored'[d].roles = pressed'[d].roles
        <4>1. CASE d = c.on
          <5>1. c.op = "publish" BY <2>3, <2>4, <3>1, <4>1
          <5>2. stored[d].text.title = c.asked.text.title /\ stored[d].roles = c.asked.roles
            BY <1>e, <2>1, <2>2, <4>1, <5>1 DEF Publishes, HasText, HasRoles
          <5>3. pressed'[d] = c.asked BY <1>a, <2>1, <4>1, <5>1 DEF DraftTypes
          <5>4. QED BY <2>3, <2>4, <4>1, <5>1, <5>2, <5>3
        <4>2. CASE d # c.on
          <5>1. stored'[d] = stored[d] /\ pressed'[d] = pressed[d] BY <1>a, <2>1, <2>4, <4>2 DEF DraftTypes
          <5>2. QED BY <1>b, <3>1, <5>1 DEF PublishedIs
        <4>3. QED BY <4>1, <4>2
      <3>2. QED BY <3>1 DEF PublishedIs
    <2>7. \A d \in Drafts : stored'[d].page = stored[d].page /\ (stored'[d].status = "none" <=> stored[d].status = "none")
      BY <2>1, <2>3, <2>4
    <2>8. TaskEach => TaskEach' BY <1>e, <2>1, <2>2, <2>7 DEF TaskEach, Fresh
    <2>9. QED BY <1>b, <1>e, <2>1, <2>5, <2>6, <2>8 DEF Unmixed
  <1>9. ASSUME NEW c, NEW new, SaveWent(c, new) PROVE Unmixed'
    <2>1. /\ SaveMoved(c, new) /\ c.done /\ ~ new.done /\ UNCHANGED <<stored, pressed>>
          /\ new.op = Editor!NextOp(c) /\ new.op # "end" /\ new.roles = Editor!Roles(c)
          /\ c.op = "create" => c.kind = "publish"
          /\ new.on = IF c.kind # "publish" /\ Editor!Mine(c) THEN draft ELSE c.on BY <1>9 DEF SaveWent
    <2>2. PublishedIs' BY <1>b, <2>1 DEF PublishedIs
    <2>3. c.kind = "publish" =>
            /\ new.on = c.on /\ Publishes(c) /\ Editor!Roles(c) = c.asked.roles
            /\ \/ c.op = "update" /\ new.op = "roles"
               \/ c.op \in {"create", "roles"} /\ new.op = "publish"
      <3>1. SUFFICES ASSUME c.kind = "publish"
                     PROVE  /\ new.on = c.on /\ Publishes(c) /\ Editor!Roles(c) = c.asked.roles
                            /\ \/ c.op = "update" /\ new.op = "roles"
                               \/ c.op \in {"create", "roles"} /\ new.op = "publish" OBVIOUS
      <3>2. new.on = c.on /\ Publishes(c) BY <1>e, <2>1, <3>1
      <3>3. Editor!Roles(c) = c.asked.roles /\ Editor!Chosen(Editor!Roles(c))
        BY <3>2 DEF Publishes, Editor!Roles, Editor!Mine
      <3>4. c.op \in {"create", "update", "roles", "publish"} BY <1>e, <2>1, SaveCarries
      <3>5. QED BY <2>1, <3>1, <3>2, <3>3, <3>4 DEF Editor!NextOp
    <2>4. new.kind = "publish" => Publishes(new)' BY <1>e, <2>1, <2>3 DEF Publishes, HasText, HasRoles
    <2>5. TaskEach => TaskEach'
      <3>1. SUFFICES ASSUME TaskEach PROVE TaskEach' OBVIOUS
      <3>2. new.op \in {"roles", "publish"} /\ run' = {new} /\ new.kind = c.kind BY <1>e, <2>1 DEF Editor!NextOp
      <3>3. ASSUME shown, draft = None, c.kind = "publish" PROVE new.op = "publish" /\ stored[new.on].status = "draft"
        <4>1. c.op = "create" BY <1>e, <2>1, <2>3, <3>1, <3>3 DEF TaskEach
        <4>2. stored[c.on].status = "draft" BY <1>e, <2>1, <3>1, <4>1 DEF TaskEach
        <4>3. QED BY <2>3, <3>3, <4>1, <4>2
      <3>4. QED BY <1>e, <2>1, <3>1, <3>2, <3>3 DEF TaskEach, Fresh
    <2>6. QED BY <1>b, <1>e, <2>1, <2>2, <2>4, <2>5 DEF Unmixed
  <1>10. ASSUME NEW c, SaveEnded(c) PROVE Unmixed'
    <2>1. /\ c \in run /\ run' = {} /\ UNCHANGED <<page, shown, form, loading, stored, pressed>>
          /\ c.page = page /\ SaveCall(c) BY <1>10, <1>a, <1>b DEF SaveEnded, OneSave
    <2>2. OneSave' /\ PublishedIs' BY <1>b, <2>1 DEF OneSave, PublishedIs
    <2>3. ASSUME TaskEach, faults = 0, faults' = 0, shown, draft' = None PROVE Fresh
      <3>1. Editor!Mine(c) BY <2>1, <2>3 DEF Editor!Mine
      <3>2. c.op = "create" \/ c.kind = "publish" \/ draft # None BY <2>1, <3>1 DEF SaveCall
      <3>3. CASE c.kind = "auto" /\ c.done
        <4>1. c.op = "create" => c.on # None BY <2>1, <3>3, DraftingNumbers DEF SaveCall
        <4>2. QED BY <1>10, <2>3, <3>1, <3>2, <3>3, <4>1 DEF SaveEnded
      <3>4. CASE /\ draft' = draft /\ ~ c.done /\ c.op # "create"
                 /\ stored[c.on].status = "draft" => c.op = "publish" /\ ~ Editor!Chosen(stored[c.on].roles)
        <4>1. c.kind = "publish" /\ Publishes(c) BY <1>b, <2>1, <2>3, <3>2, <3>4
        <4>2. c.op = "publish" /\ stored[c.on].status = "draft" BY <2>1, <2>3, <3>4, <4>1 DEF TaskEach
        <4>3. Editor!Chosen(stored[c.on].roles) BY <4>1, <4>2 DEF Publishes, HasRoles
        <4>4. QED BY <3>4, <4>2, <4>3
      <3>5. QED BY <1>10, <1>c, <2>3, <3>3, <3>4 DEF SaveEnded
    <2>4. faults' = 0 => faults = 0 BY <1>10, <1>c DEF SaveEnded
    <2>5. ASSUME faults' = 0 PROVE TaskEach'
      <3>1. TaskEach /\ faults = 0 BY <1>b, <2>4, <2>5
      <3>2. shown /\ draft' = None => Fresh BY <2>3, <2>5, <3>1
      <3>3. QED BY <2>1, <3>1, <3>2 DEF TaskEach, Fresh
    <2>6. QED BY <2>1, <2>2, <2>5 DEF Unmixed
  <1>11. QED BY <1>1, <1>2, <1>3, <1>4, <1>5, <1>6, <1>7, <1>8, <1>9, <1>10, DraftingMoves

LEMMA DraftInvariant == Spec => [](area = "drafting" => DraftInv)
  <1>1. Init => (area = "drafting" => DraftInv)
    <2> SUFFICES ASSUME Init PROVE DraftInv OBVIOUS
    <2>1. Editor!Init BY DEF Init
    <2>2. /\ page = 0 /\ shown = FALSE /\ form = Editor!Blank /\ draft = None /\ loading = None
          /\ timer = FALSE /\ run = {} /\ mixed = FALSE /\ calls = 0 /\ faults = 0
          /\ stored = [d \in Drafts |-> [status |-> "none", text |-> Editor!Blank.text, roles |-> Editor!Blank.roles,
                                       page |-> 0]]
          /\ pressed = [d \in Drafts |-> Editor!Blank] BY <2>1 DEF Editor!Init
    <2>3. shown \in BOOLEAN /\ timer \in BOOLEAN /\ mixed \in BOOLEAN BY <2>2
    <2>4. Editor!Blank \in FormType
          /\ [status |-> "none", text |-> Editor!Blank.text, roles |-> Editor!Blank.roles, page |-> 0] \in DraftRow
      BY BlankTyped, DraftingNumbers DEF DraftRow
    <2>5. DraftTypes BY <2>2, <2>3, <2>4, DraftingNumbers DEF DraftTypes
    <2>6. DraftTyped BY <2>2, <2>5, DraftTypesAre
    <2>7. Unmixed BY <2>2 DEF Unmixed, OneSave, PublishedIs, TaskEach
    <2>8. QED BY <2>6, <2>7 DEF DraftInv
  <1>2. (area = "drafting" => DraftInv) /\ [Next]_vars => (area = "drafting" => DraftInv)'
    <2> SUFFICES ASSUME area = "drafting", DraftInv, [Next]_vars PROVE DraftInv' BY DEF Next, vars
    <2>1. CASE Editor!Next
      <3>1. ~ mixed' => ~ mixed
        BY <2>1, DraftingMoves DEF DraftInv, DraftOpened, DraftLoaded, DraftEdited, TimerGone, PageLeft, SaveBegan,
           SaveMoved, SaveCreated, SaveWrote, SaveWent, SaveEnded
      <3>2. QED BY <2>1, <3>1, DraftingTypes, UnmixedStays DEF DraftInv
    <2>2. CASE UNCHANGED DraftVars
      <3>1. UNCHANGED <<page, shown, form, draft, loading, timer, stored, pressed, mixed, run, calls, faults>>
        BY <2>2 DEF DraftVars, drafting
      <3>2. DraftTyped' BY <3>1 DEF DraftInv, DraftTyped, Editor!TypeOK, SaveCall, Editor!Mine
      <3>3. Unmixed => Unmixed'
        BY <3>1 DEF Unmixed, OneSave, Publishes, HasText, HasRoles, PublishedIs, TaskEach, Fresh
      <3>4. QED BY <3>1, <3>2, <3>3 DEF DraftInv
    <2>3. QED BY <2>1, <2>2, DraftingStep
  <1>3. QED BY <1>1, <1>2, PTL DEF Spec

LEMMA DraftsKept ==
  DraftInv => Editor!OneTaskUnlessMixed /\ Editor!SentIsPublishedUnlessMixed
  BY DEF DraftInv, Unmixed, TaskEach, PublishedIs, Editor!OneTaskUnlessMixed, Editor!SentIsPublishedUnlessMixed

\* What the pages of the company and of the worker's market do with requests that overtake each
\* other: one visit makes one task and publishes the title, budget and roles that were shown, the
\* list of tasks shows what was asked for and is right about failures, and the market those of
\* one query (TaskCreatePage.vue, TaskListPage.vue, pages/marketplace/index.tsx).
THEOREM PagesKept == Spec => []DraftsHold
  <1>1. /\ (area = "drafting" => DraftInv) /\ (area = "board" => BoardInv)
        /\ (area = "market" => MarketInv)
        => DraftsHold BY DraftsKept, BoardKept, MarketKept DEF DraftsHold
  <1>2. QED BY <1>1, DraftInvariant, BoardInvariant, MarketInvariant, PTL

------------
(* The bell *)

LEMMA BellStep ==
  ASSUME area = "bell", [Next]_vars PROVE area' = "bell" /\ (Notice!Next \/ UNCHANGED BellVars)
  BY DEF Next, vars, BellVars, bell

LEMMA BellCounts == \A S : Notice!Cardinality(S) = Cardinality(S) BY DEF Notice!Cardinality, Cardinality

LEMMA UnreadCounted ==
  /\ Cardinality(Notes) \in Nat
  /\ Cardinality(Notice!Unread) \in 0..Cardinality(Notes)
  <1>1. Notice!Unread \in SUBSET Notes BY DEF Notice!Unread
  <1>2. /\ IsFiniteSet(Notice!Unread) /\ Cardinality(Notice!Unread) <= Cardinality(Notes)
    BY <1>1, NamesAssumption, FS_Subset
  <1>3. QED BY <1>2, NamesAssumption, FS_CardinalityType

LEMMA BellSends ==
  ASSUME BellTyped, NEW n \in 0..Calls["bell"], NEW op \in {"poll", "list", "mark", "all"},
         NEW todo \in SUBSET {"rows", "unread", "mark", "all"}, NEW on \in SUBSET Notes,
         Notice!Send(n, op, todo, on)
  PROVE  \A h \in run' : BellRequest(h)
  <1>1. PICK new : new = [n |-> n, op |-> op, left |-> todo, items |-> {}, count |-> 0, on |-> on] OBVIOUS
  <1>2. new \in Notice!Request /\ new.count = 0 /\ new.items = {} BY <1>1 DEF Notice!Request
  <1>3. BellRequest(new) BY <1>2, UnreadCounted DEF BellRequest
  <1>4. QED BY <1>1, <1>3 DEF Notice!Send, BellTyped

LEMMA BellServes ==
  ASSUME BellTyped, NEW h \in run, NEW q \in h.left, Notice!Serve(h, q) PROVE BellTyped'
  <1>1. BellRequest(h) /\ h \in Notice!Request BY DEF BellTyped, BellRequest
  <1>2. PICK d : d = [h EXCEPT !.left = @ \ {q}] OBVIOUS
  <1>3. d \in Notice!Request /\ d.count = h.count /\ d.items = h.items BY <1>1, <1>2 DEF Notice!Request
  <1>4. PICK r : r = [d EXCEPT !.items = Notice!Unread \ Applied] OBVIOUS
  <1>5. r \in Notice!Request /\ r.count = h.count /\ r.items = Notice!Unread \ Applied
    BY <1>3, <1>4 DEF Notice!Request, Notice!Unread
  <1>6. PICK u : u = [d EXCEPT !.count = Cardinality(Notice!Unread)] OBVIOUS
  <1>7. u \in Notice!Request /\ u.count = Cardinality(Notice!Unread) /\ u.items = h.items
    BY <1>3, <1>6, UnreadCounted DEF Notice!Request
  <1>8. BellRequest(d) /\ BellRequest(r) /\ BellRequest(u) BY <1>1, <1>3, <1>5, <1>7, UnreadCounted DEF BellRequest
  <1>9. run' \subseteq run \cup {d, r, u}
    <2>1. CASE q = "rows" BY <1>2, <1>4, <2>1 DEF Notice!Serve
    <2>2. CASE q = "unread" BY <1>2, <1>6, <2>2, BellCounts DEF Notice!Serve
    <2>3. CASE q # "rows" /\ q # "unread" BY <1>2, <2>3 DEF Notice!Serve
    <2>4. QED BY <2>1, <2>2, <2>3
  <1>10. note' \in [Notes -> {"none", "unread", "read"}] BY DEF Notice!Serve, BellTyped, Notice!Unread
  <1>11. QED BY <1>8, <1>9, <1>10 DEF BellTyped, Notice!Serve, Notice!bell

LEMMA BellEnds ==
  ASSUME BellTyped, NEW h \in run, Notice!Answer(h) \/ Notice!Fail(h) PROVE BellTyped'
  <1>1. BellRequest(h) /\ h \in Notice!Request /\ run' \subseteq run /\ note' = note /\ calls' = calls
    BY DEF BellTyped, BellRequest, Notice!Answer, Notice!Fail
  <1>2. h.items \subseteq Notes \ Applied /\ h.count \in 0..Cardinality(Notes)
        /\ h.op \in {"poll", "list", "mark", "all"} BY <1>1 DEF BellRequest, Notice!Request
  <1>3. Cardinality(Notes) \in Nat /\ MaxFaults \in Nat BY UnreadCounted, BoundsAssumption
  <1>4. faults' \in 0..MaxFaults
    <2>1. faults' = faults \/ (faults < MaxFaults /\ faults' = faults + 1) BY DEF Notice!Answer, Notice!Fail
    <2>2. QED BY <1>3, <2>1 DEF BellTyped
  <1>5. items' \subseteq Notes \ Applied /\ count' \in 0..Cardinality(Notes)
    <2>1. CASE Notice!Clicked(h.on) BY <2>1, <1>3 DEF Notice!Clicked, BellTyped
    <2>2. CASE Notice!Answer(h) /\ h.op # "mark"
      <3>1. items' \in {items, h.items, {}} /\ count' \in {h.count, 0} BY <1>2, <2>2 DEF Notice!Answer
      <3>2. QED BY <1>2, <1>3, <3>1 DEF BellTyped
    <2>3. CASE Notice!Fail(h) /\ h.op # "mark" BY <1>2, <2>3 DEF Notice!Fail, BellTyped, Notice!bell
    <2>4. CASE h.op = "mark" BY <2>1, <2>4 DEF Notice!Answer, Notice!Fail
    <2>5. QED BY <2>2, <2>3, <2>4
  <1>6. QED BY <1>1, <1>4, <1>5 DEF BellTyped

LEMMA BellInvariant == Spec => [](area = "bell" => BellTyped)
  <1>1. Init => (area = "bell" => BellTyped)
    BY UnreadCounted, BoundsAssumption DEF Init, Notice!Init, BellTyped, Areas
  <1>2. (area = "bell" => BellTyped) /\ [Next]_vars => (area = "bell" => BellTyped)'
    <2> SUFFICES ASSUME area = "bell", BellTyped, [Next]_vars PROVE BellTyped' BY DEF Next, vars
    <2>0. Calls["bell"] \in Nat /\ MaxFaults \in Nat BY BoundsAssumption DEF Areas
    <2>1. ASSUME NEW i \in Notes, Notice!Create(i) PROVE BellTyped' BY <2>1 DEF Notice!Create, Notice!bell, BellTyped
    <2>2. ASSUME Notice!Call, \E op \in {"list", "mark", "all"}, todo \in SUBSET {"rows", "unread", "mark", "all"},
                              on \in SUBSET Notes : Notice!Send(calls', op, todo, on)
          PROVE  BellTyped'
      <3>1. calls' \in 0..Calls["bell"] /\ UNCHANGED <<note, items, count, faults>>
        BY <2>0, <2>2 DEF Notice!Call, BellTyped, Notice!bell
      <3>2. \A h \in run' : BellRequest(h) BY <2>2, <3>1, BellSends
      <3>3. QED BY <3>1, <3>2 DEF BellTyped
    <2>3. CASE Notice!Poll
      <3>1. \A h \in run' : BellRequest(h) BY <2>0, <2>3, BellSends DEF Notice!Poll
      <3>2. QED BY <2>3, <3>1 DEF Notice!Poll, BellTyped, Notice!bell
    <2>4. CASE \E i \in Notes : Notice!Click(i) BY <2>2, <2>4 DEF Notice!Click
    <2>5. CASE Notice!Open \/ Notice!MarkAll BY <2>2, <2>5 DEF Notice!Open, Notice!MarkAll
    <2>6. CASE \E h \in run : Notice!Fail(h) \/ Notice!Answer(h) \/ \E q \in h.left : Notice!Serve(h, q)
      BY <2>6, BellServes, BellEnds
    <2>7. CASE UNCHANGED BellVars BY <2>7 DEF BellVars, BellTyped, BellRequest
    <2>8. QED BY <2>1, <2>3, <2>4, <2>5, <2>6, <2>7, BellStep DEF Notice!Next, Notice!Goes
  <1>3. QED BY <1>1, <1>2, PTL DEF Spec

LEMMA BellKept == BellTyped => Notice!TypeOK BY BellCounts DEF BellTyped, BellRequest, Notice!TypeOK

------------
(* Types *)

LEMMA ProjectRests ==
  ASSUME ProjectTyped, ProjectRest, Plan!Next PROVE ProjectRest'
  <1>0. Calls["project"] \in Nat BY BoundsAssumption DEF Areas
  <1>1. ASSUME NEW op, NEW on \in Milestones \cup {"new", "phase"}, NEW tasks, NEW to,
               Plan!Begin(op, on, tasks, to), UNCHANGED Plan!rows
        PROVE  ProjectRest' BY <1>0, <1>1 DEF Plan!Begin, Plan!rows, ProjectRest
  <1>2. CASE \/ \E to \in Plan!Phases \cup (Plan!ProjectStatus \ {"gone"}) : Plan!StatusRead(to)
             \/ Plan!DeleteRead BY <1>1, <1>2 DEF Plan!StatusRead, Plan!DeleteRead
  <1>3. CASE \E tasks \in SUBSET Tasks :
               \/ Plan!CreateRead(tasks)
               \/ \E m \in Milestones : Plan!RebindRead(m, tasks) BY <1>1, <1>3 DEF Plan!CreateRead, Plan!RebindRead
  <1>4. CASE \E m \in Milestones : Plan!CompleteRead(m) \/ Plan!DropRead(m)
    BY <1>1, <1>4 DEF Plan!CompleteRead, Plan!DropRead
  <1>5. ASSUME NEW t \in Tasks, Plan!Accept(t) PROVE ProjectRest' BY <1>0, <1>5 DEF Plan!Accept, ProjectRest
  <1>6. ASSUME NEW t \in Tasks, \/ Plan!TaskGoesOn(t)
                                \/ \E m \in Milestones \cup {None} : Plan!SaveDraft(t, m)
                                \/ \E in \in BOOLEAN, m \in Milestones \cup {None} :
                                     Plan!CreateTask(t, in, m)
        PROVE  ProjectRest' BY <1>6 DEF Plan!TaskGoesOn, Plan!SaveDraft, Plan!CreateTask, ProjectRest
  <1>7. ASSUME NEW m \in Milestones, Plan!Pass(m) \/ Plan!JobMark(m) PROVE ProjectRest'
    BY <1>7 DEF Plan!Pass, Plan!JobMark, Plan!There, ProjectRest
  <1>8. CASE Plan!JobRead BY <1>8 DEF Plan!JobRead, ProjectRest
  <1>9. ASSUME NEW h \in run,
               \/ Plan!SyncRead(h) \/ Plan!SetWrite(h) \/ Plan!LinkWrite(h)
               \/ Plan!RebindWrite(h) \/ Plan!CompleteWrite(h) \/ Plan!DropWrite(h)
               \/ Plan!DeleteWrite(h) \/ \E m \in Milestones : Plan!CreateWrite(h, m)
        PROVE  ProjectRest'
    <2>1. UNCHANGED <<past, loose, raced, calls>>
      BY <1>9 DEF Plan!SyncRead, Plan!SetWrite, Plan!LinkWrite, Plan!RebindWrite, Plan!CompleteWrite, Plan!DropWrite,
         Plan!DeleteWrite, Plan!CreateWrite, Plan!rows
    <2>2. QED BY <2>1 DEF ProjectRest
  <1>10. QED BY <1>2, <1>3, <1>4, <1>5, <1>6, <1>7, <1>8, <1>9 DEF Plan!Next

LEMMA ReviewRests ==
  ASSUME ReviewTyped, ReviewRest, Review!Next PROVE ReviewRest'
  <1>0. Calls["reviews"] \in Nat /\ MaxFaults \in Nat BY BoundsAssumption DEF Areas
  <1>1. \A h \in run : h.of \in Assignments /\ h.sum \subseteq Assignments BY DEF ReviewTyped, Review!Call
  <1>2. ASSUME NEW a \in Assignments, NEW s \in Review!Sides, Review!Begin(a, s) PROVE ReviewRest'
    <2>1. calls' \in 0..Calls["reviews"] /\ UNCHANGED <<rated, faults>>
      BY <1>0, <1>2 DEF Review!Begin, Review!reviewVars, ReviewRest
    <2>2. raced' \subseteq Assignments
      <3>1. raced' \subseteq raced \cup {a} \cup {h.of : h \in run} BY <1>2 DEF Review!Begin
      <3>2. QED BY <1>1, <3>1 DEF ReviewRest
    <2>3. QED BY <2>1, <2>2 DEF ReviewRest
  <1>3. ASSUME NEW h \in run, Review!LookOther(h) \/ Review!Create(h) \/ Review!Show(h) \/ Review!Sum(h)
        PROVE  ReviewRest'
    <2>1. UNCHANGED <<rated, raced, calls, faults>>
      BY <1>3 DEF Review!LookOther, Review!Create, Review!Show, Review!Sum, Review!reviewVars
    <2>2. QED BY <2>1 DEF ReviewRest
  <1>4. ASSUME NEW h \in run, Review!Rate(h) PROVE ReviewRest' BY <1>1, <1>4 DEF Review!Rate, ReviewRest
  <1>5. ASSUME NEW h \in run, Review!Stop(h) PROVE ReviewRest'
    BY <1>0, <1>1, <1>5 DEF Review!Stop, Review!reviewVars, ReviewRest
  <1>6. QED BY <1>2, <1>3, <1>4, <1>5 DEF Review!Next

\* A number is typed while there is a call left for it.
LEMMA IdentityRests ==
  ASSUME IdentityRest, Identity!Next PROVE IdentityRest'
  <1>0. Calls["identity"] \in Nat BY BoundsAssumption DEF Areas
  <1>1. CASE \E t : Identity!Type(t) BY <1>0, <1>1 DEF Identity!Type, IdentityRest
  <1>2. CASE Identity!verifyIdentity BY <1>0, <1>2 DEF Identity!verifyIdentity, IdentityRest
  <1>3. QED BY <1>1, <1>2 DEF Identity!Next, Identity!TypeRight, Identity!TypeWrong, Identity!TypeSwapped

LEMMA RestsInvariant == Spec => []Rests
  <1>1. Init => Rests
    <2> SUFFICES ASSUME Init PROVE Rests OBVIOUS
    <2>0. area \in Areas => Calls[area] \in Nat /\ MaxFaults \in Nat BY BoundsAssumption
    <2>1. CASE area = "project" BY <2>0, <2>1 DEF Rests, Init, Areas, Plan!Init, ProjectRest
    <2>2. CASE area = "reviews" BY <2>0, <2>2 DEF Rests, Init, Areas, Review!Init, ReviewRest
    <2>3. CASE area = "identity"
      <3>1. card \in IdNumbers /\ typed = << >> /\ held = << >> /\ calls = 0 BY DEF Init, Identity!Init
      <3>2. IdentityInv BY <3>1 DEF IdentityInv
      <3>3. QED BY <2>0, <2>3, <3>1, <3>2 DEF Rests, Areas, IdentityRest
    <2>4. QED BY <2>1, <2>2, <2>3 DEF Rests
  <1>2. /\ Rests /\ [Next]_vars
        /\ (area = "project" => MilestoneInv) /\ (area = "reviews" => ReviewInv)
        => Rests'
    <2> SUFFICES ASSUME Rests, [Next]_vars, area = "project" => MilestoneInv,
                        area = "reviews" => ReviewInv
                 PROVE  Rests' OBVIOUS
    <2>0. area' = area BY DEF Next, vars
    <2>1. CASE UNCHANGED vars
      BY <2>1 DEF vars, projects, reviews, identity, Rests, ProjectRest, ReviewRest, IdentityRest, IdentityInv,
         Slipped, Identity!Right, Identity!Same
    <2>2. CASE Next /\ area = "project" BY <2>0, <2>2, ProjectRests DEF Rests, MilestoneInv, Next
    <2>3. CASE Next /\ area = "reviews" BY <2>0, <2>3, ReviewRests DEF Rests, ReviewInv, Next
    <2>4. CASE Next /\ area = "identity" BY <2>0, <2>4, IdentityRests, IdentityInvStep DEF Rests, Next
    <2>5. QED BY <2>0, <2>1, <2>2, <2>3, <2>4 DEF Rests
  <1>3. QED BY <1>1, <1>2, MilestoneInvariant, ReviewInvariant, PTL DEF Spec

\* Every variable of the service at work ranges over what its module says, whatever the
\* constants are.
THEOREM TypeCorrect == Spec => []TypeOK
  <1> DEFINE OfRows ==
               /\ Rests
               /\ (area = "project" => MilestoneInv) /\ (area = "reviews" => ReviewInv)
               /\ (area = "billing" => BillingInv) /\ (area = "companies" => FirmInv)
             OfWork ==
               /\ (area = "attendance" => DaysInv) /\ (area = "checkpoints" => CheckpointInv)
               /\ (area = "issues" => IssueInv) /\ (area = "watch" => WatchInv)
             OfPeople ==
               /\ (area = "accounts" => AccountInv) /\ (area = "workers" => WorkerInv)
               /\ (area = "catalogue" => SettingsInv) /\ (area = "bell" => BellTyped)
             OfPages ==
               /\ (area = "market" => MarketInv) /\ (area = "board" => BoardInv)
               /\ (area = "advisor" => AdvisorInv) /\ (area = "drafting" => DraftInv)
  <1>1. Rests /\ (area = "project" => MilestoneInv) => (area = "project" => Plan!TypeOK)
    BY DEF Rests, ProjectRest, MilestoneInv, ProjectTyped, Plan!TypeOK
  <1>2. Rests /\ (area = "reviews" => ReviewInv) => (area = "reviews" => Review!TypeOK)
    BY DEF Rests, ReviewRest, ReviewInv, ReviewTyped, Review!TypeOK
  <1>3. Rests => (area = "identity" => Identity!TypeOK) BY DEF Rests, IdentityInv, IdentityRest, Identity!TypeOK
  <1>4. BillingInv => Invoice!TypeOK BY DEF BillingInv, BillingTyped
  <1>5. WorkerInv => Person!TypeOK BY DEF WorkerInv, WorkerTyped
  <1>6. AdvisorInv => Aide!TypeOK
    <2> SUFFICES ASSUME AdvisorInv PROVE Aide!TypeOK OBVIOUS
    <2>1. DOMAIN history = 1..Len(history) /\ run \subseteq Aide!Request
      BY DEF AdvisorInv, AdvisorTyped, AgentMemory, AgentCalls, AgentCall
    <2>2. QED
      BY <2>1 DEF AdvisorInv, AdvisorTyped, AgentRows, AgentRow, AgentMemory, AgentTalk, AgentRest, Aide!TypeOK
  <1>7. DraftInv => Editor!TypeOK BY DEF DraftInv, DraftTyped
  <1>8. OfRows /\ OfWork /\ OfPeople /\ OfPages => TypeOK
    BY <1>1, <1>2, <1>3, <1>4, <1>5, <1>6, <1>7, CompaniesKept, DaysKept, CheckpointsKept, IssuesKept, WatchKept,
       AccountsKept, SettingsKept, BellKept, MarketKept, BoardKept DEF TypeOK
  <1>9. Spec => []OfRows BY RestsInvariant, MilestoneInvariant, ReviewInvariant, BillingInvariant, FirmInvariant, PTL
  <1>10. Spec => []OfWork BY DaysInvariant, CheckpointInvariant, IssueInvariant, WatchInvariant, PTL
  <1>11. Spec => []OfPeople BY AccountInvariant, WorkerInvariant, SettingsInvariant, BellInvariant, PTL
  <1>12. Spec => []OfPages BY MarketInvariant, BoardInvariant, AdvisorInvariant, DraftInvariant, PTL
  <1> HIDE DEF OfRows, OfWork, OfPeople, OfPages
  <1>13. QED BY <1>8, <1>9, <1>10, <1>11, <1>12, PTL

=============================================================================
