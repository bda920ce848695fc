------------------------------ MODULE Chat_proofs ------------------------------
(***************************************************************************)
(* Proofs about Chat, for any conversations, texts and page size and any      *)
(* number of messages, openings and faults.                                 *)
(***************************************************************************)
EXTENDS Chat, FiniteSetTheorems, SequenceTheorems, WellFoundedInduction, TLAPS

-----------------------------------------------------------------------------
(* Lists *)

\* Among some numbers there is a least one.
LEMMA Least ==
  ASSUME NEW T \in SUBSET Nat, T # {}
  PROVE  \E m \in T : \A n \in T : m <= n
  <1>1. PICK m \in T : \A n \in T : <<n, m>> \notin OpToRel(<, Nat)
    BY WFMin, NatLessThanWellFounded, Zenon
  <1>2. \A n \in T : ~ (n < m)
    BY <1>1, Zenon DEF OpToRel
  <1>3. QED
    BY <1>2

\* The places kept are counted from the first: there is one with any number.
LEMMA NthPlace ==
  ASSUME NEW n \in Nat, NEW places \in SUBSET (1..n), NEW j \in 1..Cardinality(places)
  PROVE  \E i \in places : Cardinality({h \in places : h <= i}) = j
  <1> DEFINE Upto(m) == {h \in places : h <= m}
             C(m) == Cardinality(Upto(m))
             Big == {m \in 0..n : C(m) >= j}
  <1>1. IsFiniteSet(places)
    <2>1. IsFiniteSet(1..n)
      BY FS_Interval
    <2>2. QED
      BY <2>1, FS_Subset
  <1>a. \A h \in places : h \in Nat /\ 1 <= h /\ h <= n
    OBVIOUS
  <1>2. \A m : Upto(m) \subseteq places
    OBVIOUS
  <1>3. Upto(n) = places /\ Upto(0) = {}
    <2>1. \A h \in places : h <= n /\ ~ (h <= 0)
      BY <1>a
    <2>2. QED
      BY <2>1
  <1>4. ASSUME NEW m \in Nat, m # 0
        PROVE  /\ m \notin Upto(m - 1)
               /\ m \in places => Upto(m) = Upto(m - 1) \cup {m}
               /\ m \notin places => Upto(m) = Upto(m - 1)
    <2>1. \A h \in places : (h <= m) <=> (h <= m - 1 \/ h = m)
      BY <1>a
    <2>2. ~ (m <= m - 1)
      OBVIOUS
    <2>3. QED
      BY <2>1, <2>2
  <1> HIDE DEF Upto
  <1>6. \A m : IsFiniteSet(Upto(m)) /\ C(m) \in Nat
    BY <1>1, <1>2, FS_Subset, FS_CardinalityType
  <1>7. C(0) = 0 /\ C(n) >= j /\ j \in Nat /\ j > 0
    BY <1>1, <1>3, FS_EmptySet, FS_CardinalityType
  <1>8. PICK m \in Big : \A k \in Big : m <= k
    <2>1. Big \in SUBSET Nat /\ n \in Big
      BY <1>7
    <2> HIDE DEF Big
    <2>2. QED
      BY <2>1, Least
  <1>9. m # 0 /\ m \in Nat /\ m <= n /\ C(m) >= j
    BY <1>7, <1>8
  <1>10. C(m - 1) < j
    <2>1. m - 1 \notin Big /\ m - 1 \in 0..n
      BY <1>8, <1>9
    <2>2. C(m - 1) \in Nat
      BY <1>6
    <2> HIDE DEF C
    <2>3. QED
      BY <1>7, <2>1, <2>2
  <1>11. m \in places
    <2>1. SUFFICES ASSUME m \notin places PROVE C(m) = C(m - 1)
      <3>1. C(m) \in Nat /\ C(m - 1) \in Nat
        BY <1>6
      <3> HIDE DEF C
      <3>2. QED
        BY <3>1, <1>7, <1>9, <1>10
    <2>2. QED
      BY <2>1, <1>4, <1>9
  <1>12. C(m) = C(m - 1) + 1
    BY <1>4, <1>6, <1>9, <1>11, FS_AddElement
  <1>13. C(m) = j
    <2>1. C(m) \in Nat /\ C(m - 1) \in Nat
      BY <1>6
    <2> HIDE DEF C
    <2>2. QED
      BY <2>1, <1>7, <1>9, <1>10, <1>12
  <1>14. QED
    BY <1>11, <1>13 DEF Upto

\* Every element of a filtered list stood at a place of its own that was kept.
LEMMA KeptFrom ==
  ASSUME NEW S, NEW list \in Seq(S), NEW places \in SUBSET DOMAIN list
  PROVE  /\ Kept(list, places) \in Seq(S)
         /\ \E at \in [DOMAIN Kept(list, places) -> places] :
              /\ \A j \in DOMAIN Kept(list, places) : Kept(list, places)[j] = list[at[j]]
              /\ \A i, j \in DOMAIN Kept(list, places) : at[i] = at[j] => i = j
  <1> DEFINE nth(j) == CHOOSE i \in places : Cardinality({h \in places : h <= i}) = j
             n == Cardinality(places)
             at == [j \in 1..n |-> nth(j)]
  <1>1. DOMAIN list = 1..Len(list) /\ Len(list) \in Nat
    BY LenProperties
  <1>2. n \in Nat
    <2>1. IsFiniteSet(1..Len(list))
      BY <1>1, FS_Interval
    <2>2. QED
      BY <1>1, <2>1, FS_Subset, FS_CardinalityType
  <1>3. ASSUME NEW j \in 1..n
        PROVE  nth(j) \in places /\ Cardinality({h \in places : h <= nth(j)}) = j
    <2>1. places \in SUBSET (1..Len(list)) /\ j \in 1..Cardinality(places)
      BY <1>1, <1>3
    <2>2. \E i \in places : Cardinality({h \in places : h <= i}) = j
      BY <1>1, <2>1, NthPlace
    <2>3. QED
      BY <2>2
  <1>4. Kept(list, places) = [j \in 1..n |-> list[nth(j)]]
    BY DEF Kept
  <1> HIDE DEF nth, n
  <1>5. \A i \in places : list[i] \in S
    BY <1>1, ElementOfSeq
  <1>6. Kept(list, places) \in Seq(S)
    <2>1. \A j \in 1..n : list[nth(j)] \in S
      BY <1>3, <1>5
    <2>2. QED
      BY <1>2, <1>4, <2>1, IsASeq
  <1>7. DOMAIN Kept(list, places) = 1..n
    BY <1>4
  <1>8. at \in [1..n -> places]
    BY <1>3
  <1>9. \A j \in 1..n : Kept(list, places)[j] = list[at[j]]
    BY <1>4
  <1>10. \A i, j \in 1..n : at[i] = at[j] => i = j
    BY <1>3
  <1> HIDE DEF at
  <1>11. QED
    BY <1>6, <1>7, <1>8, <1>9, <1>10

\* A list after one more.
LEMMA AppendedTo ==
  ASSUME NEW S, NEW list \in Seq(S), NEW e \in S
  PROVE  /\ Append(list, e) \in Seq(S)
         /\ Len(list) \in Nat /\ DOMAIN list = 1..Len(list)
         /\ DOMAIN Append(list, e) = 1..(Len(list) + 1) /\ Len(Append(list, e)) = Len(list) + 1
         /\ \A i \in 1..Len(list) : Append(list, e)[i] = list[i]
         /\ Append(list, e)[Len(list) + 1] = e
  BY AppendProperties, LenProperties

\* A page is a stretch of the list that ends with the newest the server saw.
LEMMA PageIs ==
  ASSUME NEW c, NEW S, log[c] \in Seq(S), NEW n \in 0..Len(log[c])
  PROVE  /\ Page(c, n) \in Seq(S)
         /\ \E d \in Nat : /\ DOMAIN Page(c, n) = 1..(n - d) /\ d <= n
                           /\ \A i \in 1..(n - d) : Page(c, n)[i] = log[c][i + d]
  <1> DEFINE d == IF n > PageSize THEN n - PageSize ELSE 0
  <1>1. PageSize \in Nat /\ PageSize > 0 /\ Len(log[c]) \in Nat
    BY PageAssumption, LenProperties
  <1>2. d \in Nat /\ d <= n /\ Page(c, n) = SubSeq(log[c], d + 1, n)
    BY <1>1 DEF Page
  <1> HIDE DEF d
  <1>3. d + 1 \in 1..(Len(log[c]) + 1) /\ n \in (d + 1) - 1 .. Len(log[c])
    BY <1>1, <1>2
  <1>4. /\ Page(c, n) \in Seq(S) /\ Len(Page(c, n)) = n - (d + 1) + 1
        /\ \A i \in 1..(n - (d + 1) + 1) : Page(c, n)[i] = log[c][(d + 1) + i - 1]
    BY <1>2, <1>3, SubSeqProperties
  <1>5. n - (d + 1) + 1 = n - d /\ \A i \in 1..(n - d) : (d + 1) + i - 1 = i + d
    BY <1>2
  <1>6. DOMAIN Page(c, n) = 1..(n - d)
    BY <1>4, <1>5, LenProperties
  <1>7. \A i \in 1..(n - d) : Page(c, n)[i] = log[c][i + d]
    BY <1>4, <1>5
  <1>8. QED
    BY <1>2, <1>4, <1>6, <1>7

-----------------------------------------------------------------------------
(* The inductive invariant *)

\* The types, with what they do not say: how many messages there are, and that a
\* request does not see more of them than there are.
Typed ==
  /\ TypeOK
  /\ Len(sent) <= MaxSends
  /\ \A r \in net : r.seen <= Len(log[r.of])

\* A stored message was sent to the conversation it is in, stands there once and has
\* been read by who sent it.
Written ==
  \A c \in Convs : \A i \in DOMAIN log[c] :
    LET k == log[c][i]
    IN /\ k \in Calls /\ sent[k].to = c /\ sent[k].by \in readBy[k]
       /\ \A j \in DOMAIN log[c] : log[c][j] = k => i = j

\* What a list on its way back holds has been marked as read.
Marked ==
  \A r \in net : r.seen # -1 /\ r.kind # "open" =>
    \A k \in Numbers(Page(r.of, r.seen)) : r.by \in readBy[k]

\* A list that a side may show: every message once, a stored one that the side has
\* read, the others its own.
Good(s, list) ==
  \A i \in DOMAIN list :
    LET k == list[i].call
    IN /\ k \in Calls
       /\ IF list[i].stored THEN Stored(k) /\ s \in readBy[k] ELSE sent[k].by = s
       /\ \A j \in DOMAIN list : list[j].call = k => i = j

Lists == \A s \in Sides : Good(s, scr[s].shown)

ReadInv == Typed /\ Written /\ Marked /\ Lists

\* A side that never changed its title during a request has opened, fetches, asks for
\* and shows the conversation under its title.
Settled(s) ==
  /\ scr[s].target \in {None, scr[s].title} /\ scr[s].timer \in {None, scr[s].title}
  /\ \A r \in net : r.by = s => r.of = scr[s].title
  /\ scr[s].title # None =>
       \A i \in DOMAIN scr[s].shown : sent[scr[s].shown[i].call].to = scr[s].title
  /\ \A k \in Calls : sent[k].by = s => sent[k].to = sent[k].title

TitleInv == \A s \in Sides \ raced : Settled(s)

-----------------------------------------------------------------------------
(* What every step keeps *)

\* What the types say of each variable.
LEMMA Basics ==
  ASSUME Typed
  PROVE  /\ \A c \in Convs : /\ log[c] \in Seq(1..MaxSends) /\ Len(log[c]) \in Nat
                             /\ DOMAIN log[c] = 1..Len(log[c])
                             /\ \A i \in DOMAIN log[c] : log[c][i] \in 1..MaxSends
         /\ Len(sent) \in Nat /\ Calls = 1..Len(sent) /\ Calls \subseteq 1..MaxSends
         /\ \A k \in Calls : /\ sent[k].by \in Sides /\ sent[k].to \in Convs
                             /\ sent[k].title \in Convs \cup {None}
         /\ \A s \in Sides : /\ scr[s].title \in Convs \cup {None}
                             /\ scr[s].target \in Convs \cup {None}
                             /\ scr[s].timer \in Convs \cup {None}
                             /\ scr[s].shown \in Seq(Bubble)
         /\ \A r \in net : /\ r.by \in Sides /\ r.kind \in Kinds /\ r.of \in Convs
                           /\ r.seen \in Nat \cup {-1} /\ r.seen <= Len(log[r.of])
  <1>1. TypeOK /\ MaxSends \in Nat
    BY BoundsAssumption DEF Typed
  <1>2. ASSUME NEW c \in Convs
        PROVE  /\ log[c] \in Seq(1..MaxSends) /\ Len(log[c]) \in Nat
               /\ DOMAIN log[c] = 1..Len(log[c])
               /\ \A i \in DOMAIN log[c] : log[c][i] \in 1..MaxSends
    <2>1. log[c] \in Seq(1..MaxSends)
      BY <1>1 DEF TypeOK
    <2>2. QED
      BY <2>1, LenProperties, ElementOfSeq
  <1> DEFINE Call == [by: Sides, to: Convs, title: Convs \cup {None}, text: Texts,
                      answer: {"pending", "ok", "failed", "lost"}]
  <1>3. sent \in Seq(Call)
    BY <1>1 DEF TypeOK
  <1>4. Len(sent) \in Nat /\ Calls = 1..Len(sent) /\ \A k \in Calls : sent[k] \in Call
    <2> HIDE DEF Call
    <2>1. QED
      BY <1>3, LenProperties, ElementOfSeq DEF Calls
  <1>5. Calls \subseteq 1..MaxSends
    BY <1>1, <1>4 DEF Typed
  <1>6. \A s \in Sides : scr[s] \in Screen
    BY <1>1 DEF TypeOK
  <1>7. \A r \in net : r \in Read /\ r.seen <= Len(log[r.of])
    BY <1>1 DEF TypeOK, Typed
  <1>8. QED
    BY <1>2, <1>4, <1>5, <1>6, <1>7 DEF Screen, Read

\* Calls, messages and the marks of who has read them stay.
Grown ==
  /\ \A k \in Calls : /\ k \in Calls' /\ sent'[k].by = sent[k].by /\ sent'[k].to = sent[k].to
                      /\ sent'[k].title = sent[k].title
  /\ \A c \in Convs : \A i \in DOMAIN log[c] : i \in DOMAIN log'[c] /\ log'[c][i] = log[c][i]
  /\ \A k \in 1..MaxSends : Stored(k) => readBy[k] \subseteq readBy'[k]

\* Which handlers change which variable.
LEMMA Changes ==
  ASSUME [Next]_vars
  PROVE  /\ log' = log \/ \E k \in Calls : Store(k)
         /\ readBy' = readBy \/ (\E k \in Calls : Store(k)) \/ (\E r \in net : Serve(r))
         /\ \/ sent' = sent
            \/ \E s \in Sides, text \in Texts : Send(s, text)
            \/ \E k \in Calls : SendOk(k) \/ SendFail(k)
  BY DEF Next, vars, OpenPanel, OpenPage, Opening, ClosePage, ShowAgain, Tick, Send, Serve,
         AnswerOpen, AnswerList, FailRead, Store, SendOk, SendFail

\* A call more, and a call with another answer.
LEMMA SentMore ==
  ASSUME Typed, NEW s \in Sides, NEW text \in Texts, Send(s, text)
  PROVE  LET k == Len(sent) + 1
         IN /\ k \notin Calls /\ k \in 1..MaxSends /\ Calls' = Calls \cup {k} /\ Len(sent') = k
            /\ \A j \in Calls : sent'[j] = sent[j]
            /\ sent'[k].by = s /\ sent'[k].title = scr[s].title
            /\ sent'[k].to = IF s = "company" THEN scr[s].target ELSE scr[s].title
            /\ sent'[k].to \in Convs
            /\ sent' \in Seq([by: Sides, to: Convs, title: Convs \cup {None}, text: Texts,
                              answer: {"pending", "ok", "failed", "lost"}])
  <1> DEFINE Call == [by: Sides, to: Convs, title: Convs \cup {None}, text: Texts,
                      answer: {"pending", "ok", "failed", "lost"}]
             to == IF s = "company" THEN scr[s].target ELSE scr[s].title
             new == [by |-> s, to |-> to, title |-> scr[s].title, text |-> text,
                     answer |-> "pending"]
  <1>1. sent' = Append(sent, new) /\ to # None /\ Len(sent) + 1 <= MaxSends
    BY DEF Send
  <1>2. /\ Len(sent) \in Nat /\ Calls = 1..Len(sent)
        /\ scr[s].title \in Convs \cup {None} /\ scr[s].target \in Convs \cup {None}
    BY Basics
  <1>3. sent \in Seq(Call)
    BY DEF Typed, TypeOK
  <1>4. to \in Convs
    BY <1>1, <1>2
  <1>5. new \in Call
    BY <1>2, <1>4
  <1>6. new.by = s /\ new.title = scr[s].title /\ new.to = to
    OBVIOUS
  <1> HIDE DEF Call, new, to
  <1>7. /\ sent' \in Seq(Call) /\ Len(sent') = Len(sent) + 1
        /\ DOMAIN sent' = 1..(Len(sent) + 1)
        /\ \A i \in 1..Len(sent) : sent'[i] = sent[i]
        /\ sent'[Len(sent) + 1] = new
    BY <1>1, <1>3, <1>5, AppendedTo
  <1>8. MaxSends \in Nat
    BY BoundsAssumption
  <1>9. Calls' = 1..(Len(sent) + 1)
    BY <1>7 DEF Calls
  <1>10. QED
    BY <1>1, <1>2, <1>4, <1>6, <1>7, <1>8, <1>9 DEF Call, to

LEMMA AnsweredOnly ==
  ASSUME Typed, NEW k \in Calls, NEW a \in {"ok", "failed", "lost"},
         sent' = [sent EXCEPT ![k].answer = a]
  PROVE  /\ Calls' = Calls /\ Len(sent') = Len(sent)
         /\ \A j \in Calls : /\ sent'[j].by = sent[j].by /\ sent'[j].to = sent[j].to
                             /\ sent'[j].title = sent[j].title
         /\ sent' \in Seq([by: Sides, to: Convs, title: Convs \cup {None}, text: Texts,
                           answer: {"pending", "ok", "failed", "lost"}])
  <1> DEFINE Call == [by: Sides, to: Convs, title: Convs \cup {None}, text: Texts,
                      answer: {"pending", "ok", "failed", "lost"}]
             new == [sent[k] EXCEPT !.answer = a]
  <1>1. sent \in Seq(Call) /\ Len(sent) \in Nat /\ Calls = 1..Len(sent)
    BY Basics DEF Typed, TypeOK
  <1>2. sent[k] \in Call
    BY <1>1, ElementOfSeq
  <1>3. /\ new \in Call /\ new.by = sent[k].by /\ new.to = sent[k].to
        /\ new.title = sent[k].title
    BY <1>2
  <1>4. sent' = [sent EXCEPT ![k] = new]
    OBVIOUS
  <1> HIDE DEF Call, new
  <1>5. sent' \in Seq(Call) /\ Len(sent') = Len(sent) /\ DOMAIN sent' = DOMAIN sent
    BY <1>1, <1>3, <1>4, ExceptSeq
  <1>6. \A j \in Calls : sent'[j] = IF j = k THEN new ELSE sent[j]
    BY <1>4 DEF Calls
  <1>7. QED
    BY <1>3, <1>5, <1>6 DEF Calls, Call

\* One message more in one conversation.
LEMMA StoredMore ==
  ASSUME Typed, NEW k \in Calls, Store(k)
  PROVE  LET c == sent[k].to
         IN /\ c \in Convs /\ log' \in [Convs -> Seq(1..MaxSends)]
            /\ \A d \in Convs : d # c => log'[d] = log[d]
            /\ DOMAIN log'[c] = 1..(Len(log[c]) + 1) /\ Len(log'[c]) = Len(log[c]) + 1
            /\ \A i \in DOMAIN log[c] : log'[c][i] = log[c][i]
            /\ log'[c][Len(log[c]) + 1] = k
            /\ readBy' = [readBy EXCEPT ![k] = {sent[k].by}]
  <1>1. sent[k].to \in Convs /\ k \in 1..MaxSends
    BY Basics
  <1>2. log[sent[k].to] \in Seq(1..MaxSends) /\ log \in [Convs -> Seq(1..MaxSends)]
    BY <1>1, Basics DEF Typed, TypeOK
  <1>3. log' = [log EXCEPT ![sent[k].to] = Append(log[sent[k].to], k)]
    BY DEF Store
  <1>4. log'[sent[k].to] = Append(log[sent[k].to], k)
    BY <1>1, <1>2, <1>3
  <1>5. \A d \in Convs : d # sent[k].to => log'[d] = log[d]
    BY <1>2, <1>3
  <1>6. /\ Append(log[sent[k].to], k) \in Seq(1..MaxSends)
        /\ DOMAIN log[sent[k].to] = 1..Len(log[sent[k].to])
        /\ DOMAIN log'[sent[k].to] = 1..(Len(log[sent[k].to]) + 1)
        /\ Len(log'[sent[k].to]) = Len(log[sent[k].to]) + 1
        /\ \A i \in 1..Len(log[sent[k].to]) : log'[sent[k].to][i] = log[sent[k].to][i]
        /\ log'[sent[k].to][Len(log[sent[k].to]) + 1] = k
    BY <1>1, <1>2, <1>4, AppendedTo
  <1>7. log' \in [Convs -> Seq(1..MaxSends)]
    BY <1>2, <1>3, <1>6
  <1>8. readBy' = [readBy EXCEPT ![k] = {sent[k].by}]
    BY DEF Store
  <1>9. QED
    BY <1>1, <1>5, <1>6, <1>7, <1>8

LEMMA GrownStep ==
  ASSUME Typed, [Next]_vars
  PROVE  Grown
  <1>1. ASSUME NEW k \in Calls
        PROVE  /\ k \in Calls' /\ sent'[k].by = sent[k].by /\ sent'[k].to = sent[k].to
               /\ sent'[k].title = sent[k].title
    <2>1. CASE sent' = sent
      BY <2>1 DEF Calls
    <2>2. ASSUME NEW s \in Sides, NEW text \in Texts, Send(s, text)
          PROVE  k \in Calls' /\ sent'[k] = sent[k]
      BY <2>2, SentMore
    <2>3. ASSUME NEW j \in Calls, SendOk(j) \/ SendFail(j)
          PROVE  /\ k \in Calls' /\ sent'[k].by = sent[k].by /\ sent'[k].to = sent[k].to
                 /\ sent'[k].title = sent[k].title
      <3>1. PICK a \in {"ok", "failed", "lost"} : sent' = [sent EXCEPT ![j].answer = a]
        BY <2>3 DEF SendOk, SendFail
      <3>2. QED
        BY <3>1, AnsweredOnly
    <2>4. QED
      BY <2>1, <2>2, <2>3, Changes
  <1>2. ASSUME NEW c \in Convs, NEW i \in DOMAIN log[c]
        PROVE  i \in DOMAIN log'[c] /\ log'[c][i] = log[c][i]
    <2>1. CASE log' = log
      BY <2>1
    <2>2. ASSUME NEW k \in Calls, Store(k)
          PROVE  i \in DOMAIN log'[c] /\ log'[c][i] = log[c][i]
      BY <2>2, StoredMore, Basics
    <2>3. QED
      BY <2>1, <2>2, Changes
  <1>3. ASSUME NEW k \in 1..MaxSends, Stored(k)
        PROVE  readBy[k] \subseteq readBy'[k]
    <2>1. CASE readBy' = readBy
      BY <2>1
    <2>2. ASSUME NEW j \in Calls, Store(j)
          PROVE  readBy[k] \subseteq readBy'[k]
      <3>1. j # k /\ readBy' = [readBy EXCEPT ![j] = {sent[j].by}]
        BY <1>3, <2>2 DEF Store
      <3>2. QED
        BY <3>1 DEF Typed, TypeOK
    <2>3. ASSUME NEW r \in net, Serve(r)
          PROVE  readBy[k] \subseteq readBy'[k]
      BY <2>3 DEF Serve
    <2>4. QED
      BY <2>1, <2>2, <2>3, Changes
  <1>4. QED
    BY <1>1, <1>2, <1>3 DEF Grown

-----------------------------------------------------------------------------
(* What a side shows *)

\* Whether a message is stored, and a list that a side may show, after the step.
StoredNext(k) == \E c \in Convs : k \in Numbers(log'[c])

GoodNext(s, list) ==
  \A i \in DOMAIN list :
    LET k == list[i].call
    IN /\ k \in Calls'
       /\ IF list[i].stored THEN StoredNext(k) /\ s \in readBy'[k] ELSE sent'[k].by = s
       /\ \A j \in DOMAIN list : list[j].call = k => i = j

LEMMA StoredLasts ==
  ASSUME Grown, NEW k, Stored(k)
  PROVE  StoredNext(k)
  BY DEF Grown, Stored, StoredNext, Numbers

LEMMA GoodLasts ==
  ASSUME Typed, Grown, NEW s, NEW list, Good(s, list)
  PROVE  GoodNext(s, list)
  <1>1. SUFFICES ASSUME NEW i \in DOMAIN list
                 PROVE  LET k == list[i].call
                        IN /\ k \in Calls'
                           /\ IF list[i].stored THEN StoredNext(k) /\ s \in readBy'[k]
                                                ELSE sent'[k].by = s
                           /\ \A j \in DOMAIN list : list[j].call = k => i = j
    BY DEF GoodNext
  <1> DEFINE k == list[i].call
  <1>2. /\ k \in Calls
        /\ IF list[i].stored THEN Stored(k) /\ s \in readBy[k] ELSE sent[k].by = s
        /\ \A j \in DOMAIN list : list[j].call = k => i = j
    BY <1>1 DEF Good
  <1>3. k \in 1..MaxSends
    BY <1>2, Basics
  <1>4. k \in Calls' /\ sent'[k].by = sent[k].by
    BY <1>2 DEF Grown
  <1>5. Stored(k) => readBy[k] \subseteq readBy'[k]
    BY <1>3 DEF Grown
  <1>6. Stored(k) => StoredNext(k)
    BY StoredLasts
  <1> HIDE DEF k
  <1>7. QED
    BY <1>2, <1>4, <1>5, <1>6 DEF k

\* A page that has been served holds every message once, all of them stored.
LEMMA PageHolds ==
  ASSUME Typed, Written, NEW r \in net, r.seen # -1
  PROVE  LET page == Page(r.of, r.seen)
         IN /\ page \in Seq(1..MaxSends)
            /\ \A i \in DOMAIN page : /\ page[i] \in Calls /\ Stored(page[i])
                                      /\ sent[page[i]].to = r.of
                                      /\ \A j \in DOMAIN page : page[j] = page[i] => i = j
  <1>1. /\ r.of \in Convs /\ r.seen \in 0..Len(log[r.of])
        /\ log[r.of] \in Seq(1..MaxSends) /\ DOMAIN log[r.of] = 1..Len(log[r.of])
        /\ Len(log[r.of]) \in Nat
    BY Basics
  <1> DEFINE page == Page(r.of, r.seen)
  <1>2. page \in Seq(1..MaxSends)
    BY <1>1, PageIs
  <1>3. PICK d \in Nat : /\ DOMAIN page = 1..(r.seen - d) /\ d <= r.seen
                         /\ \A i \in 1..(r.seen - d) : page[i] = log[r.of][i + d]
    BY <1>1, PageIs
  <1> HIDE DEF page
  <1>4. ASSUME NEW i \in DOMAIN page
        PROVE  i \in Int /\ i + d \in DOMAIN log[r.of] /\ page[i] = log[r.of][i + d]
    BY <1>1, <1>3
  <1>5. ASSUME NEW i \in DOMAIN page
        PROVE  page[i] \in Calls /\ Stored(page[i]) /\ sent[page[i]].to = r.of
    BY <1>1, <1>4 DEF Written, Stored, Numbers
  <1>6. ASSUME NEW i \in DOMAIN page, NEW j \in DOMAIN page, page[j] = page[i]
        PROVE  i = j
    <2>1. i + d = j + d
      BY <1>1, <1>4, <1>6 DEF Written
    <2>2. QED
      BY <1>4, <2>1
  <1>7. QED
    BY <1>2, <1>5, <1>6 DEF page

\* It may be shown by the side that asked for it.
LEMMA StoredIsGood ==
  ASSUME Typed, Written, Marked, NEW r \in net, r.seen # -1, r.kind # "open"
  PROVE  LET list == AsStored(Page(r.of, r.seen))
         IN /\ list \in Seq(Bubble) /\ Good(r.by, list)
            /\ DOMAIN list = DOMAIN Page(r.of, r.seen)
            /\ \A i \in DOMAIN list : list[i] = [call |-> Page(r.of, r.seen)[i], stored |-> TRUE]
  <1> DEFINE page == Page(r.of, r.seen)
             list == AsStored(page)
  <1>1. /\ page \in Seq(1..MaxSends)
        /\ \A i \in DOMAIN page : /\ page[i] \in Calls /\ Stored(page[i])
                                  /\ \A j \in DOMAIN page : page[j] = page[i] => i = j
    BY PageHolds
  <1>2. \A i \in DOMAIN page : r.by \in readBy[page[i]]
    BY DEF Marked, Numbers
  <1> HIDE DEF page
  <1>3. DOMAIN page = 1..Len(page) /\ Len(page) \in Nat
    BY <1>1, LenProperties
  <1>4. /\ DOMAIN list = DOMAIN page
        /\ \A i \in DOMAIN list : list[i] = [call |-> page[i], stored |-> TRUE]
    BY DEF AsStored
  <1>5. list \in Seq(Bubble)
    <2>1. \A i \in 1..Len(page) : [call |-> page[i], stored |-> TRUE] \in Bubble
      BY <1>1, <1>3, ElementOfSeq DEF Bubble
    <2>2. QED
      BY <1>3, <2>1, IsASeq DEF AsStored
  <1> HIDE DEF list
  <1>6. Good(r.by, list)
    BY <1>1, <1>2, <1>4 DEF Good
  <1>7. QED
    BY <1>4, <1>5, <1>6 DEF list, page

\* A filtered list may be shown if the list may.
LEMMA KeptIsGood ==
  ASSUME NEW s, NEW list \in Seq(Bubble), Good(s, list), NEW places \in SUBSET DOMAIN list
  PROVE  /\ Kept(list, places) \in Seq(Bubble) /\ Good(s, Kept(list, places))
         /\ \A j \in DOMAIN Kept(list, places) : \E i \in places : Kept(list, places)[j] = list[i]
  <1> DEFINE kept == Kept(list, places)
  <1>1. kept \in Seq(Bubble)
    BY KeptFrom
  <1>2. PICK at \in [DOMAIN kept -> places] :
          /\ \A j \in DOMAIN kept : kept[j] = list[at[j]]
          /\ \A i, j \in DOMAIN kept : at[i] = at[j] => i = j
    BY KeptFrom
  <1> HIDE DEF kept
  <1>3. Good(s, kept)
    BY <1>2 DEF Good
  <1>4. QED
    BY <1>1, <1>2, <1>3 DEF kept

\* The panel: none of the bubbles it keeps is in the list it has got.
LEMMA MergeIsGood ==
  ASSUME Typed, Written, Marked, NEW r \in net, r.seen # -1, r.kind # "open",
         NEW shown \in Seq(Bubble), Good(r.by, shown)
  PROVE  LET page == Page(r.of, r.seen)
             all == Merge(page, shown)
         IN /\ all \in Seq(Bubble) /\ Good(r.by, all)
            /\ \A i \in DOMAIN all : \/ \E j \in DOMAIN page : all[i].call = page[j]
                                     \/ \E j \in DOMAIN shown : all[i] = shown[j]
  <1> DEFINE page == Page(r.of, r.seen)
             answered(k) == \E j \in Numbers(page) : sent[j].text = sent[k].text /\ sent[j].by = sent[k].by
             places == {i \in DOMAIN shown : ~shown[i].stored /\ ~answered(shown[i].call)}
             list == AsStored(page)
             kept == Kept(shown, places)
             all == list \o kept
  <1>1. /\ list \in Seq(Bubble) /\ Good(r.by, list) /\ DOMAIN list = DOMAIN page
        /\ \A i \in DOMAIN list : list[i] = [call |-> page[i], stored |-> TRUE]
    BY StoredIsGood
  <1>2. /\ kept \in Seq(Bubble) /\ Good(r.by, kept)
        /\ \A j \in DOMAIN kept : \E i \in places : kept[j] = shown[i]
    <2>1. places \in SUBSET DOMAIN shown
      OBVIOUS
    <2> HIDE DEF places
    <2>2. QED
      BY <2>1, KeptIsGood
  <1>3. Merge(page, shown) = all
    BY DEF Merge
  <1>4. ASSUME NEW i \in DOMAIN list, NEW j \in DOMAIN kept
        PROVE  list[i].call # kept[j].call
    <2>1. PICK h \in places : kept[j] = shown[h]
      BY <1>2
    <2>2. ~answered(kept[j].call)
      BY <2>1
    <2>3. list[i].call \in Numbers(page)
      <3> HIDE DEF page, list
      <3>1. i \in DOMAIN page /\ list[i] = [call |-> page[i], stored |-> TRUE]
        BY <1>1
      <3>2. QED
        BY <3>1 DEF Numbers
    <2>4. QED
      BY <2>2, <2>3
  <1>5. \A j \in DOMAIN kept : \E h \in DOMAIN shown : kept[j] = shown[h]
    BY <1>2
  <1> HIDE DEF list, kept, page
  <1>6. /\ all \in Seq(Bubble) /\ Len(all) = Len(list) + Len(kept)
        /\ Len(list) \in Nat /\ Len(kept) \in Nat
        /\ DOMAIN list = 1..Len(list) /\ DOMAIN kept = 1..Len(kept)
        /\ DOMAIN all = 1..(Len(list) + Len(kept))
        /\ \A i \in 1..(Len(list) + Len(kept)) :
             all[i] = IF i <= Len(list) THEN list[i] ELSE kept[i - Len(list)]
    BY <1>1, <1>2, ConcatProperties, LenProperties
  <1> HIDE DEF all
  <1>7. ASSUME NEW i \in DOMAIN all
        PROVE  \/ i \in DOMAIN list /\ all[i] = list[i]
               \/ i > Len(list) /\ i - Len(list) \in DOMAIN kept /\ all[i] = kept[i - Len(list)]
    BY <1>6
  <1>8. ASSUME NEW i \in DOMAIN all, NEW j \in DOMAIN all, all[j].call = all[i].call
        PROVE  i = j
    <2>1. CASE i \in DOMAIN list /\ j \in DOMAIN list /\ all[i] = list[i] /\ all[j] = list[j]
      BY <2>1, <1>1, <1>8 DEF Good
    <2>2. CASE /\ i - Len(list) \in DOMAIN kept /\ j - Len(list) \in DOMAIN kept
               /\ all[i] = kept[i - Len(list)] /\ all[j] = kept[j - Len(list)]
      <3>1. i - Len(list) = j - Len(list)
        BY <2>2, <1>2, <1>8 DEF Good
      <3>2. QED
        BY <3>1, <1>6
    <2>3. QED
      BY <1>4, <1>7, <1>8, <2>1, <2>2
  <1>9. Good(r.by, all)
    <2>1. SUFFICES ASSUME NEW i \in DOMAIN all
                   PROVE  /\ all[i].call \in Calls
                          /\ IF all[i].stored THEN Stored(all[i].call) /\ r.by \in readBy[all[i].call]
                                              ELSE sent[all[i].call].by = r.by
      BY <1>8 DEF Good
    <2>2. QED
      BY <1>1, <1>2, <1>7 DEF Good
  <1>10. \A i \in DOMAIN all : \/ \E j \in DOMAIN page : all[i].call = page[j]
                               \/ \E j \in DOMAIN shown : all[i] = shown[j]
    BY <1>1, <1>5, <1>7
  <1>11. QED
    BY <1>3, <1>6, <1>9, <1>10 DEF page

\* What happens to the list of a side.
LEMMA ListChanges ==
  ASSUME Typed, [Next]_vars, NEW s \in Sides
  PROVE  \/ scr'[s].shown = scr[s].shown
         \/ scr'[s].shown = << >>
         \/ \E r \in net : AnswerList(r) /\ r.by = s /\ scr'[s].shown = Shows(s, Page(r.of, r.seen))
         \/ \E text \in Texts :
              /\ Send(s, text)
              /\ scr'[s].shown = Append(scr[s].shown, [call |-> Len(sent) + 1, stored |-> FALSE])
         \/ \E k \in Calls : /\ SendOk(k) /\ sent[k].by = s
                             /\ scr'[s].shown = [i \in DOMAIN scr[s].shown |->
                                  IF scr[s].shown[i].call = k THEN [call |-> k, stored |-> TRUE]
                                                              ELSE scr[s].shown[i]]
         \/ \E k \in Calls : scr'[s].shown = Kept(scr[s].shown, {i \in DOMAIN scr[s].shown :
                               scr[s].shown[i].stored \/ scr[s].shown[i].call # k})
  <1>1. scr \in [Sides -> Screen]
    BY DEF Typed, TypeOK
  <1>2. \A x \in Sides : \A f : [scr EXCEPT ![x].shown = f][s].shown = IF x = s THEN f ELSE scr[s].shown
    BY <1>1
  <1>3. CASE scr' = scr
    BY <1>3
  <1>4. ASSUME NEW c \in Convs, OpenPanel(c) \/ OpenPage(c)
        PROVE  scr'[s].shown = scr[s].shown \/ scr'[s].shown = << >>
    BY <1>1, <1>4 DEF OpenPanel, OpenPage, Blank, Screen
  <1>5. CASE ClosePage
    BY <1>1, <1>5 DEF ClosePage, Blank, Screen
  <1>6. ASSUME NEW r \in net, AnswerOpen(r) \/ FailRead(r)
        PROVE  scr'[s].shown = scr[s].shown \/ scr'[s].shown = << >>
    <2>1. r.by \in Sides
      BY Basics
    <2>2. QED
      BY <1>1, <1>6, <2>1 DEF AnswerOpen, FailRead, Screen
  <1>7. ASSUME NEW r \in net, AnswerList(r)
        PROVE  \/ scr'[s].shown = scr[s].shown
               \/ r.by = s /\ scr'[s].shown = Shows(s, Page(r.of, r.seen))
    <2>1. r.by \in Sides
      BY Basics
    <2>2. QED
      BY <1>1, <1>7, <2>1 DEF AnswerList, Screen
  <1>8. ASSUME NEW x \in Sides, NEW text \in Texts, Send(x, text)
        PROVE  \/ scr'[s].shown = scr[s].shown
               \/ /\ Send(s, text)
                  /\ scr'[s].shown = Append(scr[s].shown, [call |-> Len(sent) + 1, stored |-> FALSE])
    <2>1. scr' = [scr EXCEPT ![x].shown = Append(scr[x].shown, [call |-> Len(sent) + 1, stored |-> FALSE])]
      BY <1>8 DEF Send
    <2>2. QED
      BY <1>2, <1>8, <2>1
  <1>9. ASSUME NEW k \in Calls, SendOk(k)
        PROVE  \/ scr'[s].shown = scr[s].shown
               \/ /\ SendOk(k) /\ sent[k].by = s
                  /\ scr'[s].shown = [i \in DOMAIN scr[s].shown |->
                       IF scr[s].shown[i].call = k THEN [call |-> k, stored |-> TRUE]
                                                   ELSE scr[s].shown[i]]
    <2> DEFINE by == sent[k].by
               new == [i \in DOMAIN scr[by].shown |->
                         IF scr[by].shown[i].call = k THEN [call |-> k, stored |-> TRUE]
                                                      ELSE scr[by].shown[i]]
    <2>1. by \in Sides
      BY Basics
    <2>2. scr' = [scr EXCEPT ![by].shown = new]
      BY <1>9 DEF SendOk
    <2>3. scr'[s].shown = IF by = s THEN new ELSE scr[s].shown
      <3> HIDE DEF by, new
      <3>1. QED
        BY <1>2, <2>1, <2>2
    <2>4. QED
      BY <1>9, <2>3
  <1>10. ASSUME NEW k \in Calls, SendFail(k)
         PROVE  \/ scr'[s].shown = scr[s].shown
                \/ scr'[s].shown = Kept(scr[s].shown, {i \in DOMAIN scr[s].shown :
                                     scr[s].shown[i].stored \/ scr[s].shown[i].call # k})
    <2> DEFINE by == sent[k].by
               new == Kept(scr[by].shown, {i \in DOMAIN scr[by].shown :
                        scr[by].shown[i].stored \/ scr[by].shown[i].call # k})
    <2>1. by \in Sides
      BY Basics
    <2>2. scr' = [scr EXCEPT ![by].shown = new]
      BY <1>10 DEF SendFail
    <2>3. scr'[s].shown = IF by = s THEN new ELSE scr[s].shown
      <3> HIDE DEF by, new
      <3>1. QED
        BY <1>2, <2>1, <2>2
    <2>4. QED
      BY <2>3
  <1>11. QED
    BY <1>3, <1>4, <1>5, <1>6, <1>7, <1>8, <1>9, <1>10
       DEF Next, vars, Tick, ShowAgain, Serve, Store

\* Whatever the step, it is one that the side may show.
LEMMA ListStep ==
  ASSUME ReadInv, [Next]_vars, NEW s \in Sides
  PROVE  scr'[s].shown \in Seq(Bubble) /\ GoodNext(s, scr'[s].shown)
  <1>1. Typed /\ Written /\ Marked /\ Grown
    BY GrownStep DEF ReadInv
  <1> DEFINE shown == scr[s].shown
             new == scr'[s].shown
  <1>2. shown \in Seq(Bubble) /\ Good(s, shown)
    BY <1>1, Basics DEF ReadInv, Lists
  <1>3. /\ DOMAIN shown = 1..Len(shown) /\ Len(shown) \in Nat
        /\ \A i \in DOMAIN shown : shown[i] \in Bubble /\ shown[i].call \in Calls
    <2> HIDE DEF shown
    <2>1. QED
      BY <1>2, LenProperties, ElementOfSeq DEF Good
  <1>4. CASE new = shown
    BY <1>1, <1>2, <1>4, GoodLasts
  <1>5. CASE new = << >>
    BY <1>5, EmptySeq DEF GoodNext
  <1>6. ASSUME NEW r \in net, AnswerList(r), r.by = s, new = Shows(s, Page(r.of, r.seen))
        PROVE  new \in Seq(Bubble) /\ GoodNext(s, new)
    <2>1. r.seen # -1 /\ r.kind # "open"
      BY <1>6 DEF AnswerList
    <2>2. CASE s = "company"
      <3>1. new = Merge(Page(r.of, r.seen), shown)
        BY <1>6, <2>2 DEF Shows
      <3>2. new \in Seq(Bubble) /\ Good(s, new)
        <4> HIDE DEF new, shown
        <4>1. QED
          BY <1>1, <1>2, <1>6, <2>1, <3>1, MergeIsGood
      <3>3. QED
        BY <1>1, <3>2, GoodLasts
    <2>3. CASE s # "company"
      <3>1. new = AsStored(Page(r.of, r.seen))
        BY <1>6, <2>3 DEF Shows
      <3>2. new \in Seq(Bubble) /\ Good(s, new)
        <4> HIDE DEF new
        <4>1. QED
          BY <1>1, <1>6, <2>1, <3>1, StoredIsGood
      <3>3. QED
        BY <1>1, <3>2, GoodLasts
    <2>4. QED
      BY <2>2, <2>3
  <1>7. ASSUME NEW text \in Texts, Send(s, text),
               new = Append(shown, [call |-> Len(sent) + 1, stored |-> FALSE])
        PROVE  new \in Seq(Bubble) /\ GoodNext(s, new)
    <2> DEFINE k == Len(sent) + 1
               b == [call |-> k, stored |-> FALSE]
    <2>1. /\ k \notin Calls /\ k \in 1..MaxSends /\ k \in Calls' /\ sent'[k].by = s
      BY <1>1, <1>7, SentMore
    <2>2. b \in Bubble /\ b.call = k /\ b.stored = FALSE
      BY <2>1 DEF Bubble
    <2>3. GoodNext(s, shown)
      BY <1>1, <1>2, GoodLasts
    <2> HIDE DEF shown, new, b, k
    <2>4. new = Append(shown, b)
      BY <1>7 DEF b, k
    <2>5. /\ new \in Seq(Bubble) /\ DOMAIN new = 1..(Len(shown) + 1)
          /\ \A i \in 1..Len(shown) : new[i] = shown[i]
          /\ new[Len(shown) + 1] = b
      BY <1>2, <2>2, <2>4, AppendedTo
    <2>6. \A i \in DOMAIN new : i \in DOMAIN shown \/ i = Len(shown) + 1
      BY <1>3, <2>5
    <2>7. \A i \in DOMAIN shown : new[i] = shown[i] /\ new[i].call # k
      BY <1>3, <2>1, <2>5
    <2>8. GoodNext(s, new)
      <3>1. ASSUME NEW i \in DOMAIN new
            PROVE  /\ new[i].call \in Calls'
                   /\ IF new[i].stored THEN StoredNext(new[i].call) /\ s \in readBy'[new[i].call]
                                       ELSE sent'[new[i].call].by = s
        <4>1. CASE i \in DOMAIN shown
          <5>1. new[i] = shown[i]
            BY <2>7, <4>1
          <5>2. /\ shown[i].call \in Calls'
                /\ IF shown[i].stored THEN StoredNext(shown[i].call) /\ s \in readBy'[shown[i].call]
                                      ELSE sent'[shown[i].call].by = s
            BY <2>3, <4>1 DEF GoodNext
          <5>3. QED
            BY <5>1, <5>2
        <4>2. CASE i = Len(shown) + 1
          BY <2>1, <2>2, <2>5, <4>2
        <4>3. QED
          BY <2>6, <4>1, <4>2
      <3>2. ASSUME NEW i \in DOMAIN new, NEW j \in DOMAIN new, new[j].call = new[i].call
            PROVE  i = j
        <4>1. CASE i \in DOMAIN shown /\ j \in DOMAIN shown
          BY <2>3, <2>7, <3>2, <4>1 DEF GoodNext
        <4>2. QED
          BY <2>2, <2>5, <2>6, <2>7, <3>2, <4>1
      <3>3. QED
        BY <3>1, <3>2 DEF GoodNext
    <2>9. QED
      BY <2>5, <2>8
  <1>8. ASSUME NEW k \in Calls, SendOk(k), sent[k].by = s,
               new = [i \in DOMAIN shown |-> IF shown[i].call = k THEN [call |-> k, stored |-> TRUE]
                                                                 ELSE shown[i]]
        PROVE  new \in Seq(Bubble) /\ GoodNext(s, new)
    <2>1. Stored(k) /\ s \in readBy[k]
      <3>1. Stored(k)
        BY <1>8 DEF SendOk
      <3>2. PICK c \in Convs : \E i \in DOMAIN log[c] : log[c][i] = k
        BY <3>1 DEF Stored, Numbers
      <3>3. sent[k].by \in readBy[k]
        BY <1>1, <3>2 DEF Written
      <3>4. QED
        BY <1>8, <3>1, <3>3
    <2> HIDE DEF shown, new
    <2>2. k \in 1..MaxSends
      BY <1>1, Basics
    <2>3. \A i \in DOMAIN shown :
            /\ new[i] \in Bubble /\ new[i].call = shown[i].call
            /\ IF shown[i].call = k THEN new[i].stored = TRUE ELSE new[i] = shown[i]
      BY <1>3, <1>8, <2>2 DEF Bubble
    <2>4. DOMAIN new = DOMAIN shown
      BY <1>8
    <2>5. new \in Seq(Bubble)
      <3>1. new = [i \in 1..Len(shown) |-> new[i]]
        BY <1>3, <1>8
      <3>2. QED
        BY <1>3, <2>3, <3>1, IsASeq
    <2>6. Good(s, new)
      BY <1>2, <2>1, <2>3, <2>4 DEF Good
    <2>7. QED
      BY <1>1, <2>5, <2>6, GoodLasts
  <1>9. ASSUME NEW k \in Calls,
               new = Kept(shown, {i \in DOMAIN shown : shown[i].stored \/ shown[i].call # k})
        PROVE  new \in Seq(Bubble) /\ GoodNext(s, new)
    <2> DEFINE places == {i \in DOMAIN shown : shown[i].stored \/ shown[i].call # k}
    <2>1. places \in SUBSET DOMAIN shown
      OBVIOUS
    <2> HIDE DEF places, shown, new
    <2>2. new \in Seq(Bubble) /\ Good(s, new)
      BY <1>2, <1>9, <2>1, KeptIsGood DEF places
    <2>3. QED
      BY <1>1, <2>2, GoodLasts
  <1>10. QED
    BY <1>1, <1>4, <1>5, <1>6, <1>7, <1>8, <1>9, ListChanges

-----------------------------------------------------------------------------
(* The types *)

LEMMA AskIsRead ==
  ASSUME NEW s \in Sides, NEW kind \in Kinds, NEW c \in Convs
  PROVE  /\ Ask(s, kind, c) \in Read /\ Ask(s, kind, c).seen = -1
         /\ Ask(s, kind, c).by = s /\ Ask(s, kind, c).of = c
  BY DEF Ask, Read

\* What the timer fetches, if it fetches anything.
LEMMA FetchedIs ==
  ASSUME Typed, NEW s \in Sides, Fetched(s) # None
  PROVE  /\ Fetched(s) \in Convs
         /\ Fetched(s) = scr[s].target \/ Fetched(s) = scr[s].timer
  BY Basics DEF Fetched

\* A request after the step was one before, or has just been served, or is new: asked by a
\* side for the conversation under its new title, for what its timer fetches or for what an
\* answered request has opened.
LEMMA RequestsAre ==
  ASSUME Typed, [Next]_vars, NEW r \in net'
  PROVE  \/ r \in net
         \/ \E q \in net : /\ Serve(q) /\ r \in Read /\ r.by = q.by /\ r.of = q.of
                           /\ r.kind = q.kind /\ r.seen = Len(log[q.of])
         \/ /\ r \in Read /\ r.seen = -1
            /\ \/ scr'[r.by].title = r.of
               \/ scr' = scr /\ r.of = Fetched(r.by)
               \/ \E q \in net : AnswerOpen(q) /\ r.by = q.by /\ r.of = q.of
  <1>1. /\ {"open", "first", "again", "poll"} \subseteq Kinds
        /\ "company" \in Sides /\ "worker" \in Sides /\ scr \in [Sides -> Screen]
    BY DEF Kinds, Sides, Typed, TypeOK
  <1>2. ASSUME NEW c \in Convs, OpenPanel(c)
        PROVE  r \in net \/ (r \in Read /\ r.seen = -1 /\ scr'[r.by].title = r.of)
    <2>1. /\ net' = net \cup {Ask("company", "open", c)}
          /\ scr' = [scr EXCEPT !["company"] = [Blank EXCEPT !.title = c]]
      BY <1>2 DEF OpenPanel, Opening
    <2>2. scr'["company"].title = c
      BY <1>1, <2>1 DEF Blank
    <2>3. QED
      BY <1>1, <2>1, <2>2, AskIsRead
  <1>3. ASSUME NEW c \in Convs, OpenPage(c)
        PROVE  r \in net \/ (r \in Read /\ r.seen = -1 /\ scr'[r.by].title = r.of)
    <2>1. /\ net' = net \cup {Ask("worker", "first", c)}
          /\ scr' = [scr EXCEPT !["worker"].title = c, !["worker"].shown = << >>]
      BY <1>3 DEF OpenPage, Opening
    <2>2. scr'["worker"].title = c
      BY <1>1, <2>1 DEF Screen
    <2>3. QED
      BY <1>1, <2>1, <2>2, AskIsRead
  <1>4. ASSUME NEW s \in Sides, Tick(s)
        PROVE  r \in net \/ (r \in Read /\ r.seen = -1 /\ scr' = scr /\ r.of = Fetched(r.by))
    <2>1. net' = net \cup {Ask(s, "poll", Fetched(s))} /\ scr' = scr /\ Fetched(s) # None
      BY <1>4 DEF Tick
    <2>2. QED
      BY <1>1, <2>1, FetchedIs, AskIsRead
  <1>5. CASE ShowAgain
    <2>1. /\ net' = net \cup {Ask("worker", "again", scr["worker"].title)} /\ scr' = scr
          /\ scr["worker"].title \in Convs
      BY <1>1, <1>5, Basics DEF ShowAgain
    <2>2. QED
      BY <1>1, <2>1, AskIsRead
  <1>6. ASSUME NEW q \in net, Serve(q)
        PROVE  \/ r \in net
               \/ /\ Serve(q) /\ r \in Read /\ r.by = q.by /\ r.of = q.of
                  /\ r.kind = q.kind /\ r.seen = Len(log[q.of])
    <2>1. net' = (net \ {q}) \cup {[q EXCEPT !.seen = Len(log[q.of])]}
      BY <1>6 DEF Serve
    <2>2. q \in Read /\ Len(log[q.of]) \in Nat
      BY Basics DEF Typed, TypeOK
    <2>3. QED
      BY <1>6, <2>1, <2>2 DEF Read
  <1>7. ASSUME NEW q \in net, AnswerOpen(q)
        PROVE  \/ r \in net
               \/ r \in Read /\ r.seen = -1 /\ AnswerOpen(q) /\ r.by = q.by /\ r.of = q.of
    <2>1. net' = (net \ {q}) \cup {Ask(q.by, "first", q.of)} /\ q.by \in Sides /\ q.of \in Convs
      BY <1>7, Basics DEF AnswerOpen
    <2>2. QED
      BY <1>1, <1>7, <2>1, AskIsRead
  <1>8. ASSUME NEW q \in net, AnswerList(q) \/ FailRead(q)
        PROVE  r \in net
    BY <1>8 DEF AnswerList, FailRead
  <1>9. CASE net' = net
    BY <1>9
  <1>10. QED
    BY <1>2, <1>3, <1>4, <1>5, <1>6, <1>7, <1>8, <1>9
       DEF Next, vars, ClosePage, Send, Store, SendOk, SendFail

LEMMA TypedStep ==
  ASSUME ReadInv, [Next]_vars
  PROVE  Typed'
  <1> DEFINE Call == [by: Sides, to: Convs, title: Convs \cup {None}, text: Texts,
                      answer: {"pending", "ok", "failed", "lost"}]
  <1>1. Typed /\ TypeOK /\ Grown
    BY GrownStep DEF ReadInv, Typed
  <1>2. log' \in [Convs -> Seq(1..MaxSends)]
    <2>1. CASE log' = log
      BY <1>1, <2>1 DEF TypeOK
    <2>2. ASSUME NEW k \in Calls, Store(k)
          PROVE  log' \in [Convs -> Seq(1..MaxSends)]
      BY <1>1, <2>2, StoredMore
    <2>3. QED
      BY <2>1, <2>2, Changes
  <1>3. readBy' \in [1..MaxSends -> SUBSET Sides]
    <2>1. readBy \in [1..MaxSends -> SUBSET Sides]
      BY <1>1 DEF TypeOK
    <2>2. ASSUME NEW k \in Calls, Store(k)
          PROVE  readBy' \in [1..MaxSends -> SUBSET Sides]
      <3>1. readBy' = [readBy EXCEPT ![k] = {sent[k].by}] /\ sent[k].by \in Sides
        BY <1>1, <2>2, Basics DEF Store
      <3>2. QED
        BY <2>1, <3>1
    <2>3. ASSUME NEW r \in net, Serve(r)
          PROVE  readBy' \in [1..MaxSends -> SUBSET Sides]
      <3>1. r.by \in Sides
        BY <1>1, Basics
      <3>2. PICK got : readBy' = [k \in 1..MaxSends |->
                                    IF k \in got THEN readBy[k] \cup {r.by} ELSE readBy[k]]
        BY <2>3 DEF Serve
      <3>3. QED
        BY <2>1, <3>1, <3>2
    <2>4. QED
      BY <2>1, <2>2, <2>3, Changes
  <1>4. sent' \in Seq(Call) /\ Len(sent') <= MaxSends
    <2>1. sent \in Seq(Call) /\ Len(sent) <= MaxSends
      BY <1>1 DEF Typed, TypeOK
    <2>2. ASSUME NEW s \in Sides, NEW text \in Texts, Send(s, text)
          PROVE  sent' \in Seq(Call) /\ Len(sent') <= MaxSends
      <3>1. sent' \in Seq(Call) /\ Len(sent') \in 1..MaxSends
        BY <1>1, <2>2, SentMore
      <3>2. QED
        BY <3>1
    <2>3. ASSUME NEW j \in Calls, SendOk(j) \/ SendFail(j)
          PROVE  sent' \in Seq(Call) /\ Len(sent') <= MaxSends
      <3>1. PICK a \in {"ok", "failed", "lost"} : sent' = [sent EXCEPT ![j].answer = a]
        BY <2>3 DEF SendOk, SendFail
      <3>2. sent' \in Seq(Call) /\ Len(sent') = Len(sent)
        BY <1>1, <3>1, AnsweredOnly
      <3>3. QED
        BY <2>1, <3>2
    <2> HIDE DEF Call
    <2>4. QED
      BY <2>1, <2>2, <2>3, Changes
  <1>5. scr' \in [Sides -> Screen]
    <2>1. scr \in [Sides -> Screen] /\ "company" \in Sides /\ "worker" \in Sides
      BY <1>1 DEF TypeOK, Sides
    <2>2. \A s \in Sides : scr'[s].shown \in Seq(Bubble)
      BY ListStep
    <2>3. << >> \in Seq(Bubble)
      BY EmptySeq
    <2>4. ASSUME NEW c \in Convs, OpenPanel(c) \/ OpenPage(c)
          PROVE  scr' \in [Sides -> Screen]
      BY <2>1, <2>3, <2>4 DEF OpenPanel, OpenPage, Blank, Screen
    <2>5. CASE ClosePage
      BY <2>1, <2>3, <2>5 DEF ClosePage, Blank, Screen
    <2>6. ASSUME NEW r \in net, AnswerOpen(r) \/ FailRead(r)
          PROVE  scr' \in [Sides -> Screen]
      <3>1. r.by \in Sides /\ r.of \in Convs
        BY <1>1, Basics
      <3>2. CASE AnswerOpen(r)
        BY <2>1, <3>1, <3>2 DEF AnswerOpen, Screen
      <3>3. CASE scr' = scr
        BY <2>1, <3>3
      <3>4. CASE FailRead(r) /\ scr' # scr
        <4> DEFINE timer == IF r.kind = "first" THEN r.of ELSE scr[r.by].timer
                   list == IF r.by = "worker" THEN << >> ELSE scr[r.by].shown
        <4>1. scr' = [scr EXCEPT ![r.by].timer = timer, ![r.by].shown = list]
          BY <3>4 DEF FailRead
        <4>2. timer \in Convs \cup {None} /\ list \in Seq(Bubble)
          BY <1>1, <2>3, <3>1, Basics
        <4> HIDE DEF timer, list
        <4>3. QED
          BY <2>1, <3>1, <4>1, <4>2 DEF Screen
      <3>5. QED
        BY <2>6, <3>2, <3>3, <3>4
    <2>7. ASSUME NEW s \in Sides, NEW list, scr' = [scr EXCEPT ![s].shown = list]
          PROVE  scr' \in [Sides -> Screen]
      <3>1. scr'[s].shown = list
        BY <2>1, <2>7 DEF Screen
      <3>2. QED
        BY <2>1, <2>2, <2>7, <3>1 DEF Screen
    <2>8. ASSUME NEW r \in net, AnswerList(r)
          PROVE  scr' \in [Sides -> Screen]
      <3> DEFINE list == Shows(r.by, Page(r.of, r.seen))
                 timer == IF r.kind = "first" THEN r.of ELSE scr[r.by].timer
      <3>1. r.by \in Sides /\ r.of \in Convs /\ scr[r.by].timer \in Convs \cup {None}
        BY <1>1, Basics
      <3>2. scr' = [scr EXCEPT ![r.by].shown = list, ![r.by].timer = timer]
        BY <2>8 DEF AnswerList
      <3>3. timer \in Convs \cup {None}
        BY <3>1
      <3> HIDE DEF list, timer
      <3>4. scr'[r.by].shown = list
        BY <2>1, <3>1, <3>2 DEF Screen
      <3>5. list \in Seq(Bubble)
        BY <2>2, <3>1, <3>4
      <3>6. QED
        BY <2>1, <3>1, <3>2, <3>3, <3>5 DEF Screen
    <2>9. ASSUME NEW s \in Sides, NEW text \in Texts, Send(s, text)
          PROVE  scr' \in [Sides -> Screen]
      <3>1. PICK list : scr' = [scr EXCEPT ![s].shown = list]
        BY <2>9 DEF Send
      <3>2. QED
        BY <2>7, <3>1
    <2>10. ASSUME NEW k \in Calls, SendOk(k) \/ SendFail(k)
           PROVE  scr' \in [Sides -> Screen]
      <3>1. sent[k].by \in Sides
        BY <1>1, Basics
      <3>2. PICK list : scr' = [scr EXCEPT ![sent[k].by].shown = list]
        BY <2>10 DEF SendOk, SendFail
      <3>3. QED
        BY <2>7, <3>1, <3>2
    <2>11. CASE scr' = scr
      BY <2>1, <2>11
    <2>12. QED
      BY <2>4, <2>5, <2>6, <2>8, <2>9, <2>10, <2>11
         DEF Next, vars, Tick, ShowAgain, Serve, Store
  <1>6. \A r \in net' : r \in Read /\ r.seen <= Len(log'[r.of])
    <2>1. \A c \in Convs : /\ Len(log[c]) \in Nat /\ Len(log'[c]) \in Nat
                           /\ Len(log[c]) <= Len(log'[c])
      <3>1. SUFFICES ASSUME NEW c \in Convs
                     PROVE  /\ Len(log[c]) \in Nat /\ Len(log'[c]) \in Nat
                            /\ Len(log[c]) <= Len(log'[c])
        OBVIOUS
      <3>2. log'[c] \in Seq(1..MaxSends)
        BY <1>2
      <3>3. /\ Len(log[c]) \in Nat /\ DOMAIN log[c] = 1..Len(log[c])
            /\ Len(log'[c]) \in Nat /\ DOMAIN log'[c] = 1..Len(log'[c])
        BY <1>1, <3>2, Basics, LenProperties
      <3>4. \A i \in DOMAIN log[c] : i \in DOMAIN log'[c]
        BY <1>1 DEF Grown
      <3>5. QED
        BY <3>3, <3>4
    <2>2. SUFFICES ASSUME NEW r \in net' PROVE r \in Read /\ r.seen <= Len(log'[r.of])
      OBVIOUS
    <2>3. CASE r \in net
      <3>1. r \in Read /\ r.of \in Convs /\ r.seen \in Int /\ r.seen <= Len(log[r.of])
        BY <1>1, <2>3, Basics DEF TypeOK
      <3>2. QED
        BY <2>1, <3>1
    <2>4. ASSUME NEW q \in net, r \in Read, r.of = q.of, r.seen = Len(log[q.of])
          PROVE  r.seen <= Len(log'[r.of])
      BY <1>1, <2>1, <2>4, Basics
    <2>5. CASE r \in Read /\ r.seen = -1
      <3>1. r.of \in Convs
        BY <2>5 DEF Read
      <3>2. QED
        BY <2>1, <2>5, <3>1
    <2>6. QED
      BY <1>1, <2>3, <2>4, <2>5, RequestsAre
  <1>7. opens' \in 0..MaxOpens /\ faults' \in 0..MaxFaults /\ raced' \subseteq Sides
    <2>1. opens \in 0..MaxOpens /\ faults \in 0..MaxFaults /\ raced \subseteq Sides
      BY <1>1 DEF TypeOK
    <2>2. MaxOpens \in Nat /\ MaxFaults \in Nat
      BY BoundsAssumption
    <2>3. opens' = opens \/ (opens < MaxOpens /\ opens' = opens + 1)
      BY DEF Next, vars, OpenPanel, OpenPage, Opening, ClosePage, ShowAgain, Tick, Send, Serve,
             AnswerOpen, AnswerList, FailRead, Store, SendOk, SendFail
    <2>4. faults' = faults \/ (faults < MaxFaults /\ faults' = faults + 1)
      BY DEF Next, vars, OpenPanel, OpenPage, Opening, ClosePage, ShowAgain, Tick, Send, Serve,
             AnswerOpen, AnswerList, FailRead, Store, SendOk, SendFail
    <2>5. \E s \in Sides : raced' \in {raced, raced \cup {s}}
      BY DEF Next, vars, OpenPanel, OpenPage, Opening, ClosePage, ShowAgain, Tick, Send, Serve,
             AnswerOpen, AnswerList, FailRead, Store, SendOk, SendFail, NoteRace, Sides
    <2>6. QED
      BY <2>1, <2>2, <2>3, <2>4, <2>5
  <1>8. QED
    BY <1>2, <1>3, <1>4, <1>5, <1>6, <1>7 DEF Typed, TypeOK

-----------------------------------------------------------------------------
(* What is shown and who has read it *)

LEMMA WrittenStep ==
  ASSUME ReadInv, [Next]_vars
  PROVE  Written'
  <1>1. Typed /\ Written /\ Grown
    BY GrownStep DEF ReadInv
  <1>2. ASSUME NEW c \in Convs, NEW i \in DOMAIN log[c]
        PROVE  /\ log[c][i] \in Calls' /\ sent'[log[c][i]].to = c
               /\ sent'[log[c][i]].by \in readBy'[log[c][i]]
    <2> DEFINE k == log[c][i]
    <2>1. /\ k \in Calls /\ k \in 1..MaxSends /\ sent[k].to = c /\ sent[k].by \in readBy[k]
          /\ Stored(k)
      BY <1>1, Basics DEF Written, Stored, Numbers
    <2> HIDE DEF k
    <2>2. k \in Calls' /\ sent'[k].to = c /\ sent'[k].by \in readBy'[k]
      BY <1>1, <2>1 DEF Grown
    <2>3. QED
      BY <2>2 DEF k
  <1>3. CASE log' = log
    BY <1>1, <1>2, <1>3 DEF Written
  <1>4. ASSUME NEW k \in Calls, Store(k)
        PROVE  Written'
    <2> DEFINE c == sent[k].to
               n == Len(log[c]) + 1
    <2>1. /\ c \in Convs /\ \A d \in Convs : d # c => log'[d] = log[d]
          /\ DOMAIN log'[c] = 1..n /\ \A i \in DOMAIN log[c] : log'[c][i] = log[c][i]
          /\ log'[c][n] = k /\ readBy' = [readBy EXCEPT ![k] = {sent[k].by}]
      BY <1>1, <1>4, StoredMore
    <2>2. /\ Len(log[c]) \in Nat /\ DOMAIN log[c] = 1..Len(log[c]) /\ k \in 1..MaxSends
      BY <1>1, <2>1, Basics
    <2>3. sent' = sent /\ ~ Stored(k)
      BY <1>4 DEF Store
    <2>4. sent'[k].by \in readBy'[k]
      BY <1>1, <2>1, <2>2, <2>3 DEF Typed, TypeOK
    <2>5. k \in Calls' /\ sent'[k].to = c
      BY <2>3 DEF Calls
    <2>6. \A d \in Convs : \A i \in DOMAIN log[d] : log[d][i] # k
      BY <2>3 DEF Stored, Numbers
    <2> HIDE DEF c, n
    <2>7. n \in Nat /\ \A i \in DOMAIN log'[c] : i \in DOMAIN log[c] \/ i = n
      BY <2>1, <2>2 DEF n
    <2>8. SUFFICES ASSUME NEW d \in Convs, NEW i \in DOMAIN log'[d]
                   PROVE  /\ log'[d][i] \in Calls' /\ sent'[log'[d][i]].to = d
                          /\ sent'[log'[d][i]].by \in readBy'[log'[d][i]]
                          /\ \A j \in DOMAIN log'[d] : log'[d][j] = log'[d][i] => i = j
      BY DEF Written
    <2>9. CASE d # c
      BY <1>1, <1>2, <2>1, <2>9 DEF Written
    <2>10. CASE d = c /\ i = n
      BY <2>1, <2>4, <2>5, <2>6, <2>7, <2>10
    <2>11. CASE d = c /\ i \in DOMAIN log[c]
      BY <1>1, <1>2, <2>1, <2>6, <2>7, <2>11 DEF Written
    <2>12. QED
      BY <2>7, <2>9, <2>10, <2>11
  <1>5. QED
    BY <1>3, <1>4, Changes

\* Stretches of two lists that agree so far are the same.
LEMMA SameStretch ==
  ASSUME NEW S, NEW f \in Seq(S), NEW g \in Seq(S), NEW m \in Nat, NEW n \in Nat, m > 0,
         n <= Len(f), n <= Len(g), \A i \in 1..n : g[i] = f[i]
  PROVE  SubSeq(g, m, n) = SubSeq(f, m, n)
  <1>1. \A i \in m..n : f[i] \in S /\ g[i] = f[i]
    BY ElementOfSeq
  <1>2. \A i \in m..n : g[i] \in S
    BY <1>1
  <1>3. /\ SubSeq(f, m, n) \in Seq(S) /\ SubSeq(g, m, n) \in Seq(S)
        /\ Len(SubSeq(g, m, n)) = Len(SubSeq(f, m, n))
        /\ Len(SubSeq(g, m, n)) = IF m <= n THEN n - m + 1 ELSE 0
        /\ \A i \in 1..(n - m + 1) : /\ SubSeq(f, m, n)[i] = f[m + i - 1]
                                     /\ SubSeq(g, m, n)[i] = g[m + i - 1]
    BY <1>1, <1>2, SubSeqProperties
  <1>4. \A i \in 1..Len(SubSeq(g, m, n)) : SubSeq(g, m, n)[i] = SubSeq(f, m, n)[i]
    <2>1. SUFFICES ASSUME NEW i \in 1..Len(SubSeq(g, m, n))
                   PROVE  SubSeq(g, m, n)[i] = SubSeq(f, m, n)[i]
      OBVIOUS
    <2>2. i \in 1..(n - m + 1) /\ m + i - 1 \in m..n
      BY <1>3
    <2>3. QED
      BY <1>1, <1>3, <2>2
  <1>5. QED
    BY <1>3, <1>4, SeqEqual

LEMMA MarkedStep ==
  ASSUME ReadInv, [Next]_vars
  PROVE  Marked'
  <1>1. Typed /\ Typed' /\ Written /\ Marked /\ Grown
    BY GrownStep, TypedStep DEF ReadInv
  <1> DEFINE PageNext(c, n) == SubSeq(log'[c], IF n > PageSize THEN n - PageSize + 1 ELSE 1, n)
  <1>2. ASSUME NEW c \in Convs, NEW n \in 0..Len(log[c])
        PROVE  PageNext(c, n) = Page(c, n)
    <2> DEFINE m == IF n > PageSize THEN n - PageSize + 1 ELSE 1
    <2>1. log[c] \in Seq(1..MaxSends) /\ log'[c] \in Seq(1..MaxSends)
      BY <1>1 DEF Typed, TypeOK
    <2>2. /\ DOMAIN log[c] = 1..Len(log[c]) /\ DOMAIN log'[c] = 1..Len(log'[c])
          /\ Len(log[c]) \in Nat /\ Len(log'[c]) \in Nat
      BY <2>1, LenProperties
    <2>3. \A i \in DOMAIN log[c] : i \in DOMAIN log'[c] /\ log'[c][i] = log[c][i]
      BY <1>1 DEF Grown
    <2>4. n \in Nat /\ n <= Len(log[c]) /\ n <= Len(log'[c])
      BY <2>2, <2>3
    <2>5. \A i \in 1..n : log'[c][i] = log[c][i]
      BY <2>2, <2>3, <2>4
    <2>6. m \in Nat /\ m > 0
      BY <2>4, PageAssumption
    <2> HIDE DEF m
    <2>7. SubSeq(log'[c], m, n) = SubSeq(log[c], m, n)
      BY <2>1, <2>4, <2>5, <2>6, SameStretch
    <2>8. QED
      BY <2>7 DEF Page, m
  <1>3. SUFFICES ASSUME NEW r \in net', r.seen # -1, r.kind # "open",
                        NEW k \in Numbers(PageNext(r.of, r.seen))
                 PROVE  r.by \in readBy'[k]
    BY DEF Marked, Page
  <1> HIDE DEF PageNext
  <1>4. CASE r \in net
    <2>1. /\ r.of \in Convs /\ r.seen \in 0..Len(log[r.of])
      BY <1>1, <1>3, <1>4, Basics
    <2>2. PageNext(r.of, r.seen) = Page(r.of, r.seen)
      BY <1>2, <2>1
    <2>3. k \in Numbers(Page(r.of, r.seen)) /\ r.by \in readBy[k]
      BY <1>1, <1>3, <1>4, <2>2 DEF Marked
    <2>4. k \in Calls /\ Stored(k)
      BY <1>1, <1>3, <1>4, <2>3, PageHolds DEF Numbers
    <2>5. k \in 1..MaxSends
      BY <1>1, <2>4, Basics
    <2>6. QED
      BY <1>1, <2>3, <2>4, <2>5 DEF Grown
  <1>5. ASSUME NEW q \in net, Serve(q), r.by = q.by, r.of = q.of, r.kind = q.kind,
               r.seen = Len(log[q.of])
        PROVE  r.by \in readBy'[k]
    <2>1. /\ q.of \in Convs /\ log[q.of] \in Seq(1..MaxSends) /\ Len(log[q.of]) \in Nat
      BY <1>1, Basics
    <2>2. PageNext(r.of, r.seen) = Page(q.of, Len(log[q.of]))
      BY <1>2, <1>5, <2>1
    <2>3. k \in Numbers(Page(q.of, Len(log[q.of])))
      BY <1>3, <2>2
    <2>4. Page(q.of, Len(log[q.of])) \in Seq(1..MaxSends)
      BY <2>1, PageIs
    <2>5. k \in 1..MaxSends
      <3> DEFINE page == Page(q.of, Len(log[q.of]))
      <3>1. page \in Seq(1..MaxSends) /\ \E i \in DOMAIN page : k = page[i]
        BY <2>3, <2>4 DEF Numbers
      <3> HIDE DEF page
      <3>2. QED
        BY <3>1, ElementOfSeq, LenProperties
    <2>6. readBy'[k] = readBy[k] \cup {q.by}
      BY <1>3, <1>5, <2>3, <2>5 DEF Serve
    <2>7. QED
      BY <1>5, <2>6
  <1>6. QED
    BY <1>1, <1>3, <1>4, <1>5, RequestsAre

LEMMA ReadInvStep == ReadInv /\ [Next]_vars => ReadInv'
  <1> SUFFICES ASSUME ReadInv, [Next]_vars PROVE ReadInv'
    OBVIOUS
  <1>1. Lists'
    BY ListStep DEF Lists, Good, GoodNext, Stored, StoredNext
  <1>2. QED
    BY <1>1, TypedStep, WrittenStep, MarkedStep DEF ReadInv

LEMMA ReadInvInit == Init => ReadInv
  <1> SUFFICES ASSUME Init PROVE ReadInv
    OBVIOUS
  <1>1. /\ log = [c \in Convs |-> << >>] /\ readBy = [k \in 1..MaxSends |-> {}] /\ sent = << >>
        /\ scr = [s \in Sides |-> Blank] /\ net = {} /\ opens = 0 /\ faults = 0 /\ raced = {}
    BY DEF Init
  <1>2. MaxOpens \in Nat /\ MaxSends \in Nat /\ MaxFaults \in Nat
    BY BoundsAssumption
  <1>3. Blank \in Screen /\ Blank.shown = << >>
    BY EmptySeq DEF Blank, Screen
  <1>4. \A S : << >> \in Seq(S) /\ Len(<< >>) = 0 /\ DOMAIN << >> = {}
    OBVIOUS
  <1>5. TypeOK
    BY <1>1, <1>2, <1>3, <1>4 DEF TypeOK
  <1>6. Typed
    BY <1>1, <1>2, <1>4, <1>5 DEF Typed
  <1>7. Written /\ Marked /\ Lists
    BY <1>1, <1>3, <1>4 DEF Written, Marked, Lists, Good
  <1>8. QED
    BY <1>6, <1>7 DEF ReadInv

LEMMA ReadInvAlways == Spec => []ReadInv
  BY ReadInvInit, ReadInvStep, PTL DEF Spec

\* Every variable keeps its type, whatever the number of conversations, messages and
\* faults.
THEOREM ChatTypes == Spec => []TypeOK
  <1>1. ReadInv => TypeOK
    BY DEF ReadInv, Typed
  <1>2. QED
    BY <1>1, ReadInvAlways, PTL

\* However sending and fetching overlap, a screen never shows a message twice, and what it
\* shows of the other side is marked as read there: the merge of the panel drops exactly
\* the bubbles whose message the list holds, and a list is marked before it is on its way.
THEOREM ChatShownOnceAndRead == Spec => []ShownOnceAndRead
  <1>1. ReadInv => ShownOnceAndRead
    BY DEF ReadInv, Lists, Good, ShownOnceAndRead
  <1>2. QED
    BY <1>1, ReadInvAlways, PTL

-----------------------------------------------------------------------------
(* What is under the title *)

\* Either the title of a side stays, and what it has opened and fetches becomes at most
\* what it asked for; or it is changed while nothing is asked for, and the list emptied.
LEMMA TitleChanges ==
  ASSUME Typed, [Next]_vars, NEW s \in Sides, s \notin raced'
  PROVE  /\ s \notin raced
         /\ \/ /\ scr'[s].title = scr[s].title
               /\ \/ scr'[s].target = scr[s].target
                  \/ \E r \in net : r.by = s /\ scr'[s].target = r.of
               /\ \/ scr'[s].timer = scr[s].timer
                  \/ \E r \in net : r.by = s /\ scr'[s].timer = r.of
            \/ /\ scr'[s].shown = << >> /\ sent' = sent /\ \A r \in net : r.by # s
               /\ \A r \in net' : r.by = s => r.of = scr'[s].title
               /\ \/ scr'[s].target = None /\ scr'[s].timer = None
                  \/ /\ scr[s].title = None
                     /\ scr'[s].target = scr[s].target /\ scr'[s].timer = scr[s].timer
  <1> DEFINE Same == scr'[s].title = scr[s].title /\ scr'[s].target = scr[s].target
                     /\ scr'[s].timer = scr[s].timer
             Kept3 == /\ scr'[s].title = scr[s].title
                      /\ \/ scr'[s].target = scr[s].target
                         \/ \E r \in net : r.by = s /\ scr'[s].target = r.of
                      /\ \/ scr'[s].timer = scr[s].timer
                         \/ \E r \in net : r.by = s /\ scr'[s].timer = r.of
             Turned == /\ scr'[s].shown = << >> /\ sent' = sent /\ \A r \in net : r.by # s
                       /\ \A r \in net' : r.by = s => r.of = scr'[s].title
                       /\ \/ scr'[s].target = None /\ scr'[s].timer = None
                          \/ /\ scr[s].title = None
                             /\ scr'[s].target = scr[s].target /\ scr'[s].timer = scr[s].timer
  <1>1. scr \in [Sides -> Screen] /\ "company" \in Sides /\ "worker" \in Sides
    BY DEF Typed, TypeOK, Sides
  <1>2. s \notin raced
    BY DEF Next, vars, OpenPanel, OpenPage, Opening, ClosePage, ShowAgain, Tick, Send, Serve,
           AnswerOpen, AnswerList, FailRead, Store, SendOk, SendFail, NoteRace
  <1>3. ASSUME NEW x \in Sides, NoteRace(x), x = s
        PROVE  \A r \in net : r.by # s
    BY <1>3 DEF NoteRace
  <1>4. ASSUME NEW c \in Convs, OpenPanel(c)
        PROVE  Same \/ Turned
    <2>1. /\ net' = net \cup {Ask("company", "open", c)} /\ NoteRace("company") /\ sent' = sent
          /\ scr' = [scr EXCEPT !["company"] = [Blank EXCEPT !.title = c]]
      BY <1>4 DEF OpenPanel, Opening
    <2>2. CASE s = "company"
      <3>1. /\ scr'[s].title = c /\ scr'[s].target = None /\ scr'[s].timer = None
            /\ scr'[s].shown = << >>
        BY <1>1, <2>1, <2>2 DEF Blank
      <3>2. \A r \in net : r.by # s
        BY <1>1, <1>3, <2>1, <2>2
      <3>3. \A r \in net' : r.by = s => r.of = c
        BY <2>1, <3>2 DEF Ask
      <3>4. QED
        BY <2>1, <3>1, <3>2, <3>3
    <2>3. CASE s # "company"
      BY <1>1, <2>1, <2>3
    <2>4. QED
      BY <2>2, <2>3
  <1>5. ASSUME NEW c \in Convs, OpenPage(c)
        PROVE  Same \/ Turned
    <2>1. /\ net' = net \cup {Ask("worker", "first", c)} /\ NoteRace("worker") /\ sent' = sent
          /\ scr["worker"].title = None
          /\ scr' = [scr EXCEPT !["worker"].title = c, !["worker"].shown = << >>]
      BY <1>5 DEF OpenPage, Opening
    <2>2. CASE s = "worker"
      <3>1. /\ scr'[s].title = c /\ scr'[s].target = scr[s].target
            /\ scr'[s].timer = scr[s].timer /\ scr'[s].shown = << >>
        BY <1>1, <2>1, <2>2 DEF Screen
      <3>2. \A r \in net : r.by # s
        BY <1>1, <1>3, <2>1, <2>2
      <3>3. \A r \in net' : r.by = s => r.of = c
        BY <2>1, <3>2 DEF Ask
      <3>4. QED
        BY <2>1, <2>2, <3>1, <3>2, <3>3
    <2>3. CASE s # "worker"
      BY <1>1, <2>1, <2>3
    <2>4. QED
      BY <2>2, <2>3
  <1>6. ASSUME ClosePage
        PROVE  Same \/ Turned
    <2>1. /\ net' = net /\ NoteRace("worker") /\ sent' = sent
          /\ scr' = [scr EXCEPT !["worker"] = Blank]
      BY <1>6 DEF ClosePage
    <2>2. CASE s = "worker"
      <3>1. /\ scr'[s].title = None /\ scr'[s].target = None /\ scr'[s].timer = None
            /\ scr'[s].shown = << >>
        BY <1>1, <2>1, <2>2 DEF Blank
      <3>2. \A r \in net : r.by # s
        BY <1>1, <1>3, <2>1, <2>2
      <3>3. \A r \in net' : r.by # s
        BY <2>1, <3>2
      <3>4. QED
        BY <2>1, <3>1, <3>2, <3>3
    <2>3. CASE s # "worker"
      <3>1. scr'[s] = scr[s]
        BY <1>1, <2>1, <2>3
      <3>2. QED
        BY <3>1
    <2>4. QED
      BY <2>2, <2>3
  <1>7. ASSUME NEW r \in net, AnswerOpen(r) \/ AnswerList(r) \/ FailRead(r)
        PROVE  Kept3
    <2>1. r.by \in Sides
      BY Basics
    <2>2. CASE AnswerOpen(r)
      BY <1>1, <2>1, <2>2 DEF AnswerOpen, Screen
    <2>3. ASSUME NEW list, NEW timer, timer \in {r.of, scr[r.by].timer},
                 \/ scr' = [scr EXCEPT ![r.by].shown = list, ![r.by].timer = timer]
                 \/ scr' = [scr EXCEPT ![r.by].timer = timer, ![r.by].shown = list]
          PROVE  Kept3
      <3>1. /\ scr'[s].title = scr[s].title /\ scr'[s].target = scr[s].target
            /\ scr'[s].timer = IF s = r.by THEN timer ELSE scr[s].timer
        BY <1>1, <2>1, <2>3 DEF Screen
      <3>2. QED
        BY <2>3, <3>1
    <2>4. CASE AnswerList(r)
      <3> DEFINE timer == IF r.kind = "first" THEN r.of ELSE scr[r.by].timer
                 list == Shows(r.by, Page(r.of, r.seen))
      <3>1. scr' = [scr EXCEPT ![r.by].shown = list, ![r.by].timer = timer]
        BY <2>4 DEF AnswerList
      <3>2. timer \in {r.of, scr[r.by].timer}
        OBVIOUS
      <3> HIDE DEF timer, list, Kept3
      <3>3. QED
        BY <2>3, <3>1, <3>2
    <2>5. CASE FailRead(r)
      <3> DEFINE timer == IF r.kind = "first" THEN r.of ELSE scr[r.by].timer
                 list == IF r.by = "worker" THEN << >> ELSE scr[r.by].shown
      <3>1. scr' = scr \/ scr' = [scr EXCEPT ![r.by].timer = timer, ![r.by].shown = list]
        BY <2>5 DEF FailRead
      <3>2. timer \in {r.of, scr[r.by].timer}
        OBVIOUS
      <3>3. scr' = scr => Kept3
        OBVIOUS
      <3> HIDE DEF timer, list, Kept3
      <3>4. QED
        BY <2>3, <3>1, <3>2, <3>3
    <2>6. QED
      BY <1>7, <2>2, <2>4, <2>5
  <1>8. ASSUME NEW x \in Sides, NEW list, scr' = [scr EXCEPT ![x].shown = list]
        PROVE  Same
    BY <1>1, <1>8 DEF Screen
  <1>9. ASSUME NEW x \in Sides, NEW text \in Texts, Send(x, text)
        PROVE  Same
    <2>1. PICK list : scr' = [scr EXCEPT ![x].shown = list]
      BY <1>9 DEF Send
    <2>2. QED
      BY <1>8, <2>1
  <1>10. ASSUME NEW k \in Calls, SendOk(k) \/ SendFail(k)
         PROVE  Same
    <2>1. sent[k].by \in Sides
      BY Basics
    <2>2. PICK list : scr' = [scr EXCEPT ![sent[k].by].shown = list]
      BY <1>10 DEF SendOk, SendFail
    <2>3. QED
      BY <1>8, <2>1, <2>2
  <1>11. scr' = scr => Same
    OBVIOUS
  <1>12. Same => Kept3
    OBVIOUS
  <1> HIDE DEF Same, Kept3, Turned
  <1>13. Kept3 \/ Turned
    <2>1. ASSUME NEW x \in Sides, Tick(x)
          PROVE  scr' = scr
      BY <2>1 DEF Tick
    <2>2. ASSUME NEW r \in net, Serve(r)
          PROVE  scr' = scr
      BY <2>2 DEF Serve
    <2>3. ASSUME NEW k \in Calls, Store(k)
          PROVE  scr' = scr
      BY <2>3 DEF Store
    <2>4. (ShowAgain \/ UNCHANGED vars) => scr' = scr
      BY DEF ShowAgain, vars
    <2>5. QED
      BY <1>4, <1>5, <1>6, <1>7, <1>9, <1>10, <1>11, <1>12, <2>1, <2>2, <2>3, <2>4 DEF Next
  <1>14. QED
    BY <1>2, <1>13 DEF Kept3, Turned

\* What a side shows after a step was sent to the conversation under its title, which stays.
LEMMA TitleOfList ==
  ASSUME ReadInv, [Next]_vars, NEW s \in Sides, Settled(s), scr[s].title # None,
         scr'[s].title = scr[s].title
  PROVE  \A i \in DOMAIN scr'[s].shown : sent'[scr'[s].shown[i].call].to = scr[s].title
  <1> DEFINE shown == scr[s].shown
             new == scr'[s].shown
             title == scr[s].title
  <1>1. Typed /\ Written /\ Marked /\ Grown
    BY GrownStep DEF ReadInv
  <1>2. shown \in Seq(Bubble) /\ Good(s, shown)
    BY <1>1, Basics DEF ReadInv, Lists
  <1>3. /\ DOMAIN shown = 1..Len(shown) /\ Len(shown) \in Nat
        /\ \A i \in DOMAIN shown : /\ shown[i].call \in Calls /\ sent[shown[i].call].to = title
                                   /\ sent'[shown[i].call].to = title
    <2>1. DOMAIN shown = 1..Len(shown) /\ Len(shown) \in Nat
      <3> HIDE DEF shown
      <3>1. QED
        BY <1>2, LenProperties
    <2>2. \A i \in DOMAIN shown : shown[i].call \in Calls /\ sent[shown[i].call].to = title
      BY <1>2 DEF Good, Settled
    <2> HIDE DEF shown, title
    <2>3. QED
      BY <1>1, <2>1, <2>2 DEF Grown
  <1>4. CASE new = shown
    BY <1>3, <1>4
  <1>5. CASE new = << >>
    BY <1>5
  <1>6. ASSUME NEW r \in net, AnswerList(r), r.by = s, new = Shows(s, Page(r.of, r.seen)),
               NEW i \in DOMAIN new
        PROVE  sent'[new[i].call].to = title
    <2> DEFINE page == Page(r.of, r.seen)
    <2>1. r.seen # -1 /\ r.kind # "open" /\ sent' = sent /\ r.of = title
      BY <1>6 DEF AnswerList, Settled
    <2>2. \A j \in DOMAIN page : sent[page[j]].to = r.of
      BY <1>1, <2>1, PageHolds
    <2>3. \/ \E j \in DOMAIN page : new[i].call = page[j]
          \/ \E j \in DOMAIN shown : new[i] = shown[j]
      <3>1. CASE s = "company"
        <4>1. new = Merge(page, shown)
          BY <1>6, <3>1 DEF Shows
        <4> HIDE DEF shown, new
        <4>2. \A h \in DOMAIN Merge(page, shown) :
                \/ \E j \in DOMAIN page : Merge(page, shown)[h].call = page[j]
                \/ \E j \in DOMAIN shown : Merge(page, shown)[h] = shown[j]
          BY <1>1, <1>2, <1>6, <2>1, MergeIsGood
        <4> HIDE DEF page
        <4>3. QED
          BY <1>6, <4>1, <4>2
      <3>2. CASE s # "company"
        <4>1. new = AsStored(page)
          BY <1>6, <3>2 DEF Shows
        <4>2. i \in DOMAIN page /\ new[i] = [call |-> page[i], stored |-> TRUE]
          BY <1>6, <4>1 DEF AsStored
        <4>3. QED
          BY <4>2
      <3>3. QED
        BY <3>1, <3>2
    <2> HIDE DEF page, shown, new, title
    <2>4. QED
      BY <1>3, <2>1, <2>2, <2>3
  <1>7. ASSUME NEW text \in Texts, Send(s, text),
               new = Append(shown, [call |-> Len(sent) + 1, stored |-> FALSE])
        PROVE  \A i \in DOMAIN new : sent'[new[i].call].to = title
    <2> DEFINE k == Len(sent) + 1
               b == [call |-> k, stored |-> FALSE]
    <2>1. /\ k \in 1..MaxSends /\ sent'[k].to \in Convs
          /\ sent'[k].to = IF s = "company" THEN scr[s].target ELSE scr[s].title
      BY <1>1, <1>7, SentMore
    <2>2. sent'[k].to = title
      BY <2>1, NoneAssumption DEF Settled
    <2>3. b \in Bubble /\ b.call = k
      BY <2>1 DEF Bubble
    <2> HIDE DEF shown, new, b, k, title
    <2>4. new = Append(shown, b)
      BY <1>7 DEF b, k
    <2>5. /\ DOMAIN new = 1..(Len(shown) + 1) /\ \A i \in 1..Len(shown) : new[i] = shown[i]
          /\ new[Len(shown) + 1] = b
      BY <1>2, <2>3, <2>4, AppendedTo
    <2>6. \A i \in DOMAIN new : i \in DOMAIN shown \/ i = Len(shown) + 1
      BY <1>3, <2>5
    <2>7. QED
      BY <1>3, <2>2, <2>3, <2>5, <2>6
  <1>8. ASSUME NEW k \in Calls,
               new = [i \in DOMAIN shown |-> IF shown[i].call = k THEN [call |-> k, stored |-> TRUE]
                                                                 ELSE shown[i]]
        PROVE  \A i \in DOMAIN new : sent'[new[i].call].to = title
    <2> HIDE DEF shown, new, title
    <2>1. \A i \in DOMAIN new : i \in DOMAIN shown /\ new[i].call = shown[i].call
      BY <1>8
    <2>2. QED
      BY <1>3, <2>1
  <1>9. ASSUME NEW k \in Calls,
               new = Kept(shown, {i \in DOMAIN shown : shown[i].stored \/ shown[i].call # k})
        PROVE  \A i \in DOMAIN new : sent'[new[i].call].to = title
    <2> DEFINE places == {i \in DOMAIN shown : shown[i].stored \/ shown[i].call # k}
    <2>1. places \in SUBSET DOMAIN shown
      OBVIOUS
    <2> HIDE DEF places, shown, new, title
    <2>2. \A j \in DOMAIN new : \E i \in places : new[j] = shown[i]
      BY <1>2, <1>9, <2>1, KeptIsGood DEF places
    <2>3. QED
      BY <1>3, <2>1, <2>2
  <1>10. QED
    BY <1>1, <1>4, <1>5, <1>6, <1>7, <1>8, <1>9, ListChanges

LEMMA TitleInvStep ==
  ASSUME ReadInv, TitleInv, [Next]_vars
  PROVE  TitleInv'
  <1>1. Typed /\ Typed' /\ Grown
    BY GrownStep, TypedStep DEF ReadInv
  <1>2. SUFFICES ASSUME NEW s \in Sides, s \notin raced'
                 PROVE  /\ scr'[s].target \in {None, scr'[s].title}
                        /\ scr'[s].timer \in {None, scr'[s].title}
                        /\ \A r \in net' : r.by = s => r.of = scr'[s].title
                        /\ scr'[s].title # None =>
                             \A i \in DOMAIN scr'[s].shown :
                               sent'[scr'[s].shown[i].call].to = scr'[s].title
                        /\ \A k \in Calls' : sent'[k].by = s => sent'[k].to = sent'[k].title
    BY DEF TitleInv, Settled
  <1>3. s \notin raced /\ Settled(s)
    BY <1>1, <1>2, TitleChanges DEF TitleInv
  <1>4. \A k \in Calls' : sent'[k].by = s => sent'[k].to = sent'[k].title
    <2>1. \A k \in Calls : /\ sent'[k].by = sent[k].by /\ sent'[k].to = sent[k].to
                           /\ sent'[k].title = sent[k].title
      BY <1>1 DEF Grown
    <2>2. CASE Calls' = Calls
      BY <1>3, <2>1, <2>2 DEF Settled
    <2>3. ASSUME NEW x \in Sides, NEW text \in Texts, Send(x, text)
          PROVE  \A k \in Calls' : sent'[k].by = s => sent'[k].to = sent'[k].title
      <3> DEFINE new == Len(sent) + 1
      <3>1. /\ Calls' = Calls \cup {new} /\ sent'[new].by = x /\ sent'[new].title = scr[x].title
            /\ sent'[new].to = IF x = "company" THEN scr[x].target ELSE scr[x].title
            /\ sent'[new].to \in Convs
        BY <1>1, <2>3, SentMore
      <3>2. sent'[new].by = s => sent'[new].to = sent'[new].title
        BY <1>3, <3>1, NoneAssumption DEF Settled
      <3> HIDE DEF new
      <3>3. QED
        BY <1>3, <2>1, <3>1, <3>2 DEF Settled
    <2>4. ASSUME NEW j \in Calls, SendOk(j) \/ SendFail(j)
          PROVE  Calls' = Calls
      <3>1. PICK a \in {"ok", "failed", "lost"} : sent' = [sent EXCEPT ![j].answer = a]
        BY <2>4 DEF SendOk, SendFail
      <3>2. QED
        BY <1>1, <3>1, AnsweredOnly
    <2>5. sent' = sent => Calls' = Calls
      BY DEF Calls
    <2>6. QED
      BY <2>2, <2>3, <2>4, <2>5, Changes
  <1>5. CASE /\ scr'[s].shown = << >> /\ sent' = sent /\ \A r \in net : r.by # s
             /\ \A r \in net' : r.by = s => r.of = scr'[s].title
             /\ \/ scr'[s].target = None /\ scr'[s].timer = None
                \/ /\ scr[s].title = None
                   /\ scr'[s].target = scr[s].target /\ scr'[s].timer = scr[s].timer
    BY <1>3, <1>4, <1>5 DEF Settled
  <1>6. CASE /\ scr'[s].title = scr[s].title
             /\ \/ scr'[s].target = scr[s].target
                \/ \E r \in net : r.by = s /\ scr'[s].target = r.of
             /\ \/ scr'[s].timer = scr[s].timer
                \/ \E r \in net : r.by = s /\ scr'[s].timer = r.of
    <2>1. /\ scr'[s].target \in {None, scr'[s].title} /\ scr'[s].timer \in {None, scr'[s].title}
      BY <1>3, <1>6 DEF Settled
    <2>2. ASSUME NEW r \in net', r.by = s
          PROVE  r.of = scr[s].title
      <3>1. CASE r \in net
        BY <1>3, <2>2, <3>1 DEF Settled
      <3>2. ASSUME NEW q \in net, r.by = q.by, r.of = q.of
            PROVE  r.of = scr[s].title
        BY <1>3, <2>2, <3>2 DEF Settled
      <3>3. CASE r \in Read /\ r.of = Fetched(r.by)
        <4>1. r.of \in Convs /\ Fetched(s) # None
          BY <2>2, <3>3, NoneAssumption DEF Read
        <4>2. Fetched(s) = scr[s].target \/ Fetched(s) = scr[s].timer
          BY <1>1, <4>1, FetchedIs
        <4>3. QED
          BY <1>3, <2>2, <3>3, <4>1, <4>2 DEF Settled
      <3>4. QED
        BY <1>1, <1>6, <2>2, <3>1, <3>2, <3>3, RequestsAre
    <2>3. scr[s].title # None =>
            \A i \in DOMAIN scr'[s].shown : sent'[scr'[s].shown[i].call].to = scr[s].title
      BY <1>3, <1>6, TitleOfList
    <2>4. QED
      BY <1>4, <1>6, <2>1, <2>2, <2>3
  <1>7. QED
    BY <1>1, <1>2, <1>5, <1>6, TitleChanges

\* What is shown, and what is sent, belongs to the conversation under the title, unless the
\* title was changed while an answer of that side was on its way: opening empties the
\* screen, closing stops the timer, and what is asked for follows the title.
THEOREM ChatUnderTitle == Spec => []UnderTitleUnlessRaced
  <1>1. Init => TitleInv
    <2>1. SUFFICES ASSUME Init PROVE TitleInv
      OBVIOUS
    <2>2. /\ scr = [s \in Sides |-> Blank] /\ net = {} /\ Calls = {}
      BY <2>1 DEF Init, Calls
    <2>3. QED
      BY <2>2 DEF TitleInv, Settled, Blank
  <1>2. ReadInv /\ TitleInv /\ [Next]_vars => TitleInv'
    BY TitleInvStep
  <1>3. TitleInv => UnderTitleUnlessRaced
    BY DEF TitleInv, Settled, UnderTitleUnlessRaced
  <1>4. QED
    BY <1>1, <1>2, <1>3, ReadInvAlways, PTL DEF Spec
=============================================================================
