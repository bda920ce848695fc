---------------------------------- MODULE Chat ----------------------------------
(***************************************************************************)
(* Messages between a company user and a worker: the store behind           *)
(* message.service.ts, the panel of the web console (ImChatPanel.vue) and    *)
(* the message page of the mini program.                                    *)
(*                                                                         *)
(* Neither client opens a socket: both show what they fetch every few       *)
(* seconds, and answers come back in any order.  A screen is a handful of    *)
(* variables that every answer overwrites, whichever conversation is under   *)
(* the title by then.                                                       *)
(*                                                                         *)
(* A message is the number of the call that sends it: its bubble has the     *)
(* same number before and after the server has stored it.                    *)
(***************************************************************************)
EXTENDS Integers, Sequences, FiniteSets

CONSTANTS
  Convs,      \* conversations of the two, one per task
  Texts,      \* contents of a message
  PageSize,   \* messages a screen asks for (50 in both clients)
  None,       \* no conversation
  MaxOpens,   \* bound: how often a conversation is opened or shown again
  MaxSends,   \* bound: how many messages are sent
  MaxFaults   \* bound: how many requests fail

ASSUME PageAssumption == PageSize \in Nat \ {0}
ASSUME NoneAssumption == None \notin Convs
ASSUME BoundsAssumption == MaxOpens \in Nat /\ MaxSends \in Nat /\ MaxFaults \in Nat

VARIABLES
  log,    \* numbers of the stored messages of each conversation, oldest first
  readBy, \* who has read a stored message
  sent,   \* the calls that send: by whom, to where, under which title, what came back
  scr,    \* the screen of each side
  net,    \* reading requests under way
  opens, faults,
  raced   \* history: sides that changed the conversation during a request

vars == <<log, readBy, sent, scr, net, opens, faults, raced>>

Sides == {"company", "worker"}  \* the web console and the mini program
Bubble == [call: 1..MaxSends, stored: BOOLEAN]

\* title: the conversation under which the screen stands; target: the conversation
\* the panel has opened on the server; timer: what is fetched every five seconds.
Screen == [title: Convs \cup {None}, target: Convs \cup {None}, timer: Convs \cup {None},
           shown: Seq(Bubble)]
Blank == [title |-> None, target |-> None, timer |-> None, shown |-> << >>]

Kinds == {"open", "first", "again", "poll"}

\* seen: how many messages there were when the server looked, -1 before it has.
Read == [by: Sides, kind: Kinds, of: Convs, seen: Nat \cup {-1}]
Ask(s, kind, c) == [by |-> s, kind |-> kind, of |-> c, seen |-> -1]

Calls == DOMAIN sent
Numbers(list) == {list[i] : i \in DOMAIN list}
Stored(k) == \E c \in Convs : k \in Numbers(log[c])

\* What the timer of a screen fetches: the panel whatever it has opened by then.
Fetched(s) == IF s = "company" /\ scr[s].timer # None THEN scr[s].target ELSE scr[s].timer

\* The newest PageSize of the first n messages of a conversation.
Page(c, n) == SubSeq(log[c], IF n > PageSize THEN n - PageSize + 1 ELSE 1, n)
AsStored(list) == [i \in DOMAIN list |-> [call |-> list[i], stored |-> TRUE]]

\* What a filter leaves of a list when it keeps these places.
Kept(list, places) ==
  LET nth(j) == CHOOSE i \in places : Cardinality({h \in places : h <= i}) = j
  IN [j \in 1..Cardinality(places) |-> list[nth(j)]]

Init ==
  /\ log = [c \in Convs |-> << >>]
  /\ readBy = [k \in 1..MaxSends |-> {}]
  /\ sent = << >>
  /\ scr = [s \in Sides |-> Blank]
  /\ net = {}
  /\ opens = 0 /\ faults = 0 /\ raced = {}

\* History: the title of a side changes while it waits for an answer.
NoteRace(s) == raced' = IF \E r \in net : r.by = s THEN raced \cup {s} ELSE raced

-----------------------------------------------------------------------------
(* Faulty variants of operators below; not part of the specification.        *)

\* a panel that keeps every bubble it has not had an answer for
MergeAll(list, shown) ==
  AsStored(list) \o Kept(shown, {i \in DOMAIN shown : ~shown[i].stored})

\* closeConversation without its stopPoll
ClosePageOnly ==
  /\ scr["worker"].title # None
  /\ scr' = [scr EXCEPT !["worker"].title = None, !["worker"].shown = << >>]
  /\ NoteRace("worker")
  /\ UNCHANGED <<log, readBy, sent, net, opens, faults>>

\* an error that leaves the bubble where it is
SendFailKeep(k) ==
  /\ k \in Calls /\ sent[k].answer = "pending"
  /\ faults < MaxFaults /\ faults' = faults + 1
  /\ \E a \in {"failed", "lost"} : sent' = [sent EXCEPT ![k].answer = a]
  /\ UNCHANGED <<log, readBy, scr, net, opens, raced>>

\* a timer that does not look whether a conversation is open
TickAnyway(s) ==
  /\ ~\E r \in net : r.by = s /\ r.kind = "poll"
  /\ net' = net \cup {Ask(s, "poll", Fetched(s))}
  /\ UNCHANGED <<log, readBy, sent, scr, opens, faults, raced>>

-----------------------------------------------------------------------------
(* What a screen does with an answer *)

\* The panel keeps a bubble of its own that the list does not answer yet; it takes
\* a message with the same text of its side for the answer.  The page keeps nothing.
Merge(list, shown) ==
  LET answered(k) == \E j \in Numbers(list) :
                       sent[j].text = sent[k].text /\ sent[j].by = sent[k].by
  IN AsStored(list) \o
     Kept(shown, {i \in DOMAIN shown : ~shown[i].stored /\ ~answered(shown[i].call)})

Shows(s, list) == IF s = "company" THEN Merge(list, scr[s].shown) ELSE AsStored(list)

-----------------------------------------------------------------------------
(* Opening and closing *)

Opening(s, c, kind) ==
  /\ opens < MaxOpens /\ opens' = opens + 1
  /\ net' = net \cup {Ask(s, kind, c)}
  /\ NoteRace(s)
  /\ UNCHANGED <<log, readBy, sent, faults>>

\* bootstrap, on mounting and when another conversation is chosen.
OpenPanel(c) ==
  /\ scr["company"].title # c
  /\ scr' = [scr EXCEPT !["company"] = [Blank EXCEPT !.title = c]]
  /\ Opening("company", c, "open")

\* openConversation: a timer there may be keeps running until the list has come.
OpenPage(c) ==
  /\ scr["worker"].title = None
  /\ scr' = [scr EXCEPT !["worker"].title = c, !["worker"].shown = << >>]
  /\ Opening("worker", c, "first")

\* closeConversation
ClosePage ==
  /\ scr["worker"].title # None
  /\ scr' = [scr EXCEPT !["worker"] = Blank]
  /\ NoteRace("worker")
  /\ UNCHANGED <<log, readBy, sent, net, opens, faults>>

\* The timer; at most one of its requests per side is modelled at a time.
Tick(s) ==
  /\ Fetched(s) # None
  /\ ~\E r \in net : r.by = s /\ r.kind = "poll"
  /\ net' = net \cup {Ask(s, "poll", Fetched(s))}
  /\ UNCHANGED <<log, readBy, sent, scr, opens, faults, raced>>

\* useDidShow of the page, when the mini program comes back to the front.
ShowAgain ==
  LET c == scr["worker"].title IN
  /\ c # None
  /\ ~\E r \in net : r.by = "worker" /\ r.kind = "again"
  /\ opens < MaxOpens /\ opens' = opens + 1
  /\ net' = net \cup {Ask("worker", "again", c)}
  /\ UNCHANGED <<log, readBy, sent, scr, faults, raced>>

-----------------------------------------------------------------------------
(* Reading *)

\* getOrCreateConversation, or listMessages, which marks as read what it returns.
Serve(r) ==
  /\ r \in net /\ r.seen = -1
  /\ LET n == Len(log[r.of])
         got == IF r.kind = "open" THEN {} ELSE Numbers(Page(r.of, n))
     IN /\ net' = (net \ {r}) \cup {[r EXCEPT !.seen = n]}
        /\ readBy' = [k \in 1..MaxSends |->
                        IF k \in got THEN readBy[k] \cup {r.by} ELSE readBy[k]]
  /\ UNCHANGED <<log, sent, scr, opens, faults, raced>>

\* The continuation of ensureConversation asks for the history of what it has opened.
AnswerOpen(r) ==
  /\ r \in net /\ r.seen # -1 /\ r.kind = "open"
  /\ scr' = [scr EXCEPT ![r.by].target = r.of]
  /\ net' = (net \ {r}) \cup {Ask(r.by, "first", r.of)}
  /\ UNCHANGED <<log, readBy, sent, opens, faults, raced>>

\* loadHistory, and startPoll behind it; or a tick of the timer.
AnswerList(r) ==
  /\ r \in net /\ r.seen # -1 /\ r.kind # "open"
  /\ net' = net \ {r}
  /\ scr' = [scr EXCEPT ![r.by].shown = Shows(r.by, Page(r.of, r.seen)),
                        ![r.by].timer = IF r.kind = "first" THEN r.of ELSE @]
  /\ UNCHANGED <<log, readBy, sent, opens, faults, raced>>

\* A request fails, or its answer is lost.  Without a conversation nothing goes on;
\* without its history the page is emptied, and the timer starts all the same.
FailRead(r) ==
  /\ r \in net
  /\ faults < MaxFaults /\ faults' = faults + 1
  /\ net' = net \ {r}
  /\ scr' = IF r.kind \in {"open", "poll"} THEN scr
            ELSE [scr EXCEPT ![r.by].timer = IF r.kind = "first" THEN r.of ELSE @,
                             ![r.by].shown = IF r.by = "worker" THEN << >> ELSE @]
  /\ UNCHANGED <<log, readBy, sent, opens, raced>>

-----------------------------------------------------------------------------
(* Sending *)

\* The panel sends to what it has opened, the page to what is under its title, and
\* the page one message at a time.
Send(s, text) ==
  LET to == IF s = "company" THEN scr[s].target ELSE scr[s].title
      k == Len(sent) + 1
  IN /\ to # None /\ k <= MaxSends
     /\ s = "worker" => ~\E j \in Calls : sent[j].by = s /\ sent[j].answer = "pending"
     /\ sent' = Append(sent, [by |-> s, to |-> to, title |-> scr[s].title,
                              text |-> text, answer |-> "pending"])
     /\ scr' = [scr EXCEPT ![s].shown = Append(@, [call |-> k, stored |-> FALSE])]
     /\ UNCHANGED <<log, readBy, net, opens, faults, raced>>

\* saveMessage; a request that its sender has given up may still arrive.
Store(k) ==
  /\ k \in Calls /\ ~Stored(k) /\ sent[k].answer # "lost"
  /\ log' = [log EXCEPT ![sent[k].to] = Append(@, k)]
  /\ readBy' = [readBy EXCEPT ![k] = {sent[k].by}]
  /\ UNCHANGED <<sent, scr, net, opens, faults, raced>>

\* The answer turns the bubble into the message, if the bubble is still there.
SendOk(k) ==
  /\ k \in Calls /\ sent[k].answer = "pending" /\ Stored(k)
  /\ sent' = [sent EXCEPT ![k].answer = "ok"]
  /\ scr' = [scr EXCEPT ![sent[k].by].shown =
               [i \in DOMAIN @ |-> IF @[i].call = k THEN [call |-> k, stored |-> TRUE] ELSE @[i]]]
  /\ UNCHANGED <<log, readBy, net, opens, faults, raced>>

\* An error takes the bubble away.  The message may be stored by then (updateLastMsgAt
\* comes after saveMessage), may be stored later, or is lost.
SendFail(k) ==
  /\ k \in Calls /\ sent[k].answer = "pending"
  /\ faults < MaxFaults /\ faults' = faults + 1
  /\ \E a \in {"failed", "lost"} : sent' = [sent EXCEPT ![k].answer = a]
  /\ scr' = [scr EXCEPT ![sent[k].by].shown =
               Kept(@, {i \in DOMAIN @ : @[i].stored \/ @[i].call # k})]
  /\ UNCHANGED <<log, readBy, net, opens, raced>>

-----------------------------------------------------------------------------
Answer(r) == Serve(r) \/ AnswerOpen(r) \/ AnswerList(r)
Sending(k) == (sent[k].answer = "pending" /\ Store(k)) \/ SendOk(k)

Next ==
  \/ \E c \in Convs : OpenPanel(c) \/ OpenPage(c)
  \/ ClosePage \/ ShowAgain
  \/ \E s \in Sides : Tick(s) \/ \E text \in Texts : Send(s, text)
  \/ \E r \in net : Serve(r) \/ AnswerOpen(r) \/ AnswerList(r) \/ FailRead(r)
  \/ \E k \in Calls : Store(k) \/ SendOk(k) \/ SendFail(k)

Spec == Init /\ [][Next]_vars

\* The server and the timers go on; people need not do anything.
FairSpec ==
  /\ Spec
  /\ \A s \in Sides : WF_vars(Tick(s))
  /\ \A s \in Sides, kind \in Kinds, c \in Convs :
       WF_vars(\E r \in net : r.by = s /\ r.kind = kind /\ r.of = c /\ Answer(r))
  /\ \A k \in 1..MaxSends : WF_vars(k \in Calls /\ Sending(k))

-----------------------------------------------------------------------------
(* Properties *)

TypeOK ==
  /\ log \in [Convs -> Seq(1..MaxSends)]
  /\ readBy \in [1..MaxSends -> SUBSET Sides]
  /\ sent \in Seq([by: Sides, to: Convs, title: Convs \cup {None}, text: Texts,
                   answer: {"pending", "ok", "failed", "lost"}])
  /\ scr \in [Sides -> Screen]
  /\ net \subseteq Read
  /\ opens \in 0..MaxOpens /\ faults \in 0..MaxFaults
  /\ raced \subseteq Sides

\* However sending and fetching overlap, a screen never shows a message twice, as a
\* message and as the bubble it was before (the merge in ImChatPanel.vue, the map in the
\* message page), and what it shows of the other side is marked as read there
\* (listMessages marks before it answers).
ShownOnceAndRead ==
  \A s \in Sides : \A i \in DOMAIN scr[s].shown :
    LET b == scr[s].shown[i]
    IN /\ \A j \in DOMAIN scr[s].shown : scr[s].shown[j].call = b.call => i = j
       /\ b.stored => s \in readBy[b.call]

\* What is shown, and what is sent, belongs to the conversation under the title, unless
\* the title was changed while an answer of that side was on its way: nothing in the
\* two screens ties an answer to the title it was asked under.
UnderTitleUnlessRaced ==
  \A s \in Sides \ raced :
    /\ \A k \in Calls : sent[k].by = s => sent[k].to = sent[k].title
    /\ scr[s].title # None =>
         \A i \in DOMAIN scr[s].shown : sent[scr[s].shown[i].call].to = scr[s].title

\* Lost, late and reordered answers are made good by the timer: in the end a screen
\* shows the newest messages of the conversation its timer fetches, and no others.
Settles ==
  \A s \in Sides :
    <>[](Fetched(s) # None =>
           scr[s].shown = AsStored(Page(Fetched(s), Len(log[Fetched(s)]))))
=============================================================================
