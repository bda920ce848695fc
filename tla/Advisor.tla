-------------------------------- MODULE Advisor --------------------------------
(***************************************************************************)
(* The assistants of a company (ai.service.ts): agents, the model presets     *)
(* they use, and the conversations a user has with one on two pages           *)
(* (TaskCreatePage.vue, AgentListPage.vue).  What has been said is kept in    *)
(* the memory of the server, and the page gives up before the model does.     *)
(***************************************************************************)
EXTENDS Integers, Sequences, Functions, FiniteSets

CONSTANTS
  Agents, Presets,   \* rows that can be created
  NoPreset,          \* null: the company's own model
  MaxAgents,         \* 20
  MaxHistory,        \* MAX_HISTORY, in rounds
  MaxRounds,         \* the rounds of the drawer: 30
  MaxCalls,          \* bound: requests
  MaxFaults          \* bound: models that fail, pages that give up, restarts

VARIABLES
  agent,    \* rows: whether the agent is there and isActive, and its preset
  preset,   \* the presets there are
  wish,     \* history: the preset that was last saved for each agent
  owner,    \* of each session, its agent
  history,  \* sessionHistoryCache: of each session, the questions that were answered
  talk,     \* the page: drawer or dialog, agent, session, aiLoading, rounds, and what it shows answered
  run,      \* requests under way
  raced,    \* history: agents and presets whose calls overlapped
  strayed,  \* history: another agent was chosen before an answer, or the memory was lost
  calls, faults

rows == <<agent, preset, wish>>
memory == <<owner, history>>
vars == <<rows, memory, talk, run, raced, strayed, calls, faults>>

Null == CHOOSE a \in Agents : TRUE     \* of a request that names no agent
\* Of the lines, those of the user are counted, and of the others the answers are kept.
Talk == [place: {"drawer", "dialog"}, agent: Agents, session: Nat, busy: BOOLEAN,
         rounds: Nat, answered: Seq(Nat)]
Request == [n: Nat, op: {"chat", "create", "update", "delete", "toggle", "drop"},
            at: {"sent", "asked", "answered", "refused"}, agent: Agents, session: Nat,
            preset: Presets \cup {NoPreset}, on: BOOLEAN, given: Seq(Nat), waits: BOOLEAN]

There == {a \in Agents : agent[a].there}

Init ==
  /\ preset = Presets
  /\ agent = [a \in Agents |-> [there |-> a = Null, on |-> a = Null, preset |-> NoPreset]]
  /\ wish = [a \in Agents |-> NoPreset]
  /\ owner = << >> /\ history = << >>
  /\ talk \in [place: {"drawer", "dialog"}, agent: {Null}, session: {0}, busy: {FALSE},
               rounds: {0}, answered: {<< >>}]
  /\ run = {} /\ raced = {} /\ strayed = FALSE /\ calls = 0 /\ faults = 0

Goes(c, to) == c \in run /\ run' = (run \ {c}) \cup {to}
Ends(c) == c \in run /\ run' = run \ {c}
Fault == faults < MaxFaults /\ faults' = faults + 1
Waiting == {c \in run : c.op = "chat" /\ c.waits}

-----------------------------------------------------------------------------
(* Faulty variants of operators below; not part of the specification.        *)

\* the answer's session is not kept
AnswerForgets(c) ==
  /\ c.op = "chat" /\ c.at = "answered" /\ Ends(c)
  /\ talk' = [talk EXCEPT !.answered = Append(@, c.n), !.busy = FALSE]
  /\ UNCHANGED <<rows, memory, raced, strayed, calls, faults>>

-----------------------------------------------------------------------------
(* The page *)

\* Opening the dialog clears the page; changing the agent in the drawer does not clear
\* aiLoading.
Choose(a) ==
  /\ a \in There /\ (talk.place = "drawer" => a # talk.agent)
  /\ talk' = [talk EXCEPT !.agent = a, !.session = 0, !.rounds = 0, !.answered = << >>,
                          !.busy = @ /\ talk.place = "drawer"]
  /\ strayed' = (strayed \/ Waiting # {})
  /\ UNCHANGED <<rows, memory, run, raced, calls, faults>>

Ask ==
  /\ ~talk.busy /\ (talk.place = "drawer" => talk.rounds < MaxRounds)
  /\ calls < MaxCalls /\ calls' = calls + 1
  /\ LET c == [n |-> calls, op |-> "chat", at |-> "sent", agent |-> talk.agent,
               session |-> talk.session, preset |-> NoPreset, on |-> TRUE,
               given |-> << >>, waits |-> TRUE]
     IN /\ run' = run \cup {c}
        /\ talk' = [talk EXCEPT !.rounds = @ + 1, !.busy = TRUE]
  /\ UNCHANGED <<rows, memory, raced, strayed, faults>>

Answer(c) ==
  /\ c.op = "chat" /\ c.at = "answered" /\ Ends(c)
  /\ talk' = IF c.waits
             THEN [talk EXCEPT !.answered = Append(@, c.n), !.session = c.session, !.busy = FALSE]
             ELSE talk
  /\ UNCHANGED <<rows, memory, raced, strayed, calls, faults>>

\* The line it adds is neither a round nor an answer.
Apologised == [talk EXCEPT !.busy = FALSE]

Refused(c) ==
  /\ c.op = "chat" /\ c.at = "refused" /\ Ends(c)
  /\ talk' = IF c.waits THEN Apologised ELSE talk
  /\ UNCHANGED <<rows, memory, raced, strayed, calls, faults>>

\* The page waits for 15 seconds, the server for 30.
GiveUp(c) ==
  /\ c \in Waiting /\ Goes(c, [c EXCEPT !.waits = FALSE])
  /\ talk' = Apologised
  /\ Fault /\ UNCHANGED <<rows, memory, raced, strayed, calls>>

-----------------------------------------------------------------------------
(* chat *)

\* The agent is active; a session is found, or created for this agent.  Its history is what
\* the model is given.
Look(c) ==
  /\ c.op = "chat" /\ c.at = "sent" /\ agent[c.agent].there /\ agent[c.agent].on
  /\ IF c.session = 0
     THEN /\ owner' = Append(owner, c.agent) /\ history' = Append(history, << >>)
          /\ Goes(c, [c EXCEPT !.at = "asked", !.session = Len(owner) + 1])
     ELSE /\ Goes(c, [c EXCEPT !.at = "asked", !.given = history[c.session]])
          /\ UNCHANGED memory
  /\ UNCHANGED <<rows, talk, raced, strayed, calls, faults>>

NotFound(c) ==
  /\ c.op = "chat" /\ c.at = "sent" /\ ~(agent[c.agent].there /\ agent[c.agent].on)
  /\ Goes(c, [c EXCEPT !.at = "refused"])
  /\ UNCHANGED <<rows, memory, talk, raced, strayed, calls, faults>>

\* The round goes to the end of the history as that is by now, and the oldest ones go.
Remember(h, n) ==
  IF Len(h) = MaxHistory THEN Append(Tail(h), n) ELSE Append(h, n)

ModelAnswers(c) ==
  /\ c.op = "chat" /\ c.at = "asked" /\ Goes(c, [c EXCEPT !.at = "answered"])
  /\ history' = [history EXCEPT ![c.session] = Remember(@, c.n)]
  /\ UNCHANGED <<rows, owner, talk, raced, strayed, calls, faults>>

\* The model, or the count of the tokens behind its answer, fails.
Fail(c) ==
  /\ c.op = "chat" /\ c.at \in {"asked", "answered"} /\ Goes(c, [c EXCEPT !.at = "refused"])
  /\ Fault /\ UNCHANGED <<rows, memory, talk, raced, strayed, calls>>

Restart ==
  /\ history' = [s \in DOMAIN history |-> << >>]
  /\ run' = {[c EXCEPT !.at = "refused"] : c \in Waiting}
  /\ strayed' = TRUE
  /\ Fault /\ UNCHANGED <<rows, owner, talk, raced, calls>>

-----------------------------------------------------------------------------
(* Agents and presets: each call looks, and then writes by id *)

Touches(c) == IF c.op = "drop" THEN {c.preset} ELSE {c.agent, c.preset} \ {NoPreset}

Begin(op, a, p) ==
  /\ calls < MaxCalls /\ calls' = calls + 1
  /\ LET c == [n |-> calls, op |-> op, at |-> "asked", agent |-> a, session |-> 0,
               preset |-> p, on |-> agent[a].on, given |-> << >>, waits |-> FALSE]
         met == {d \in run : d.op # "chat" /\ Touches(d) \cap Touches(c) # {}}
     IN /\ run' = run \cup {c}
        /\ raced' = raced \cup UNION {Touches(c) \cup Touches(d) : d \in met}
  /\ UNCHANGED <<rows, memory, talk, strayed, faults>>

\* createAgent, of a row that is not there, and updateAgent
SaveRead(a, p) ==
  /\ p \in preset \cup {NoPreset}
  /\ \/ a \in There /\ Begin("update", a, p)
     \/ a \notin There /\ Cardinality(There) < MaxAgents /\ Begin("create", a, p)

ToggleRead(a) == a \in There /\ Begin("toggle", a, NoPreset)
DeleteRead(a) == a \in There /\ Begin("delete", a, NoPreset)

\* deleteModelPreset counts the agents that use it.
DropRead(p) ==
  /\ p \in preset /\ \A a \in There : agent[a].preset # p
  /\ Begin("drop", Null, p)

\* Foreign keys refuse a preset that is gone and the end of an agent with sessions, and set
\* null where a preset goes.
Allowed(c) ==
  /\ (c.agent \in There) = (c.op \in {"update", "toggle", "delete"}) \/ c.op = "drop"
  /\ c.op \in {"create", "update"} => c.preset \in preset \cup {NoPreset}
  /\ c.op = "delete" => \A s \in DOMAIN owner : owner[s] # c.agent
  /\ c.op = "drop" => c.preset \in preset

Row(c) ==
  CASE c.op = "create" -> [there |-> TRUE, preset |-> c.preset, on |-> TRUE]
    [] c.op = "update" -> [agent[c.agent] EXCEPT !.preset = c.preset]
    [] c.op = "toggle" -> [agent[c.agent] EXCEPT !.on = ~c.on]
    [] c.op = "delete" -> [there |-> FALSE, preset |-> NoPreset, on |-> FALSE]

Write(c) ==
  /\ c.op # "chat" /\ Ends(c) /\ Allowed(c)
  /\ IF c.op = "drop"
     THEN /\ preset' = preset \ {c.preset}
          /\ agent' = [a \in Agents |->
               IF agent[a].preset = c.preset THEN [agent[a] EXCEPT !.preset = NoPreset] ELSE agent[a]]
          /\ UNCHANGED wish
     ELSE /\ agent' = [agent EXCEPT ![c.agent] = Row(c)]
          /\ wish' = [wish EXCEPT ![c.agent] = agent'[c.agent].preset]
          /\ UNCHANGED preset
  /\ UNCHANGED <<memory, talk, raced, strayed, calls, faults>>

WriteFails(c) ==
  /\ c.op # "chat" /\ Ends(c) /\ ~Allowed(c)
  /\ UNCHANGED <<rows, memory, talk, raced, strayed, calls, faults>>

Next ==
  \/ Ask \/ Restart
  \/ \E a \in Agents :
       \/ Choose(a) \/ ToggleRead(a) \/ DeleteRead(a)
       \/ \E p \in Presets \cup {NoPreset} : SaveRead(a, p)
  \/ \E p \in Presets : DropRead(p)
  \/ \E c \in run : \/ Answer(c) \/ Refused(c) \/ GiveUp(c)
                    \/ Look(c) \/ NotFound(c) \/ ModelAnswers(c) \/ Fail(c)
                    \/ Write(c) \/ WriteFails(c)

Spec == Init /\ [][Next]_vars

-----------------------------------------------------------------------------
(* Properties *)

TypeOK ==
  /\ agent \in [Agents -> [there: BOOLEAN, on: BOOLEAN, preset: Presets \cup {NoPreset}]]
  /\ preset \subseteq Presets /\ wish \in [Agents -> Presets \cup {NoPreset}]
  /\ owner \in Seq(Agents) /\ history \in Seq(Seq(Nat)) /\ Len(owner) = Len(history)
  /\ \A s \in DOMAIN history : Len(history[s]) <= MaxHistory
  /\ talk \in Talk /\ run \subseteq Request
  /\ raced \subseteq Agents \cup Presets /\ strayed \in BOOLEAN
  /\ calls \in 0..MaxCalls /\ faults \in 0..MaxFaults

Suffix(s, k) == IF Len(s) <= k THEN s ELSE SubSeq(s, Len(s) - k + 1, Len(s))

\* A model that is asked is given what the user has seen answered on the page, the latest
\* rounds of it in their order.  After requests that failed or were given up it may have
\* rounds the page does not show, but lacks one only if its history is full.  This is so
\* unless the agent was changed before an answer came, or the server forgot.
ContextUnlessStrayed ==
  ~strayed => \A c \in Waiting : c.at = "asked" =>
    /\ faults = 0 => c.given = Suffix(talk.answered, MaxHistory)
    /\ Len(c.given) < MaxHistory => Range(talk.answered) \subseteq Range(c.given)
    /\ owner[c.session] = talk.agent

\* An agent uses the model that was saved for it, whatever is deleted, unless a call for one
\* of its presets overlapped with another one.
KeepsPresetUnlessRaced ==
  \A a \in There \ raced : wish[a] \notin raced => agent[a].preset = wish[a]
=============================================================================
