--------------------------- MODULE LanguageModel ----------------------------
(***************************************************************************)
(* The language model of a simulator (src/llm.ts): agents that converse    *)
(* with it and run the tools it asks for, answers scripted by a test, and  *)
(* the real API, whose messages have another form.                         *)
(*                                                                         *)
(* Of a message the model keeps who says it, the tool calls it makes or    *)
(* answers, whether it has a text, and whether its content is a list.      *)
(* Tools, models, usage and finish reasons are left out.                   *)
(*                                                                         *)
(* Assumed of an agent: it answers all the calls of an answer, and nothing *)
(* but them, before it says anything else.  Bounds: MaxTalk messages of an *)
(* agent, and as many scripted answers as there are in Scripts.            *)
(***************************************************************************)
EXTENDS SequencesExt, Naturals

CONSTANTS Agents,
          ToolCalls,     \* the calls an answer may make
          ApiReplies,    \* what the API may answer: [calls, text]
          Scripts,       \* the answers a test scripts, each used once: numbers
          CallsOf,       \* script -> the calls it makes
          MaxTalk

ASSUME CallsAssumption == /\ CallsOf \in [Scripts -> SUBSET ToolCalls]
                          /\ ApiReplies \subseteq [calls : SUBSET ToolCalls, text : BOOLEAN]

NoScript == 0

VARIABLES talk,        \* agent -> its conversation: [role, calls, text, list]
          asking,      \* the agents whose chat() is at the API
          wire,        \* history: the last request that an agent sent
          queued,      \* responseQueue: the scripts not yet used
          scripted,    \* history: the scripts, in the order of mockResponse()
          hasKey,      \* a key is in the environment or the config
          calledBack   \* callHistory: [agent, script], NoScript when the API answered

lmVars == <<talk, asking, wire, queued, scripted, hasKey, calledBack>>

Says(role, made, text, list) == [role |-> role, calls |-> made, text |-> text, list |-> list]
IsIdle(g) == g \notin asking

\* The calls of the last answer that no tool message has answered yet.
ResultsAfter(t, i) == UNION {t[j].calls : j \in {k \in i + 1..Len(t) : t[k].role = "tool"}}
OpenIn(t) ==
  LET i == SelectLastInSeq(t, LAMBDA m : m.role = "assistant")
  IN  IF i = 0 THEN {} ELSE t[i].calls \ ResultsAfter(t, i)
OpenCalls(g) == OpenIn(talk[g])

Adds(g, m) == Len(talk[g]) < MaxTalk /\ talk' = [talk EXCEPT ![g] = Append(@, m)]

\* A system message may come anywhere.
Say(g, role, list) ==
  /\ IsIdle(g)
  /\ role = "user" => OpenCalls(g) = {}
  /\ Adds(g, Says(role, {}, TRUE, list))
  /\ UNCHANGED <<asking, wire, queued, scripted, hasKey, calledBack>>

RunTool(g, c) ==
  /\ IsIdle(g) /\ c \in OpenCalls(g)
  /\ Adds(g, Says("tool", {c}, TRUE, FALSE))
  /\ UNCHANGED <<asking, wire, queued, scripted, hasKey, calledBack>>

-----------------------------------------------------------------------------
(* toAnthropicMessages() *)

Sent(role, uses, results, list) ==
  [role |-> role, uses |-> uses, results |-> results, list |-> list]

\* Mutant: each result is a message of its own.
OwnMessage(sent, m) == Append(sent, Sent("user", {}, m.calls, TRUE))

\* Into the user's message before it, if its content is a list.
WithResult(sent, m) ==
  IF sent # <<>> /\ Last(sent).role = "user" /\ Last(sent).list
  THEN [sent EXCEPT ![Len(sent)].results = @ \cup m.calls]
  ELSE Append(sent, Sent("user", {}, m.calls, TRUE))

\* The system's words go apart, an empty answer is left out.
Translate(sent, m) ==
  CASE m.role = "system" -> sent
    [] m.role = "user" -> Append(sent, Sent("user", {}, {}, m.list))
    [] m.role = "assistant" /\ (m.text \/ m.calls # {}) ->
         Append(sent, Sent("assistant", m.calls, {}, TRUE))
    [] m.role = "assistant" /\ ~m.text /\ m.calls = {} -> sent
    [] m.role = "tool" -> WithResult(sent, m)

ToMessages(messages) ==
  LET after[i \in 0..Len(messages)] ==
        IF i = 0 THEN <<>> ELSE Translate(after[i - 1], messages[i])
  IN  after[Len(messages)]

-----------------------------------------------------------------------------
(* chat() *)

Answers(g, made, text, script) ==
  /\ Adds(g, Says("assistant", made, text, TRUE))
  /\ calledBack' = Append(calledBack, [agent |-> g, script |-> script])

\* Mutant: the newest script is taken.
LastScript == Last(queued)

NextScript == Head(queued)

ChatScripted(g) ==
  /\ IsIdle(g) /\ OpenCalls(g) = {} /\ talk[g] # <<>> /\ queued # <<>>
  /\ queued' = RemoveFirst(queued, NextScript)
  /\ Answers(g, CallsOf[NextScript], TRUE, NextScript)
  /\ UNCHANGED <<asking, wire, scripted, hasKey>>

\* Without a key the chat fails at once, and nothing changes.
ChatForReal(g) ==
  /\ IsIdle(g) /\ OpenCalls(g) = {} /\ talk[g] # <<>> /\ queued = <<>> /\ hasKey
  /\ LET request == ToMessages(talk[g]) IN
       /\ request # <<>>
       /\ asking' = asking \cup {g}
       /\ wire' = [wire EXCEPT ![g] = request]
  /\ UNCHANGED <<talk, queued, scripted, hasKey, calledBack>>

ApiAnswers(g, made, text) ==
  /\ ~IsIdle(g) /\ OpenCalls(g) = {}
  /\ asking' = asking \ {g}
  /\ Answers(g, made, text, NoScript)
  /\ UNCHANGED <<wire, queued, scripted, hasKey>>

ApiFails(g) ==
  /\ ~IsIdle(g)
  /\ asking' = asking \ {g}
  /\ UNCHANGED <<talk, wire, queued, scripted, hasKey, calledBack>>

-----------------------------------------------------------------------------
MockResponse(s) ==
  /\ s \notin ToSet(scripted)
  /\ queued' = Append(queued, s) /\ scripted' = Append(scripted, s)
  /\ UNCHANGED <<talk, asking, wire, hasKey, calledBack>>

SetApiKey ==
  /\ ~hasKey /\ hasKey' = TRUE
  /\ UNCHANGED <<talk, asking, wire, queued, scripted, calledBack>>

\* The key stays, and so does a chat on its way.
ResetModel ==
  /\ calledBack # <<>> \/ queued # <<>>
  /\ queued' = <<>> /\ calledBack' = <<>>
  /\ UNCHANGED <<talk, asking, wire, scripted, hasKey>>

LanguageModelInit ==
  /\ talk = [g \in Agents |-> <<>>] /\ asking = {}
  /\ wire = [g \in Agents |-> <<>>] /\ queued = <<>> /\ scripted = <<>>
  /\ hasKey \in BOOLEAN
  /\ calledBack = <<>>

LanguageModelNext ==
  \/ \E g \in Agents :
       \/ Say(g, "system", FALSE) \/ Say(g, "user", TRUE) \/ Say(g, "user", FALSE)
       \/ \E c \in ToolCalls : RunTool(g, c)
       \/ ChatScripted(g) \/ ChatForReal(g) \/ ApiFails(g)
       \/ \E a \in ApiReplies : ApiAnswers(g, a.calls, a.text)
  \/ \E s \in Scripts : MockResponse(s)
  \/ SetApiKey \/ ResetModel

LanguageModelSpec == LanguageModelInit /\ [][LanguageModelNext]_lmVars

-----------------------------------------------------------------------------
\* The API takes a conversation only if the results of all the calls of an answer are in the
\* one message that follows it, and no message holds other results.
WellFormed(sent) ==
  \A i \in DOMAIN sent :
    /\ sent[i].uses # {} => /\ i < Len(sent)
                            /\ sent[i + 1].results = sent[i].uses
    /\ sent[i].results # {} => /\ i > 1
                               /\ sent[i].role = "user"
                               /\ sent[i].results = sent[i - 1].uses

\* Whatever an agent said, was answered by a script or by the API, and whichever tools it
\* ran in whichever order, the conversation it sends is one the API takes: system messages,
\* empty answers and lists as contents do not come between a call and its result.  Scripted
\* answers are used once each, in the order in which they were scripted.
ConversationsHold ==
  /\ \A g \in Agents : WellFormed(wire[g])
  /\ LET FromScript == {i \in DOMAIN calledBack : calledBack[i].script # NoScript} IN
     \A i, j \in FromScript : i < j =>
       \E m, n \in DOMAIN scripted : /\ m < n
                                      /\ scripted[m] = calledBack[i].script
                                      /\ scripted[n] = calledBack[j].script
=============================================================================
