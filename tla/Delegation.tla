----------------------------- MODULE Delegation -----------------------------
(***************************************************************************)
(* A chat request that the coordinator hands to a specialist:              *)
(* internal/agent/coordinator.go and subagent.go, from HandleChat's        *)
(* decision to the stored reply, or to the direct path of module AgentLoop *)
(* (pc = "direct").                                                        *)
(*                                                                         *)
(* A specialist has a memory and a tool loop of its own.  Messages are     *)
(* what pairs calls with results; a result is the parts it consists of.    *)
(* The coordinator never names more than one specialist, and none that     *)
(* does not exist, so the loop over their names is left out.               *)
(***************************************************************************)
EXTENDS Integers, Sequences, FiniteSets

CONSTANTS
  Rounds,          \* Rounds[s]: MaxIterations of the specialist s
  Window,          \* of its Memory
  Tools,           \* names of tools
  CallsPerReply    \* bound: tool calls in one model reply

Specialists == {"dashboard", "investigation"}

ASSUME RoundsAssumption == Rounds \in [Specialists -> Nat \ {0}]
ASSUME SizeAssumption ==
  {Window, CallsPerReply} \subseteq Nat \ {0}

VARIABLES
  pc,          \* where the handler is
  phase,       \* what the client has seen (module ChatStream)
  announced,   \* tool calls announced to the client
  agent,       \* the specialist
  mem,         \* its memory, without the system message
  sentFrom,    \* first message of mem in the model call under way
  iteration,   \* rounds of its loop so far
  pending,     \* calls of the last reply not yet served
  tool,        \* the tool it has called
  toolsUsed,   \* result.ToolsUsed
  failures,    \* history: what has failed, in order
  error,       \* result.Error: which of the failures it tells of, 0 if none
  summary,     \* result.Summary
  reply,       \* parts of the delegated reply
  saved        \* parts of the stored reply

clientVars == <<phase, announced>>
loopVars == <<mem, sentFrom, iteration, pending, tool>>
resultVars == <<toolsUsed, error, summary, failures>>
vars == <<pc, agent, clientVars, loopVars, resultVars, reply, saved>>

Message == [role : {"user", "assistant", "tool"}, calls : Nat, owner : Nat]
Question == [role |-> "user", calls |-> 0, owner |-> 0]
Errors == {"tool", "model", "rounds"}
Parts == {"summary", "evidence", "note", "failure", "nothing"}

-----------------------------------------------------------------------------
(* The coordinator *)

Intents == {"docs", "lookup", "analysis", "incident", "other"}

\* coordinatorDecide.  A "lookup" asks for a dashboard and nothing else; a
\* request to "analysis" is one that names a dashboard and asks more of it.
Decision(intent, sure) ==
  CASE intent = "lookup" /\ sure -> {"dashboard"}
    [] intent = "incident" -> {"investigation"}
    [] OTHER -> {}

Init ==
  /\ pc = "idle" /\ phase = "idle" /\ announced = 0 /\ agent = "none"
  /\ mem = <<>> /\ sentFrom = 0 /\ iteration = 0 /\ pending = 0 /\ tool = "none"
  /\ toolsUsed = {} /\ failures = <<>> /\ error = 0 /\ summary = FALSE
  /\ reply = {} /\ saved = {}

\* HandleChat has opened the response and stored the question.  The direct
\* path is taken when sub-agents are off, without tool clients or a model,
\* and when the coordinator says so.
Decide ==
  /\ pc = "idle"
  /\ phase' = "open"
  /\ \E intent \in Intents, sure, able \in BOOLEAN :
       IF able /\ Decision(intent, sure) # {}
       THEN /\ agent' \in Decision(intent, sure)
            /\ mem' = <<Question>>
            /\ pc' = "round"
       ELSE pc' = "direct" /\ UNCHANGED <<agent, mem>>
  /\ UNCHANGED <<announced, sentFrom, iteration, pending, tool, resultVars, reply, saved>>

-----------------------------------------------------------------------------
(* The loop of the specialist *)

WindowFrom == IF Len(mem) > Window THEN Len(mem) - Window + 1 ELSE 1

\* MUTANT of Ask: the window is not moved back to the question.
AskLast ==
  /\ pc = "round" /\ iteration < Rounds[agent]
  /\ pc' = "chat" /\ sentFrom' = Len(mem)
  /\ UNCHANGED <<agent, clientVars, mem, iteration, pending, tool, resultVars, reply, saved>>

\* MUTANT of Ask: the rounds are counted from one on.
AskOnceMore ==
  /\ pc = "round" /\ iteration <= Rounds[agent]
  /\ pc' = "chat" /\ sentFrom' = WindowFrom
  /\ UNCHANGED <<agent, clientVars, mem, iteration, pending, tool, resultVars, reply, saved>>

Ask ==
  /\ pc = "round" /\ iteration < Rounds[agent]
  /\ pc' = "chat" /\ sentFrom' = WindowFrom
  /\ UNCHANGED <<agent, clientVars, mem, iteration, pending, tool, resultVars, reply, saved>>

\* MUTANT of Fail: a later failure always replaces an earlier one.
FailLatest(kind, overwrites) ==
  /\ failures' = Append(failures, kind)
  /\ error' = Len(failures')

\* One more failure: it becomes the error of the result, or only if it is the first.
Fail(kind, overwrites) ==
  /\ failures' = Append(failures, kind)
  /\ error' = IF overwrites \/ error = 0 THEN Len(failures') ELSE error

\* MUTANT of OutOfRounds: one more round is always tried.
OutOfRoundsLate ==
  /\ pc = "round" /\ iteration > Rounds[agent]
  /\ pc' = "answer" /\ summary' = TRUE /\ Fail("rounds", FALSE)
  /\ UNCHANGED <<agent, clientVars, loopVars, toolsUsed, reply, saved>>

\* An error so far is kept; the summary says that nothing was completed.
OutOfRounds ==
  /\ pc = "round" /\ iteration = Rounds[agent]
  /\ pc' = "answer"
  /\ summary' = TRUE /\ Fail("rounds", FALSE)
  /\ UNCHANGED <<agent, clientVars, loopVars, toolsUsed, reply, saved>>

\* The model call fails or the request is cancelled: its error replaces one of a
\* tool, and what was found so far has no summary.
CallFails ==
  /\ pc = "chat"
  /\ pc' = "answer"
  /\ Fail("model", TRUE)
  /\ UNCHANGED <<agent, clientVars, loopVars, toolsUsed, summary, reply, saved>>

\* A reply without tool calls is the summary; an empty one says so.
ReplyText ==
  /\ pc = "chat"
  /\ pc' = "answer" /\ summary' = TRUE
  /\ UNCHANGED <<agent, clientVars, loopVars, toolsUsed, error, failures, reply, saved>>

ReplyCalls ==
  /\ pc = "chat"
  /\ \E n \in 1..CallsPerReply :
       /\ mem' = Append(mem, [role |-> "assistant", calls |-> n, owner |-> 0])
       /\ pending' = n
  /\ pc' = "serve"
  /\ UNCHANGED <<agent, clientVars, sentFrom, iteration, tool, resultVars, reply, saved>>

\* A call without a name is left out, and stays unanswered.
SkipCall ==
  /\ pc = "serve" /\ pending > 0
  /\ pending' = pending - 1
  /\ UNCHANGED <<pc, agent, clientVars, mem, sentFrom, iteration, tool, resultVars, reply, saved>>

StartCall ==
  /\ pc = "serve" /\ pending > 0
  /\ pc' = "tool" /\ tool' \in Tools
  /\ phase' = "tool" /\ announced' = announced + 1
  /\ UNCHANGED <<agent, mem, sentFrom, iteration, pending, resultVars, reply, saved>>

\* The message whose calls are served: the last one of the model.
CallAt == CHOOSE i \in DOMAIN mem :
  mem[i].role = "assistant" /\ \A j \in DOMAIN mem : mem[j].role = "assistant" => j <= i

\* MUTANT of FinishCall: the result of a call is not reported to the client.
FinishCallUnreported ==
  /\ pc = "tool"
  /\ toolsUsed' = toolsUsed \cup {tool}
  /\ mem' = Append(mem, [role |-> "tool", calls |-> 0, owner |-> CallAt])
  /\ pending' = pending - 1
  /\ pc' = "serve"
  /\ UNCHANGED <<agent, clientVars, sentFrom, iteration, tool, error, summary, failures,
                 reply, saved>>

\* A tool that fails is reported to the model as well; the first one is the
\* error of the result.
FinishCall ==
  /\ pc = "tool"
  /\ \/ toolsUsed' = toolsUsed \cup {tool} /\ UNCHANGED <<error, failures>>
     \/ Fail("tool", FALSE) /\ UNCHANGED toolsUsed
  /\ mem' = Append(mem, [role |-> "tool", calls |-> 0, owner |-> CallAt])
  /\ pending' = pending - 1
  /\ phase' = "open"
  /\ pc' = "serve"
  /\ UNCHANGED <<agent, announced, sentFrom, iteration, tool, summary, reply, saved>>

NextRound ==
  /\ pc = "serve" /\ pending = 0
  /\ iteration' = iteration + 1
  /\ pc' = "round"
  /\ UNCHANGED <<agent, clientVars, mem, sentFrom, pending, tool, resultVars, reply, saved>>

-----------------------------------------------------------------------------
(* The reply *)

Part(name, holds) == IF holds THEN {name} ELSE {}

\* synthesizeSubAgentResponse, for the one specialist.
Synthesis ==
  LET findings == Part("summary", summary) \cup Part("evidence", toolsUsed # {})
                  \cup Part("note", error # 0)
  IN  CASE agent = "investigation" -> IF findings = {} THEN {"nothing"} ELSE findings
        [] agent = "dashboard" /\ summary -> {"summary"}
        [] OTHER -> Part("failure", error # 0)

\* MUTANT of Respond: a specialist without a summary is handed back.
RespondOrHandBack ==
  /\ pc = "answer"
  /\ IF summary
     THEN reply' = Synthesis /\ phase' = "closed" /\ pc' = "save"
     ELSE pc' = "direct" /\ UNCHANGED <<reply, phase>>
  /\ UNCHANGED <<agent, announced, loopVars, resultVars, saved>>

\* The audit entry, and the "token", "complete" and "done" chunks.
Respond ==
  /\ pc = "answer"
  /\ reply' = Synthesis
  /\ phase' = "closed"
  /\ pc' = "save"
  /\ UNCHANGED <<agent, announced, loopVars, resultVars, saved>>

\* An error of the store is ignored.
Save ==
  /\ pc = "save"
  /\ saved' \in {reply, {}}
  /\ pc' = "ended"
  /\ UNCHANGED <<agent, clientVars, loopVars, resultVars, reply>>

-----------------------------------------------------------------------------
\* The steps the handler takes by itself, and those the model or a tool takes.
Handle ==
  \/ Ask \/ OutOfRounds \/ SkipCall \/ StartCall \/ NextRound
  \/ Respond \/ Save

Return == CallFails \/ ReplyText \/ ReplyCalls \/ FinishCall

Next == Decide \/ Handle \/ Return

\* The handler runs on.  Nothing is assumed of the model and the tools: the
\* client of the one has no timeout, and a blocked write to the other no timer.
Spec == Init /\ [][Next]_vars /\ WF_vars(Handle)

-----------------------------------------------------------------------------
(* Properties *)

\* Every variable stays in its range; a specialist keeps to its rounds.
TypeOK ==
  /\ pc \in {"idle", "direct", "round", "chat", "serve", "tool", "answer", "save", "ended"}
  /\ phase \in {"idle", "open", "tool", "closed"}
  /\ announced \in Nat
  /\ agent \in Specialists \cup {"none"}
  /\ pc \notin {"idle", "direct"} => agent \in Specialists
  /\ mem \in Seq(Message) /\ sentFrom \in Nat
  /\ iteration \in Nat
  /\ agent # "none" => iteration <= Rounds[agent]
  /\ pending \in 0..CallsPerReply /\ tool \in Tools \cup {"none"}
  /\ toolsUsed \subseteq Tools /\ summary \in BOOLEAN
  /\ failures \in Seq(Errors) /\ error \in 0..Len(failures)
  /\ reply \subseteq Parts /\ saved \subseteq Parts

\* The direct path starts as if there had been no coordinator: nothing has
\* been announced, and nothing the specialist did is left over.
HandsBackUntouched ==
  pc = "direct" => phase = "open" /\ announced = 0 /\ failures = <<>> /\ toolsUsed = {}

\* As long as the messages of its rounds fit into the window, the specialist
\* is asked with the question, and with each result behind the call it answers.
PromptWhole ==
  pc = "chat" /\ announced + iteration < Window =>
    /\ mem[sentFrom] = Question
    /\ \A j \in sentFrom..Len(mem) : mem[j].role = "tool" =>
         /\ mem[j].owner \in sentFrom..(j - 1)
         /\ j - mem[j].owner <= mem[mem[j].owner].calls

\* How far a reply tells of failures.  An investigation notes one: the call of
\* the model that failed, or else the first failure; later ones, and in the former
\* case earlier ones, are lost.  The dashboard specialist gives one only in place
\* of a summary.  No summary is missing unless the model failed, and then that is
\* the reason given; nothing is noted without a failure, and evidence is of tools
\* that answered.
HonestReply ==
  reply # {} =>
    /\ failures # <<>> =>
         /\ error = IF failures[Len(failures)] = "model" THEN Len(failures) ELSE 1
         /\ agent = "investigation" => "note" \in reply
    /\ "summary" \notin reply =>
         /\ failures # <<>> /\ failures[Len(failures)] = "model"
         /\ reply \cap {"note", "failure"} # {}
    /\ reply \cap {"note", "failure"} # {} => failures # <<>>
    /\ "evidence" \in reply => toolsUsed # {}

\* The handler waits for the model or a tool.
Waiting == pc \in {"chat", "tool"}

CS == INSTANCE ChatStream WITH
  MaxCalls <- CallsPerReply * (Rounds["dashboard"] + Rounds["investigation"]),
  waiting <- Waiting

\* A delegated response keeps the chunk protocol of module ChatStream.
KeepsStream == CS!Safe

\* It is closed with a reply, unless the model or a tool never returns: failures,
\* calls without a name and rounds that run out all lead to one.
DelegatedIsAnswered ==
  <>[]Waiting \/ (pc = "round" ~> phase = "closed" /\ reply # {})
=============================================================================
