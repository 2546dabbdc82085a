----------------------------- MODULE AgentLoop ------------------------------
(***************************************************************************)
(* One chat request through internal/agent/manager.go HandleChat, on the   *)
(* direct path: the sliding-window memory, the request budget, the tool    *)
(* loop, the chunks streamed to the client and the reply that is stored.   *)
(*                                                                         *)
(* Data is abstracted to what the budget and the pairing rules tell apart: *)
(* a message is its role, its estimated token count and the tool calls it  *)
(* makes or answers; a text is the set of fragments it consists of, a      *)
(* budget notice (named by its reason) or model output ("text").           *)
(***************************************************************************)
EXTENDS Integers, Sequences, FiniteSetsExt

CONSTANTS
  MaxToolIterations,   \* requestBudget.MaxToolIterations
  MaxToolCalls,        \* requestBudget.MaxToolCalls
  MaxCompletionTokens, \* requestBudget.MaxCompletionTokens
  MaxPromptTokens,     \* requestBudget.MaxPromptTokens
  Window,              \* Memory.window
  HistoryLengths,      \* lengths of the stored conversation a request may meet
  SystemSizes,         \* token estimates of a system prompt
  Sizes,               \* token estimates of any other message
  CallsPerReply,       \* bound: tool calls in one model reply
  EmptyReplies,        \* may the model answer with neither text nor calls?
  ReportsUsage,        \* does the provider always report completion tokens?
  MayFail,             \* may the provider and the store fail by themselves?
  StraysCalls          \* may a final stream carry unparsable tool calls?

ASSUME BudgetAssumption ==
  /\ MaxToolIterations \in Nat \ {0}
  /\ MaxToolCalls \in Nat \ {0}
  /\ MaxCompletionTokens \in Nat \ {0}
  /\ MaxPromptTokens \in Nat \ {0}
  /\ Window \in Nat \ {0}

ASSUME InputAssumption ==
  /\ HistoryLengths \subseteq Nat
  /\ SystemSizes \subseteq Nat
  /\ Sizes \subseteq Nat
  /\ CallsPerReply \in Nat

ASSUME EnvironmentAssumption ==
  {EmptyReplies, ReportsUsage, MayFail, StraysCalls} \subseteq BOOLEAN

VARIABLES
  pc,         \* where the handler is
  phase,      \* what the client has seen (module ChatStream)
  mem,        \* Memory.messages, without the system message
  system,     \* token estimate of Memory.system
  asked,      \* position in mem of the message the user just sent
  iteration,  \* the loop variable
  reason,     \* budgetTriggerReason
  used,       \* completionTokensUsed
  toolCalls,  \* toolCallsExecuted
  callAt,     \* position in mem of the assistant message being served
  pending,    \* its tool calls not yet served
  sentFrom,   \* first message of mem in the model call under way
  granted,    \* completion tokens granted to that call
  llmCalls,   \* history: model calls of this request
  spent,      \* history: completion tokens the model really produced
  unseen,     \* history: how some of them escaped the budget
  shown,      \* history: fragments streamed to the client
  canonical,  \* history: fragments of the "complete" chunk
  final,      \* finalContent
  saved       \* the stored assistant reply

budgetVars == <<reason, used, toolCalls, granted, llmCalls, spent, unseen>>
memVars == <<mem, system, asked, callAt, sentFrom>>
clientVars == <<phase, shown, canonical>>
vars == <<pc, iteration, pending, final, saved, budgetVars, memVars, clientVars>>

NoReason == "none"
Reasons == {"prompt", "completion", "tool_calls", "cost"}
Fragments == Reasons \cup {"text"}

Message == [role : {"history", "user", "assistant", "tool"},
            size : Nat, calls : Nat, owner : Nat]

-----------------------------------------------------------------------------
(* The prompt: Memory.Messages and fitMessagesToPromptBudget *)

\* MUTANT of WindowFrom: the window also has to hold the system message.
WindowFromNarrow == IF Len(mem) > Window - 1 THEN Len(mem) - Window + 2 ELSE 1

\* The window keeps the newest Window messages.
WindowFrom == IF Len(mem) > Window THEN Len(mem) - Window + 1 ELSE 1

\* Estimated tokens of the system message and mem[from..].
PromptTokens(from) ==
  2 + system + MapThenSumSet(LAMBDA i : mem[i].size, from..Len(mem))

\* The loop tries the shortest suffix first, and the first that fits is kept.
KeptFrom ==
  LET fitting == {s \in WindowFrom..Len(mem) : PromptTokens(s) <= MaxPromptTokens}
  IN  IF PromptTokens(WindowFrom) <= MaxPromptTokens THEN WindowFrom
      ELSE IF fitting # {} THEN Max(fitting) ELSE Len(mem) + 1

\* The reason in force at the head of an iteration.
TurnReason ==
  IF PromptTokens(KeptFrom) <= MaxPromptTokens THEN reason ELSE "prompt"

\* MUTANT of Remaining: every call is granted the whole budget.
RemainingWhole == MaxCompletionTokens

Remaining ==
  IF used > MaxCompletionTokens THEN 0 ELSE MaxCompletionTokens - used

Notice(r) == IF r = NoReason THEN {} ELSE {r}

\* The chunks that close the response; one that is closed cannot be again.
CloseStream == phase' = IF phase = "closed" THEN "overrun" ELSE "closed"

\* A request the provider accepts: each result follows the call it answers,
\* and every call of an assistant message is answered.
ResultsOwned(from) ==
  \A j \in from..Len(mem) : mem[j].role = "tool" => mem[j].owner >= from

CallsAnswered(from) ==
  \A i \in from..Len(mem) : \A k \in 1..mem[i].calls :
    i + k \in DOMAIN mem /\ mem[i + k].owner = i

-----------------------------------------------------------------------------
(* Before the loop *)

Init ==
  /\ pc = "idle" /\ phase = "idle"
  /\ mem = <<>> /\ system = 0 /\ asked = 0 /\ callAt = 0 /\ sentFrom = 0
  /\ iteration = 0 /\ reason = NoReason
  /\ used = 0 /\ toolCalls = 0 /\ pending = 0 /\ granted = 0
  /\ llmCalls = 0 /\ spent = 0 /\ unseen = {}
  /\ shown = {} /\ canonical = {}
  /\ final = {} /\ saved = {}

\* No user, or a session of someone else: one error chunk and nothing more.
Refuse ==
  /\ pc = "idle"
  /\ pc' = "ended" /\ CloseStream
  /\ UNCHANGED <<iteration, pending, final, saved, budgetVars, memVars,
                 shown, canonical>>

\* The stored conversation is loaded, the stream opened, the question added.
Accept ==
  /\ pc = "idle"
  /\ \E h \in HistoryLengths, s \in SystemSizes, size \in Sizes :
       /\ system' = s
       /\ mem' = [i \in 1..(h + 1) |->
                   [role |-> IF i > h THEN "user" ELSE "history",
                    size |-> size, calls |-> 0, owner |-> 0]]
       /\ asked' = h + 1
  /\ pc' = "turn" /\ phase' = "open"
  /\ UNCHANGED <<iteration, pending, final, saved, budgetVars, callAt, sentFrom,
                 shown, canonical>>

-----------------------------------------------------------------------------
(* The head of an iteration *)

MustFinish == TurnReason # NoReason \/ iteration = MaxToolIterations

\* One model call with the fitted messages.
Ask(next) ==
  /\ sentFrom' = KeptFrom
  /\ granted' = Remaining
  /\ llmCalls' = llmCalls + 1
  /\ pc' = next

\* No completion tokens are left: the handler answers by itself.
FinishAlone ==
  /\ pc = "turn" /\ MustFinish /\ Remaining = 0
  /\ reason' = TurnReason
  /\ shown' = shown \cup Notice(TurnReason) \cup {"completion"}
  /\ canonical' = {"completion"}
  /\ final' = {"completion"}
  /\ pc' = "save" /\ CloseStream
  /\ UNCHANGED <<iteration, pending, saved, memVars, used, toolCalls,
                 granted, llmCalls, spent, unseen>>

\* The last answer is streamed, after a notice when a budget tripped.
FinishStreaming ==
  /\ pc = "turn" /\ MustFinish /\ Remaining > 0
  /\ reason' = TurnReason
  /\ shown' = shown \cup Notice(TurnReason)
  /\ Ask("stream")
  /\ UNCHANGED <<iteration, pending, final, saved, mem, system, asked, callAt,
                 phase, canonical, used, toolCalls, spent, unseen>>

\* A tool-loop iteration asks for text or tool calls.  The branch for
\* Remaining = 0 (its "continue") is never taken: property AskHasTokens.
AskModel ==
  /\ pc = "turn" /\ ~MustFinish /\ Remaining > 0
  /\ Ask("chat")
  /\ UNCHANGED <<iteration, pending, final, saved, mem, system, asked, callAt,
                 clientVars, reason, used, toolCalls, spent, unseen>>

-----------------------------------------------------------------------------
(* The reply of a tool-loop iteration *)

\* ChatWithOptions or StreamChatWithOptions returns an error: the client gets
\* an error chunk, and nothing is stored.
CallFails ==
  /\ pc \in {"chat", "stream"} /\ MayFail
  /\ pc' = "failed" /\ CloseStream
  /\ UNCHANGED <<iteration, pending, final, saved, budgetVars, memVars, shown,
                 canonical>>

\* The tokens the budget may count for a reply: the provider's figure or, when
\* it gives none, an estimate of the text alone.
Counted(tokens, estimates) ==
  {tokens} \cup IF ReportsUsage THEN {} ELSE estimates

\* The reason after a reply; a completion trip hides a cost trip.
Tripped(total, costly) ==
  IF total >= MaxCompletionTokens THEN "completion"
  ELSE IF costly THEN "cost" ELSE reason

\* A reply arrives: its usage is added up.  Whether the cost estimate is over
\* its limit is left open.
Receive(tokens, estimates, escape) ==
  /\ spent' = spent + tokens
  /\ \E counted \in Counted(tokens, estimates) :
       /\ used' = used + counted
       /\ unseen' = unseen \cup escape \cup
                      IF counted < tokens THEN {"uncounted"} ELSE {}
  /\ \E costly \in BOOLEAN : reason' = Tripped(used', costly)

ReplyText ==
  /\ pc = "chat"
  /\ \E tokens \in 1..granted : Receive(tokens, 1..MaxCompletionTokens, {})
  /\ shown' = shown \cup {"text"} /\ canonical' = {"text"} /\ final' = {"text"}
  /\ pc' = "save" /\ CloseStream
  /\ UNCHANGED <<iteration, pending, saved, memVars, toolCalls, granted,
                 llmCalls>>

\* Neither text nor calls: the same messages are streamed again, with the
\* tokens that were left before this reply.
ReplyEmpty ==
  /\ pc = "chat" /\ EmptyReplies
  /\ \E tokens \in 0..granted : Receive(tokens, {0}, {"regranted"})
  /\ llmCalls' = llmCalls + 1
  /\ pc' = "stream"
  /\ UNCHANGED <<iteration, pending, final, saved, memVars, clientVars,
                 toolCalls, granted>>

ReplyCalls ==
  /\ pc = "chat"
  /\ \E tokens \in 1..granted : Receive(tokens, 0..MaxCompletionTokens, {})
  /\ \E n \in 1..CallsPerReply, size \in Sizes :
       /\ mem' = Append(mem, [role |-> "assistant", size |-> size,
                              calls |-> n, owner |-> 0])
       /\ pending' = n
  /\ callAt' = Len(mem) + 1
  /\ pc' = "tools"
  /\ UNCHANGED <<iteration, final, saved, system, asked, sentFrom, clientVars,
                 toolCalls, granted, llmCalls>>

-----------------------------------------------------------------------------
(* Tool calls *)

\* MUTANT of MayCall: one call too many.
MayCallOneMore == toolCalls <= MaxToolCalls

MayCall == toolCalls < MaxToolCalls

NextIteration == pc' = "turn" /\ iteration' = iteration + 1

\* MUTANT of StartCall: the invocation is not announced.
StartCallUnannounced ==
  /\ pc = "tools" /\ pending > 0 /\ MayCall
  /\ toolCalls' = toolCalls + 1
  /\ pc' = "tool"
  /\ UNCHANGED <<phase, iteration, pending, final, saved, memVars, shown,
                 canonical, reason, used, granted, llmCalls, spent,
                 unseen>>

StartCall ==
  /\ pc = "tools" /\ pending > 0 /\ MayCall
  /\ toolCalls' = toolCalls + 1
  /\ pc' = "tool" /\ phase' = "tool"
  /\ UNCHANGED <<iteration, pending, final, saved, memVars, shown, canonical, reason, used, granted, llmCalls, spent, unseen>>

\* The tool's result, or the text of its error, goes to client and memory.
FinishCall ==
  /\ pc = "tool"
  /\ \E size \in Sizes :
       mem' = Append(mem, [role |-> "tool", size |-> size, calls |-> 0,
                           owner |-> callAt])
  /\ pending' = pending - 1
  /\ pc' = "tools" /\ phase' = "open"
  /\ UNCHANGED <<iteration, final, saved, system, asked, callAt, sentFrom,
                 shown, canonical, budgetVars>>

\* MUTANT of StopCalls: the loop over the calls ends, the budget has not tripped.
StopCallsUntripped ==
  /\ pc = "tools" /\ pending > 0 /\ ~MayCall
  /\ pending' = 0
  /\ NextIteration
  /\ UNCHANGED <<final, saved, memVars, clientVars, reason, used, toolCalls,
                 granted, llmCalls, spent, unseen>>

\* The budget halts the calls: the rest of the reply's calls stay unanswered.
StopCalls ==
  /\ pc = "tools" /\ pending > 0 /\ ~MayCall
  /\ reason' = "tool_calls"
  /\ pending' = 0
  /\ NextIteration
  /\ UNCHANGED <<final, saved, memVars, clientVars, used, toolCalls, granted,
                 llmCalls, spent, unseen>>

\* MUTANT of AllCalled: the iteration is not counted.
AllCalledUncounted ==
  /\ pc = "tools" /\ pending = 0
  /\ pc' = "turn"
  /\ UNCHANGED <<iteration, pending, final, saved, memVars, clientVars,
                 budgetVars>>

AllCalled ==
  /\ pc = "tools" /\ pending = 0
  /\ NextIteration
  /\ UNCHANGED <<pending, final, saved, memVars, clientVars, budgetVars>>

-----------------------------------------------------------------------------
(* The final stream: llm.Client's goroutine and streamToClient *)

StreamOpens ==
  /\ pc = "stream"
  /\ pc' = "streaming"
  /\ UNCHANGED <<iteration, pending, final, saved, budgetVars, memVars,
                 clientVars>>

StreamToken ==
  /\ pc = "streaming" /\ phase = "open"
  /\ final' = {"text"}
  /\ shown' = shown \cup {"text"}
  /\ UNCHANGED <<pc, phase, canonical, iteration, pending, saved,
                 budgetVars, memVars>>

\* The stream breaks: an error chunk, and the text so far is the reply.
StreamBreaks ==
  /\ pc = "streaming" /\ phase = "open" /\ MayFail
  /\ \E tokens \in 0..granted :
       /\ final # {} => tokens > 0
       /\ spent' = spent + tokens
  /\ pc' = "save" /\ CloseStream
  /\ UNCHANGED <<shown, canonical, iteration, pending, final, saved,
                 memVars, reason, used, toolCalls, granted, llmCalls, unseen>>

\* Tool calls nobody offered, with arguments that do not parse, are looked at
\* when the text has ended: an error chunk each, and the stream goes on.
StreamStrays ==
  /\ pc = "streaming" /\ StraysCalls
  /\ phase' = "failed"
  /\ UNCHANGED <<pc, shown, canonical, iteration, pending, final, saved,
                 memVars, budgetVars>>

\* "complete" and "done", after an error too.
StreamCompletes ==
  /\ pc = "streaming"
  /\ \E tokens \in 0..granted :
       /\ final # {} => tokens > 0
       /\ spent' = spent + tokens
  /\ canonical' = final
  /\ pc' = "save" /\ CloseStream
  /\ UNCHANGED <<shown, iteration, pending, final, saved, memVars, reason,
                 used, toolCalls, granted, llmCalls, unseen>>

\* MUTANT of Save: the budget notice is stored with the reply.
SaveWithNotice ==
  /\ pc = "save"
  /\ saved' \in {final \cup Notice(reason)} \cup IF MayFail THEN {{}} ELSE {}
  /\ pc' = "ended"
  /\ UNCHANGED <<iteration, pending, final, budgetVars, memVars, clientVars>>

\* A blank reply is not stored; an error of the store is ignored.
Save ==
  /\ pc = "save"
  /\ saved' \in {final} \cup IF MayFail THEN {{}} ELSE {}
  /\ pc' = "ended"
  /\ UNCHANGED <<iteration, pending, final, budgetVars, memVars, clientVars>>

-----------------------------------------------------------------------------
\* The steps the handler takes by itself, and those the model or a tool takes.
Handle ==
  \/ FinishAlone \/ FinishStreaming \/ AskModel
  \/ StartCall \/ StopCalls \/ AllCalled
  \/ Save

Return ==
  \/ CallFails \/ ReplyText \/ ReplyEmpty \/ ReplyCalls
  \/ FinishCall
  \/ StreamOpens \/ StreamToken \/ StreamStrays \/ StreamBreaks \/ StreamCompletes

Next == Refuse \/ Accept \/ Handle \/ Return

\* The handler runs on.  Nothing is assumed of the model and the tools: the
\* client of the one has no timeout, and a blocked write to the other no timer.
Fairness == WF_vars(Handle)

Spec == Init /\ [][Next]_vars /\ Fairness

-----------------------------------------------------------------------------
(* Properties *)

\* Every variable stays in its range; the counters stay within their budgets.
TypeOK ==
  /\ pc \in {"idle", "turn", "chat", "tools", "tool", "stream", "streaming",
             "save", "ended", "failed"}
  /\ phase \in {"idle", "open", "tool", "failed", "closed", "overrun"}
  /\ mem \in Seq(Message)
  /\ system \in Nat /\ asked \in Nat /\ callAt \in Nat /\ sentFrom \in Nat
  /\ pending \in Nat /\ llmCalls \in Nat /\ spent \in Nat /\ used \in Nat
  /\ iteration \in 0..MaxToolIterations
  /\ toolCalls \in 0..MaxToolCalls
  /\ granted \in 0..MaxCompletionTokens
  /\ reason \in Reasons \cup {NoReason}
  /\ shown \subseteq Fragments /\ canonical \subseteq Fragments
  /\ final \subseteq Fragments /\ saved \subseteq Fragments
  /\ unseen \subseteq {"uncounted", "regranted"}

\* However the model answers, one request costs at most MaxToolIterations + 1
\* model calls: the re-stream of an empty reply is never one more.
RequestBounded == llmCalls <= MaxToolIterations + 1

InCall == pc \in {"chat", "stream", "streaming"}

\* Trimming for the prompt budget aside, the sliding window never drops the
\* question being answered, however many messages the tools add.
QuestionKept == InCall /\ sentFrom = WindowFrom => sentFrom <= asked

\* Trimming aside, a model call never has a tool result without the call it
\* answers, and has an unanswered call only once the tool-call budget tripped.
PairingKept ==
  InCall /\ sentFrom = WindowFrom =>
    ResultsOwned(sentFrom) /\ (CallsAnswered(sentFrom) \/ reason = "tool_calls")

\* A tool-loop iteration always has completion tokens to grant: a spent budget
\* has tripped before, so the "continue" on zero tokens is dead code.
AskHasTokens == pc = "turn" /\ ~MustFinish => Remaining > 0

\* What a reload of the session shows as the reply is what the live client was
\* left with, and nothing is stored that was never streamed.
SavedAsShown ==
  /\ saved \subseteq shown
  /\ canonical # {} => saved \in {{}, canonical}

\* All model calls of a request together produce at most MaxCompletionTokens,
\* as long as the provider reports its usage and no reply is streamed again;
\* and a call is never begun without tokens to grant it.
CompletionBudgetKept == (unseen = {} => spent <= MaxCompletionTokens) /\ AskHasTokens

\* What is trimmed to fit the prompt budget is chat history: as long as the
\* question and what follows it fit, the model gets them.
TrimsHistoryOnly ==
  InCall /\ PromptTokens(asked) <= MaxPromptTokens => sentFrom <= asked

-----------------------------------------------------------------------------
(* The inductive invariant behind the first five properties *)

Serving == pc \in {"tools", "tool"}

\* What the counters are worth at each place of the loop.
Progress ==
  /\ pc \in {"chat", "tools", "tool"} => iteration < MaxToolIterations
  /\ pc = "tool" => pending > 0
  /\ pc = "idle" => llmCalls = 0 /\ iteration = 0 /\ toolCalls = 0
  /\ pc = "turn" => llmCalls <= iteration
  /\ pc \in {"chat", "tools", "tool"} => llmCalls <= iteration + 1
  /\ llmCalls <= MaxToolIterations + 1

\* A completion budget is granted in full and counted in full.
Ledger ==
  /\ pc \in {"idle", "turn", "chat", "tools", "tool"} /\ reason = NoReason =>
       used < MaxCompletionTokens
  /\ pc = "idle" => used = 0 /\ spent = 0
  /\ pc = "chat" => reason = NoReason
  /\ Serving => reason # "tool_calls"

\* The question comes first; the messages after it are the replies and results.
Order ==
  pc \notin {"idle", "ended"} =>
    /\ asked \in 1..Len(mem)
    /\ Len(mem) <= asked + toolCalls + iteration
                   + (IF pc = "tools" THEN 1 ELSE 0)
    /\ \A j \in 1..Len(mem) : mem[j].role = "tool" => mem[j].owner > asked
    /\ Serving => callAt \in (asked + 1)..Len(mem)

\* The calls of message i of m are answered right behind it.
AnsweredIn(m, i) == \A k \in 1..m[i].calls : i + k <= Len(m) /\ m[i + k].owner = i

\* Every call is answered, but for the message being served and the calls the
\* budget has halted.
Pairing ==
  /\ Serving =>
       /\ \A i \in 1..Len(mem) : i # callAt => AnsweredIn(mem, i)
       /\ Len(mem) = callAt + mem[callAt].calls - pending
       /\ \A k \in 1..(mem[callAt].calls - pending) : mem[callAt + k].owner = callAt
  /\ pc \in {"idle", "turn", "chat"} /\ reason # "tool_calls" =>
       \A i \in 1..Len(mem) : AnsweredIn(mem, i)
  /\ pc \in {"stream", "streaming"} /\ sentFrom = WindowFrom /\ reason # "tool_calls" =>
       \A i \in 1..Len(mem) : AnsweredIn(mem, i)

IInv == TypeOK /\ Progress /\ Ledger /\ Order /\ Pairing

-----------------------------------------------------------------------------
\* The handler waits for the model or a tool.
Waiting == pc \in {"chat", "stream", "streaming", "tool"}

CS == INSTANCE ChatStream WITH
  MaxCalls <- MaxToolCalls, announced <- toolCalls, waiting <- Waiting

\* The handler keeps the promise of module ChatStream: chunks in their order,
\* bounded tool calls, an end that comes once, also after an error, and every
\* opened response closed unless the model or a tool never returns.
Implements == CS!Spec
=============================================================================
