# Verification of grafana-assistant

TLA+ models, model-checking runs and proofs for the Monitoring Assistant: a Go
server that answers questions about Grafana dashboards with a language model and
the tools of MCP servers, a React chat panel embedded in Grafana, a ChatOps
bridge, and a few MCP servers of its own.

Contents: [1 Inventory](#1-inventory) · [2 Modules](#2-modules) ·
[3 Runs](#3-runs) · [4 Proofs](#4-proofs) ·
[5 Where code and text disagree](#5-where-code-and-text-disagree) ·
[6 Not modelled](#6-not-modelled) · [7 Plan](#7-plan)

Paths are relative to the repository. `PROJECT.json` holds the same information
for tools: components, runs, the lines each definition models, the hazards.

## 1 Inventory

How a question travels: the **chat panel** (or the **ChatOps bridge**) calls
`POST /api/chat` of the **HTTP API** behind the **middleware**; the **agent
manager** finds or creates the session in the **session store**, classifies the
question (**intent and routing**), gathers the **prompt contexts** (dashboard
**enricher**, schema, knowledge base), and then either hands the question to a
specialist (**delegation**) or runs the **agent loop** itself. Both call the
language model and, through the **filtered MCP clients**, the tools of **MCP
servers** over **stdio** or **SSE**; some tools are **internal** (scratchpad
dashboards, the **investigation router**). Everything the client sees is a
sequence of server-sent chunks. The server process starts the clients, the
bridge and two purgers as goroutines.

### The server's core

| Component | State | Operations | What is hard | What makes it correct |
|---|---|---|---|---|
| Agent loop (`internal/agent/manager.go` `HandleChat`, `memory.go`, `request_budget.go`; `internal/llm/openai.go`) | the sliding-window memory, budget counters and trip reason, text so far | load history, model call, reply, tool call, final stream, store reply | four budgets that trip between any two steps, partly served replies, a provider that reports no usage, errors in the middle of a stream | bounded work; a prompt with the question in it and each result behind its call; chunks in their order; the stored reply is the one shown |
| Delegation (`coordinator.go`, `subagent*.go`) | the specialist's own memory, its result (summary, tools used, error) | decide, loop, tool call, synthesise, fall back | failures late in a loop whose summary hides them; falling back after output | one reply, which owns up to a failure as far as the one error it keeps goes; the same chunk protocol |
| MCP stdio client (`internal/mcp/stdio_client.go`) | id counter, table of response channels, `connected`, `writeMu`, the pipes, the process | connect, call, dispatch, exit, health | the answer may precede the return of the write, come twice or after the timer; a full pipe; a process that exits with output unread | no call gets another's answer; the reader never blocks; the table does not grow; calls return |
| MCP SSE client (`sse_client.go`) | the same table, endpoint, event stream | connect, POST, dispatch | a POST that fails after it arrived; a stream that ends and is never reopened | the same |
| Filtered client (`filtered_client.go`) | cached tool list under `mu` and `discoverMu` | discover, invoke | double-checked locking, a failed discovery | deny wins; one discovery; no lock kept behind an error |
| Internal tools (`tools.go`, `explore.go`, `internal/dashboard`) and the scratchpad purger | dashboards in Grafana, the session's `scratchpad_uid`, the time of last use as a tag | search, create folder and dashboard, store the uid, read, write back; list and delete | each call to Grafana is a step of its own and may fail or lose its answer; other tool calls, the user and the purger change the same dashboard | a session has one scratchpad, its own; what was in use when the purger looked stays, what was not goes; a user's own panels survive |
| Investigation router (`investigation_router.go`) | – | attempts one after the other, one pass with a corrected query | one deadline for both passes; the last error alone decides on the second | a report with a status for every signal |
| Intent, routing, prompt contexts, redaction | none (pure) or small caches | classify, choose tools, redact | precedence of rules; nested arguments | a secret key is redacted at any depth |
| Session store (`internal/storage/sqlite.go`) | tables `sessions`, `messages`, `audit_log`, `feedback`; connection pool | create, get, add message (two statements), delete, purge | no transactions: other requests, the purger, a crash or an error come between any two statements; `foreign_keys` is a setting of one connection | a conversation has one owner, only grows by its owner, and goes as a whole |
| HTTP API (`internal/api`) | none | chat stream, history, feedback, context search | session read, checked and then used | only the owner's sessions are read or changed |
| Middleware (`internal/middleware`) | token buckets | allow, clean up | clean-up against a request | a client never gets more than rate and burst, and never less because of a clean-up |
| Enricher (`internal/context/enricher.go`) | TTL cache | get, fetch, store | checked, unlocked, filled, written | no summary older than a TTL and one call is served |
| Server process (`cmd/assistant/main.go`) | – | start MCP clients, bridge, purgers; shut down | connection in the background, restart at any point | a client that failed to connect is never used |

### Clients and servers around it

| Component | State | Operations | What is hard | What makes it correct |
|---|---|---|---|---|
| ChatOps bridge (`internal/chatops`) | thread to session map with last use | handle a message, update the session id, evict hourly | two messages of one thread at once; eviction during a request; reconnect and stop | one thread is one conversation |
| Chat panel: the conversation (`ChatPanel.tsx`) | messages, session id, the stream | send, chunk, switch session | chunks of an earlier stream after a switch | what is shown belongs to the session shown |
| Chat panel: the page around it (`App.tsx`, `hooks`, `utils`, the picker, the dialogs) | the URL of the Grafana frame and its context, chips, drafts in `localStorage`, the list of chats | poll, fetch, search, pick, rate, list, delete, copy | timers and answers that overtake each other, callbacks that close over old state, two tabs | a message carries the last context polled; what shows as stored is stored |
| Rendering (`MarkdownContent.tsx`, `Artifact.tsx`) | none | split an answer into blocks, take its artifacts out | an answer is rendered after every token, cut anywhere; the model may write anything | rendering ends; settled blocks stay; nothing of an answer is lost |
| Knowledge base (`pkg/kb`, `mcp_servers/kb-mcp-go`) | lazily loaded index | search, merge | first searches at once | a merge keeps the best rank of each hit |
| Alertmanager and Genesys MCP servers (`mcp_servers`) | access token, rate limits | page, authenticate | token refreshed by concurrent calls | pages cover everything once |
| Fixture recorder, mock server (`internal/mockserver`), evaluations (`internal/evals`) | counters, fixtures; none | record, match; score, gate | concurrent recordings; rule precedence | no fixture overwritten; a gate that fails on any hard failure |
| Formatting, rendering, configuration, logging, metrics | – | – | wording and layout | – |

The hazards these parts are exposed to are listed, each at its line, under
`hazards` in `PROJECT.json`, with the properties that would catch it going wrong.

## 2 Modules

| Module | Models | Uses |
|---|---|---|
| `ChatStream` | abstract: what a chat response promises its client | |
| `AgentLoop`, `AgentLoopProofs` | one request on the direct path | implements `ChatStream` |
| `Delegation`, `DelegationProofs` | one request from the coordinator's decision on | implements `ChatStream` |
| `Rpc` | abstract: what an MCP client promises its callers | |
| `RpcCalls` | the table of calls in flight and its reader, common to both clients | implements `Rpc` |
| `StdioClient`, `SSEClient` | the two transports | extend `RpcCalls` |
| `McpClients`, `McpClientsProofs` | a client of either kind and its callers | composes both |
| `Conversations` | abstract: what the session store promises its users | |
| `Sessions`, `SessionsProofs` | the store, its pool, the handlers and the purger | implements `Conversations` |
| `ChatTurns` | the assistant as its clients see it: sessions and chunks | |
| `ChatPanel`, `ChatOps` | the panel in the browser; the bridge's handlers and map | extend `ChatTurns` |
| `Mattermost` | the provider that listens for posts | |
| `Clients`, `ClientsProofs` | the panel, the bridge and the provider | composes the last four |
| `GrafanaPane`, `LoginGate` | the Grafana frame, its URL and the context; the login check | |
| `ContextPicker` | searching, picking and sending context | |
| `Markdown`, `Artifacts`, `Bubble` | text to blocks; text to artifacts; one answer on screen as it grows | each extends the one before |
| `Feedback`, `ChatHistory` | ratings from several tabs; the list of chats, evidence labels | |
| `Page`, `PageProofs`, `AnswerProofs` | the page around the conversation | composes the last eight |
| `Scratchpads` | the scratchpad tool over Grafana, and its purger | |
| `ToolFilter`, `Enricher`, `AccessToken` | the filtered client; the summary cache; the Genesys token | |
| `Services`, `ServicesProofs` | what requests share outside the database | composes the four above and `RateLimiter` |
| `MC…` | the instances TLC checks | |
| `TokenBuckets` | abstract: what rate limiting promises its clients | |
| `RateLimiter` | the token buckets of `POST /api/chat` | implements `TokenBuckets` |

Operators named "MUTANT of X" are plausible bugs of the code that X models; they
are used by no specification and are there to show that each property can fail.

**AgentLoop.** `pc` is the handler's place: `turn` is the head of an iteration,
`chat` and `stream` a model call under way, `tools` and `tool` the loop over the
calls of a reply, `streaming` the final stream, `save` the storing of the reply.
A message is its role, its token estimate, the number of calls it makes and the
message it answers; a text is the set of fragments it consists of (model text,
or the notice of a tripped budget). The fitting of the prompt to its budget
(`KeptFrom`) is part of each model call; the wording of prompts, the choice of
tools and what tools do are left open. The goroutine of `llm.Client` that feeds
the final stream may report an error and then complete; the promise is of one
closing, so `ChatStream` tells an answer that has failed (`failed`) from one
that is closed, and has no name for one that closes twice (`CloseStream`).
History variables (`llmCalls`, `spent`, `unseen`, `shown`, `canonical`) record
what happened for the properties and guard nothing.

**Delegation.** `Decide` takes the coordinator's decision; `direct` is where
`AgentLoop` begins. The loop of the specialist has the same memory and its own
rounds. A result is the parts a reply can be made of: summary, evidence, note;
`failures` is what failed, in order, and `error` which of it the code has kept:
the first tool call that failed, overwritten by a model call that does. The code
loops over the specialists of a decision, and decisions never name more than
one, so the model has one.

**RpcCalls, StdioClient, SSEClient, McpClients.** Each caller is a goroutine in
`jsonRPC`. A call takes an id, registers a channel of capacity one under it,
sends, and waits for the channel, the 30 s timer or its context (`GiveUp`). The
reader takes an answer off the stream, looks the channel up and removes it under
one lock (`Dispatch`), and then sends. A response is the id it carries and the
number of the call whose request it answers, which the code cannot see and the
property `OwnAnswer` compares. Stdio adds the bounded pipe and `writeMu`, the
process, and the two goroutines that notice its end; SSE the endpoint event, the
POSTs and the event stream. Ids are never reused, as in the code.

**Sessions.** A process is a request or the purger, `pc` the statement it is at.
Every statement takes a connection, runs alone, and gives the connection back:
that is all the atomicity there is. `foreign_keys` is a property of the
connection, off on a new one. The retention time is long compared with a
request: what this run stores is `fresh` until the run ends, what an earlier run
stored may have expired. A row is who stored what for which session.

**ChatTurns, ChatPanel, ChatOps, Mattermost, Clients.** A turn is one request: a
message of the panel's user, or a post. `ChatTurns` is the server: it answers in
the session the turn names if that is stored, or else in a new one, and its
chunks follow the table `Flow`; what `AgentLoop` and `Delegation` do between two
chunks is left open. An error need not be the last chunk (`erred`); a response
is over in one of the phases `Final`. In `ChatPanel`, `sendMessage` is at turn
`sending` and reads its chunks from `wire`, while the user starts new chats and
opens or deletes others; each of those awaits its own request, and the answers
come in any order (`opening`, `deleting`). A bubble is the assistant's message
with its text, tool rows and timeline; replacing the list of messages makes it
blank for good. A deletion remembers the `sessionId` its callback closed over
(`seen`). In `ChatOps` every post has a goroutine (`task`), which meets the
others in the map of threads (`entries`) and nowhere else: the lock of the map
is held for one action. An entry with an id the server has never seen holds
`None`. `Mattermost` is the websocket listener step by step, with the signal and
the deferred `Stop` coming anywhere between. `Clients` runs one of the three at
a time (`part`): the panel and the bridge act for different users, and the
bridge copes with posts in any order, so that products of their states would
show nothing new. History variables: `stray`, `told`, `forked`.

**GrafanaPane, LoginGate, ContextPicker.** `GrafanaPane` has the frame's page
and `src`, the URL polled last, the fetches under way and the context made of
them; a URL is its path's segments and the parameters that matter. Following a
link is `Resolve`, with its three forms and the base path. `ContextPicker` has
the effect that searches on each change of tab, query or `open`, the debounce
timer, the cache and the answers, which may come in any order; `captured` is the
context the current `sendMessage` closed over, remade with its dependencies
(`Remake`) only.

**Markdown, Artifacts, Bubble.** Pure operators. A line is its kind (with or
without a space of indentation): the parser looks at nothing else of it.
`Normalize`, `Parse` and `Extract` follow the code rule by rule; a parser that
does not advance yields a block of kind "hang". What the fields of an artifact
hold is up to the model that wrote it: `Lists` has the nine kinds of value that
the components tell apart where a list is expected (a list with a null in it, or
with an object in place of a text; a value that is no list, with a length or
without), `Throws` says which of them take the panel down, `Conforms` which
artifacts are as the schema has them. Parser and extraction were compared with
an independent port of the same code to another language, on all 54,240
documents of up to four lines for the parser and 66,429 of up to five for the
artifacts: no difference. `Bubble` grows an answer token by token and renders it
each time.

**Feedback, ChatHistory.** Each tab has its own state and effects (`Mount`,
`Load`, `SetState`) over one `localStorage`; a submission has two halves, the
row and its acknowledgement, either of which may fail (`lost`). `ChatHistory`
has the list, its requests and deletions under way, and the labels with their
timers.

**Scratchpads.** `request[r].pc` is the call a tool call is about to make:
`search`, `folder`, `mkfolder`, `create`, `store`, `read`, `save`. `known` is
the uid in the request's copy of the session, which is what the code uses.
`model` is the dashboard that was read and will be written back. A dashboard is
its session, its time of last use as the purger's `extractLastUsed` finds it
(`used`), the day it was last saved, and whether a user's panel is in it. `purger`
is a run of the purger with the dashboards as its search saw them (`seen`): it
deletes from that list, and a deletion may fail or lose its answer. Titles
are those of the code: the first eight characters of every session id are
"session-", so all scratchpads of a user have one title, which Grafana may
refuse in one folder (`Taken`). **ToolFilter** has one step for each stretch
under a lock; **Enricher** and **AccessToken** one for each stretch between a
lock, a call or a store.
History variables: `newest`, `behind`, `overtaken`, `picked`, `lost`, `edited`,
`exposed`, `returned`; `cleaned`, `overlapped`, `edited`, `clobbered`;
`discoveries`, `served`, `used`.

**RateLimiter.** `Allow(c)` is a POST of client `c` under the mutex: the clean-up,
the bucket, the refill and the answer. A tick is the time in which one unit flows
into a bucket, so that a request costs `Cost` units and no multiplication is
left; what the floats of the code round off is not modelled. `Level(c)` is what
the bucket would hold if asked now, a full one if there is none. History:
`window` counts what any client takes from any moment on (`Watch`).

`Page` and `Services` run one part at a time, like `Clients`: the parts share no
state, and the one thing they have in common, the user or the server, does one
thing at a time.

## 3 Runs

| Run | What it asks | States |
|---|---|---|
| `AgentLoop` | one request under every outcome of budget, model, stream and store | 217 k |
| `McpClients` | two callers of one client against a faulty server | 216 k |
| `Sessions` | a chat, another request and the purger on one database | 2.4 M |
| `Delegation` | one delegated request under every outcome | 16 k |
| `Clients` | a user of the panel, posts of a channel, a provider that reconnects and stops | 767 k |
| `Page` | the page: context, login, picker, answers, ratings, list of chats | 279 k |
| `Services` | scratchpads, tool lists, summaries, a token and rate limits shared by requests | 418 k |
| `AgentLoopTrim`, `SessionsCascade`, `PickerContext`, `MarkdownHangs`, `ScratchpadGone` | each shows one disagreement of section 5 | – |

**AgentLoop** checks `RequestBounded` (a request makes at most
`MaxToolIterations + 1` model calls), `CompletionBudgetKept` (and the `continue`
on a spent budget is dead code: `AskHasTokens`), `QuestionKept` and
`PairingKept` (what a model call is sent, as far as the sliding window decides
it), `SavedAsShown`, and `Implements`: the chunk protocol, in which no tool call
is announced after an error and nothing follows a closing, and which ends if the
model and the tools return.
*Bounds:* two iterations, two tool calls, two calls per reply, a window of 5,
which is the smallest that holds the question and two rounds and the smallest in
which the window could cut one off; histories of 0 and 2 messages; sizes of 1
and 3 tokens against 10, and two system prompts, so that the prompt fits, fits
after trimming, or never fits; 3 completion tokens, so that the budget trips in
the first, a later, or no call.

**McpClients** checks that answers reach their own call (`OwnAnswer`), that the
table holds calls in flight only, that an answer is never dropped while its call
waits and the reader never blocks on one nobody waits for (`TableIsInFlight`),
and that calls return unless a server hangs.
*Bounds:* two callers, four calls (three over SSE, where connecting takes one
call less): enough for two calls that overlap after connecting, and for a late
answer to a call that gave up to meet the next call of the same goroutine; a
pipe of one request, so that it fills; one answer on its way, since the reader
takes one at a time. Clients share nothing, so one client is enough.

**Sessions** checks `OwnSessionsOnly`, `OneConnectionNoOrphans`,
`PurgeSparesActive` and that conversations behave as `Conversations` says.
*Bounds:* one chat request, one history or feedback request, the purger, one
conversation of an earlier run, two users (symmetric), two idle connections as in
`database/sql`, and one fault (a failed statement or a restart). Three processes
are enough for every pair of handlers that meet on a session; two chat requests
at once differ only in their ids, which the proofs cover for any number of
requests.

**Delegation** checks that falling back leaves nothing behind, that the prompt
is whole as long as the rounds fit into the window, the chunk protocol, that
every delegated request is answered if the model and the tools return, and how
far the reply tells of failures (`HonestReply`): of one, the failed model call
or else the first failure, in an investigation always, from the dashboard
specialist only in place of a summary. What else failed is lost, and the
property does not ask for it.
*Bounds:* two rounds for the dashboard specialist and three for the
investigation (3 and 5 in the code), two calls per reply, two tools, and a
window of 5 (20 in the code), so that the third round overflows it.

**Clients** checks that the next message of the panel goes on with the
conversation on screen (`ContinuesWhatItShows`), that no broken or failed
response passes for a final answer (`FinalIsComplete`), that a thread is one
conversation and two are two, and a reply the whole answer once
(`ThreadsAreAnswered`), that the bot never answers itself (`NoEcho`), and that
everything comes to rest (`Settles`).
`ContinuesWhatItShows` has one exception: a start chunk that arrives after the
user has left its turn sets the session of a turn that is not on screen
(`stray`), until something else is shown. `ThreadsAreAnswered` excuses
threads with a reason (`forked`): an evicted entry, two first posts at once, a
database that failed or forgot the session.
*Bounds:* two turns, so that one can be left for another, and so that two posts
share a thread or not; one earlier chat and one click on it, or on the chat of a
turn, besides any number of new chats: enough for a loaded chat or a deletion to
cross the start chunk of a turn; one tool call per answer and one chunk on the
wire, since the panel reads one at a time; one fault of the connection to
Mattermost, before or after it is up.

**Page** checks that a message's context is that of the page polled last that
has a context (the code keeps it when the frame goes on to a page without one),
and of what was picked for it (`CarriesContext`), that the picker shows what it
searches for (`ShowsItsSearch`), that a settled block of an answer stays while
the rest comes, that artifacts as the schema has them are shown, and all the
text around any artifact if the panel is there at all (`AnswersAreShown`), that
what shows as recorded is recorded, once, and that the list of chats is what the
server has (`ShowsWhatIsStored`), and that a lasting login is noticed and
everything comes to rest (`Settles`). The exceptions are races the code leaves
open, each as narrow as it could be made: a summary that comes after that of a
later page (`behind`), a search answer that comes after a change (`overtaken`),
the hang of `MarkdownHangs`, whose cause the property names, two tabs at once
(`exposed`), a list made before a deletion and read after it (`returned`).
*Bounds:* three pages, so that two fetches overlap and a page without context
follows; three upsets of the login; five moves in the picker, enough to search,
change, pick, send and go on; answers of up to four lines of every kind, which
is two blocks and what ends them; seven acts in two tabs with two messages; two
chats and five clicks.

**Services** checks that a session has one scratchpad, its own, that what the
purger is to delete had not been saved for its lifetime when it looked, and that
nothing older outlives a run in which every call succeeds, and that a user's
panels are lost only to a call that had read the dashboard before
(`KeepsScratchpads`); that tools are discovered once and filtered by the lists
(`DiscoversOnce`); that no summary and no token is used when it is too old
(`NothingOutdated`); that the rate limiter answers every request as with buckets
that are never thrown away, so that, counted from any moment, a client is
admitted no more often than a burst and what has flowed in since
(`LimitsFairly`); and that calls return, locks are given back and the purger has
its daily run, whatever fails (`Settles`). Excused: sessions for which two
requests searched in vain at once (`overlapped`), and dashboards changed between
a call's reading and its writing (`clobbered`). Not asked for: that a dashboard
saved between the purger's search and its deletion is spared, for it is not
(section 5). `NothingOutdated` holds for the token only because the margin of
sixty seconds is no less than the timeout of the call that fetches it: with a
smaller one TLC finds a stale token.
*Bounds:* two requests, two sessions of one user, who have one title; two calls
of the tool, in one request or two, which meet or have a purge between them; two
failed calls or changes by the user; three days against a lifetime of one. Two
callers of each cache, four looks (a failed discovery and a retry by each),
three versions and six units of time against a lifetime of two, four tokens. Two
clients of the rate limiter, since a clean-up during the request of one throws
away the bucket of the other; a burst of two requests that takes four ticks to
fill, the shortest idle time the assumption allows, clean-ups every two ticks,
and six ticks: enough to empty a bucket while clean-ups come, to let it be
thrown away and to empty the new one.

**Fairness.** `AgentLoop`, `Delegation`: the handler does its own steps
(`Handle`); it is one goroutine, and what it writes to the client ends with the
server's `WriteTimeout` of 120 s (`main.go:527`). That the model or a tool
returns (`Return`) is *not* assumed: the client of the LLM has no timeout, and a
write to the stdio of an MCP server is bounded by no timer
(`stdio_client.go:301-313`). The answers that are promised are therefore
promised unless the handler waits for one of the two for ever (`Waiting`).
`McpClients`: goroutines run, the 30 s timer fires, `sync.Mutex` is
starvation-free (strong fairness of taking `writeMu`), and a server that has not
hung reads its input; no server has to answer. `Sessions` has only safety
properties and no fairness. `Clients`: the panel reads what has come, an opened
response goes on to its end (`Answered` of `ChatStream`, checked on the other
side: so it does if the model and the tools return), and the goroutines of
bridge and provider run; a user need do nothing, a websocket need not bring
anything, and no connection need succeed: what ends the listener is the context,
or the close by `Stop`. `Page`: effects run, timers go off and requests have an
answer or an error; the user need do nothing. `Services`: goroutines run, and
calls to Grafana, the MCP server or the login server end, as their clients have
timeouts; no call need succeed. A stdio server that has stopped reading is left
to `McpClients`: discovery through it may not return.

**Deadlock** is not checked: each model ends, when the request is over, the
bounded calls are made, the client is given up, or the turns, moves or days are
used up.

## 4 Proofs

All for every value of the constants, from the assumptions stated in the modules
(budgets and windows are positive, sets of requests are disjoint).

**AgentLoop** (`AgentLoopProofs`). `IInv` = `TypeOK` (ranges), `Progress` (model
calls against iterations at each place), `Ledger` (as long as nothing tripped,
tokens are left), `Order` (the question comes first and at most one message per
iteration and per tool call has followed), `Pairing` (each message but the one
being served has its answers right behind it). `TypeOK` alone is not inductive:
that a tool-loop iteration has tokens to grant needs to know why the previous
one went on. From it: `TypeCorrect`, `RequestIsBounded` and that there are
always tokens to ask for; `QuestionIsKept` and `PairingIsKept` under the
assumption `MaxToolIterations + MaxToolCalls < Window`, which the defaults (5 +
12 < 20) satisfy and a configuration need not; with `Accounts` and `Delivery` on
top, `CompletionBudget` and `ReplyIsSavedAsShown`; and `KeepsChatStream`, the
safety part of the refinement.

**Sessions** (`SessionsProofs`). `TypeInv` = `TypeOK` plus which statements which
process may be at, that ids are handed out in order (a new id is new), and that
whoever acts on a session has been checked against it. From it, for any number
of requests, users and sessions: `OwnershipHolds` (owners never change, so a
check holds for the rest of the request, whatever is deleted in between),
`WholeDeletion` (while no second connection was opened, the one there is enforces
references), `PurgeSpares` (a session with a message of this run is fresh, or its
`AddMessage` is half way), `KeepsConversations` (the refinement).

**Delegation** (`DelegationProofs`). `IInv` = `TypeOK`, the place, `Talk` (each
result is behind its call, and one message is being served), `Length`, `Told`
(the error of the result is the model's failure or else the first one; without a
summary the model has failed),
`View` (the chunk protocol follows the place). From it `TypeCorrect`,
`HandsBack`, `PromptIsWhole`, `ReplyIsHonest`, and with the bound on announced
calls `DelegationKeepsStream`.

**RateLimiter** (in `ServicesProofs`, where it runs). The assumption is that the
idle time after which a bucket is thrown away is long enough to fill it: ten
minutes, so a burst of at most ten times the rate per minute. The defaults (5
and 20) are far inside; a configuration that is not would make a clean-up a
present of a full bucket. `MeetsLevel` is where the assumption is used: the
bucket a request meets, new or kept, holds what the promised one holds. `TypeOK`
is inductive with it; what a step does to every level (`TickFills`,
`AllowTakes`) then gives the refinement and, with `Balance` (what has been taken
and what could be taken now are within the allowance), the allowance: together
`LimitsAreFair`.

**McpClients** (`McpClientsProofs`). Both clients drive one table, so the table is
proved about once: `TableStep` is what either may do to it, and each client is
shown to take only such steps and to let only responses that fit come back.
`TableInv` = ranges, `Counting` (an id for each call that has begun, so there is
always a fresh one), `Places` (an id belongs to one call in progress), `Table` (an
id is in the table, in the reader's hand, or has had its answer) and `Messages`
(whatever carries the id of a call in progress answers that call). `OwnAnswer`
needs the last one for the whole way of a request: the pipe, the server's jobs,
the stream, the reader's hand and the channel. Over stdio, that the one who
writes holds `writeMu` is needed as well; over SSE, that nobody calls before the
endpoint is known. From it `TypeCorrect`, `TableHasThoseInFlight` and
`CallsGetTheirOwnAnswer`, the refinement of `Rpc`, for any number of callers.

**Services** (`ServicesProofs`). Each part has its invariant, and a step of one
leaves the others alone. `FilterInv`: who holds the lock of the tools stands
between its second look and its return. `TokenInv`: the token in force outlives
the expiry in force, *whichever answers the two are from*, since the code sets
them one after the other without a lock; that needs `Margin >= Timeout`, and
both are 60 s. `SummaryInv`: a summary that is no longer current was so when its
fetch began. `ScratchpadInv`: what a request knows of a scratchpad is known of
one's own (`Own`, `Sound`), whoever creates one is alone (`Single`), both dates
of a scratchpad agree (`Fine`), and what the purger has to delete was out of
date in its snapshot (`Listed`), whatever has been done to it since. From them
`TypeCorrect`, `ScratchpadsAreKept`, `ToolsAreDiscoveredOnce`,
`NothingIsOutdated`. Assumed beside what the code sets: a fetch can time out
within the run (`Timeout <= MaxTime`), and `None` is none of the things that may
stand in its place.

**Clients** (`ClientsProofs`). `ProviderInv` adds to the types that a post is on
its way or handled, and that once. `OpsInv`: a session is called after a turn of
its own thread (`Within`); a thread that has none has at most one turn that may
bring one, unless there was a reason for two, and those threads are `forked`
(`ThreadOK`). `PanelInv`: what the bubble has read and what is on the wire
together make up what the server has announced (`StreamOK`), which is why a
final answer is never put under a tool that still runs; and an answer with an
error in it has shown it by the time its bubble is finished (`Warned`). From
them `TypeCorrect`, `PanelContinuesWhatItShows`, `PanelFinishesWhatIsComplete`,
`BridgeAnswersThreads` and `ProviderHasNoEcho`.

**Page** (`PageProofs`; what an answer needs is in `AnswerProofs`). `PaneInv`
adds that only dashboards are fetched, and that the fetch nothing has overtaken
is that of the page polled last. That the iframe stays inside Grafana (in
`TypeOK`) is a fact about `Resolve` (`LinksResolve`): it holds for any base path
that does not begin with "grafana" and any page whose path, left without its
"grafana", does not look like a finished link; `PageAssumption` says both, and
without the second a relative link would be taken for a finished one and opened
as it is. `PickerInv`: the cache has what the server finds, and what
`sendMessage` closed over was picked for the next message. `RatingInv`: in each
tab a submission is not marked as submitted yet, its draft is what was sent
unless it was rated again, and its row is there before its answer is
(`SubmissionOK`); the properties alone say nothing of a submission that is half
way. With one tab, what the tab shows is what is stored, or it is about to read
back what was stored before it was opened (`Alone`). `HistoryInv`: a chat that
is listed and no longer stored has a deletion that *succeeded* and is not read
yet, unless it was put back; that some deletion of it is under way is not
inductive, since that one may yet fail. From them `TypeCorrect`,
`SearchIsShown`, `ContextIsCarried` and `StoredIsShown`. An answer (`Bubble`)
needs one more invariant, `BubbleInv`: the renderer got to the end of the answer
before its last line came, since it takes no token once it hangs. The rest of
`AnswersAreShown` is about functions that recur over the lines, for texts of any
length. The library's induction theorems take operators, so `AnswerProofs`
starts from the least element of a set of numbers: `Upwards` and `Downwards` are
induction with a set for the statement, `Recursion` and `Mounting` say that a
function that recurs to a later (an earlier) index exists. With them each
recursive function of `Markdown` and `Artifacts` gets its values (`ExtractFrom`,
`PassRuns`, `ParseIs`), and three facts follow. *Nothing is lost*:
`ExtractKeeps` counts the lines of each kind on both sides of every step of
`Extract`, `TrimmedKeeps` those of `trim`. *Only an unfinished item stops the
renderer*: lines that are neither that nor an indented number stay so through
extraction, trimming and both passes (`ExtractCalm`, `TrimmedCalm`,
`NormalizeCalm`), and then every line begins a block that it is part of
(`CalmNeverHangs`). *Settled blocks stay* (`Settled`): one more line changes the
normalized text only behind its last mark, and that mark at most by the space
after it (`NormalizeGrows`, the first pass moving the mark and the second seeing
the result); a block that another one follows ends where it did (`AfterStays`),
also a list that looks ahead over blank lines for its next number (`ListStays`).
And an artifact that is as the schema has it makes none of the components throw
(`ConformingRenders`), one goes through them all. Together: `AnswersShown`.

**Only model-checked:** all liveness: `Answered` in `ChatStream`
(`KeepsChatStream` and `DelegationKeepsStream` are about the safety of that
module), `CallsReturnUnlessHung`, `DelegatedIsAnswered` and `Settles`. Liveness
under fairness is beyond the prover. Nothing is proved about the fold `KeptFrom`
of `AgentLoop` but that its result is a position in the window; the proofs need
no more, and `AgentLoopTrim` shows what it does.

## 5 Where code and text disagree

| Run | The code | The text |
|---|---|---|
| `AgentLoopTrim` | `request_budget.go:111` keeps the first, that is the shortest, suffix that fits: over budget, only the newest message stays | "trimmed chat history to fit prompt token budget" (`manager.go:536`) |
| `SessionsCascade` | `PRAGMA foreign_keys` and the `DELETE` may run on two connections | "removes a session and its messages (cascade)." (`sqlite.go:249`) |
| `PickerContext` | `selectedContext` is not among the dependencies of `sendMessage` (`ChatPanel.tsx:721`): a message carries the chips of an earlier render, mostly none | "Pass selected context in API request payload for routing/prompt use." (`docs/OSS_GRAFANA_ASSISTANT_ISSUE_BACKLOG.md:708`) |
| `MarkdownHangs` | a line "1. " or "- " with nothing after it is no item, no paragraph, and never passed (`MarkdownContent.tsx:186`): the page hangs when a token ends there | "On `token`: append `message` to the current response buffer, render incrementally." (`docs/ARTIFACT_SCHEMA.md:199`) |
| `ScratchpadGone` | a session's `scratchpad_uid` is used as it is (`manager.go:1143`), after the purger has deleted the dashboard too: every later call fails | "the assistant checks if a scratchpad dashboard exists for the current session", "If none exists, it creates a new dashboard" (`docs/ARTIFACTS_AND_SCRATCHPAD.md:79-80`) |

More were met while modelling and have no run of their own:

- An empty reply is streamed again with the tokens that were left before it was
  counted (`manager.go:643`, against "Completion-token budget across the request
  loop", `wiki/Configuration.md:54`; `CompletionBudgetKept` excludes it through
  `unseen`), and the `complete` chunk lacks the budget notice that was streamed
  (`manager.go:563`, against "full response (for `complete`)",
  `docs/ARTIFACT_SCHEMA.md:165`).
- One line over 1 MiB ends the stdio reader and marks a running server as not
  connected for good ("Health checks if the stdio server process is running.",
  `stdio_client.go:156`); a write to a full pipe holds `writeMu` and is bounded
  by no timer (hence `CallsReturnUnlessHung`).
- After an error in the stream the server still sends `complete` and `done`
  (`openai.go:219-239`), which the text has no place for: "On `error`: display
  error to user, stop streaming." (`docs/ARTIFACT_SCHEMA.md:203`).
- Of several failures of a specialist the code keeps one: a later tool call's is
  dropped (`subagent.go:175`), and one of the model overwrites it (`:121`).
- A specialist's tool calls count against no budget ("Max tool calls per request
  before halting additional tool execution", `wiki/Configuration.md:56`).
- The result chunk of a tool call repeats its reason, and the timeline lists the
  call twice (`ChatPanel.tsx:173`; `ChatPanel.test.tsx:207` expects one).
- A post mapped before the first answer of its thread has begun gets a session
  of its own ("Second message in same thread should reuse session.",
  `bridge_test.go:167`); it is what `forked` excuses.
- All scratchpads of a user have the same title, so where Grafana refuses equal
  titles in a folder (10.4, which the repository pins in its end-to-end tests) a
  second session gets none until the first one's is purged. `UpdatePanel` keeps
  what an earlier call set and this one leaves out.
- The purger deletes what its search has found without a second look
  (`main.go:141-154`), so a dashboard that is saved in between is deleted too,
  against "automatically deleted after a configurable period of inactivity"
  (`docs/ARTIFACTS_AND_SCRATCHPAD.md:83`).
- Without a session cookie the rate limiter tells clients apart by `RemoteAddr`,
  which has the port in it (`ratelimit.go:70-76`), so that each connection has a
  bucket of its own; and it compares the path before the base path is stripped
  (`ratelimit.go:103`, `main.go:491-513`), so that with a base path it limits
  nothing.
- An empty tool list is cached for good by the filtered client; a deny entry with
  two underscores in its short name denies nothing.
- In the picker a cached result leaves the spinner of the search before on, and
  Enter picks from a list that is hidden. A deleted chat comes back with a list
  made before. Each retry of a rating whose answer was lost is another row. An
  artifact takes the panel down that has a null in a list, something else than a
  list where a list should be, an object where a text should be, or the icon
  "constructor" (`Artifact.tsx:231` and others); the model writes it, and
  nothing checks it. The parser also rewrites code: "rate(a) - rate(b)" becomes
  a list.

## 6 Not modelled

Left out on purpose, and to stay so: wording of prompts, replies and formatted
results; layout; configuration, logging and metrics; authentication and the rest
of the Grafana client, which forward requests and keep nothing; the LLM provider
and the MCP servers of others, which appear as what they may answer. In the
modelled parts: the ids made of a session and a millisecond, which collide when
two rows of one kind are stored within one, and the order of messages of one
second (time is not modelled); the audit file; the cost estimate in dollars,
which is an outcome left open; token metrics, artifacts and redaction of
delegated chunks; and which requests the rate limiter looks at and whom it takes
for one client. Posts made while the provider is disconnected are lost, and a
provider that cannot find out who it is at its start never runs: both are in the
model, and no property speaks of them. In the panel: tool calls whose chunks
have no id (the server always sends one), what an evidence bundle holds, inline
markup; of charts, what the library makes of points that are no list; of
artifacts, objects with a length or a `toString` of their own. A base path of
"/grafana" is assumed away (links would lose it), and so are React's doubled
effects of a development build. In the services: what a panel shows, the Explore
URL, what a summary says; Grafana's search returning at most its limit of
dashboards to the purger; the token's stores are taken in program order, as on
amd64. The investigation router runs its attempts one after the other in the
request's goroutine and shares nothing, so there is no interleaving to check;
its report is wording. Left out for now: the components the plan names.

## 7 Plan

In this order; each module states first what would be argued about in a review,
and is written without RECURSIVE operators where it is to be proved about.

1. Done: `AgentLoop`, the MCP clients, `Sessions`, `Delegation`, with the proofs
   of section 4; `Clients`, `Page` and `Services`, the rate limiter proved.
2. Done: the proofs of `McpClients`, `Clients`, `Services` and `Page`, so that
   every safety property of a passing run is a theorem.
3. State that several callers share: the lazy index of the knowledge base and the
   recorder, as further parts of `Services`.
4. Pure algorithms as operators checked against reference definitions:
   redaction over argument trees, intent precedence, fusion of ranked results,
   pagination, the quality gate.

The parts of 3 and 4 join the runs there are.
