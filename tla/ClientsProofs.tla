---------------------------- MODULE ClientsProofs ---------------------------
(***************************************************************************)
(* Proofs about module Clients, for any number of turns, earlier chats,    *)
(* tool calls and clicks, and a buffer of any size: the chat panel, the    *)
(* ChatOps bridge and the Mattermost provider, each from the invariant of  *)
(* its own part.                                                           *)
(***************************************************************************)
EXTENDS Clients, SequenceTheorems, TLAPS

-----------------------------------------------------------------------------
(* The inductive invariant: the provider *)

\* A post of a user is on its way or handled, and that once; those that are
\* have been posted.
PostsOnce ==
  /\ \A i \in DOMAIN handled : handled[i] \in posted
  /\ \A i \in DOMAIN events : events[i].post \in posted
  /\ \A i, j \in DOMAIN handled : handled[i] = handled[j] => i = j
  /\ \A i \in DOMAIN events : ~events[i].own => \A j \in DOMAIN handled : handled[j] # events[i].post
  /\ \A i, j \in DOMAIN events : ~events[i].own /\ ~events[j].own /\ events[i].post = events[j].post => i = j

ProviderInv == Provider!TypeOK /\ PostsOnce

-----------------------------------------------------------------------------
(* The inductive invariant: the bridge *)

Tasks == {"none", "mapping", "chatting", "noting", "collecting", "done"}

OpsTypes ==
  /\ TurnsTypeOK
  /\ root \in [Turns -> {0} \cup Turns] /\ task \in [Turns -> Tasks]
  /\ DOMAIN entries \subseteq Turns /\ stale \subseteq Turns /\ forked \subseteq Turns
  /\ \A t \in DOMAIN entries : entries[t] \in ChatOrNone
  /\ chunks \in [Turns -> Seq(ChunkTypes)]

\* A session is called after a turn of the thread it is used in.
Within(s, t) == s # None => s \in Turns /\ root[s] = t /\ t # 0

TurnOK(r) ==
  /\ task[r] = "none" <=> root[r] = 0
  /\ task[r] \in {"none", "mapping", "chatting"} => used[r] = None
  /\ task[r] = "noting" => used[r] # None
  /\ Within(named[r], root[r]) /\ Within(used[r], root[r])

\* A thread that has a session goes on with it, and one that has none has one
\* turn that may bring one, unless there was a reason for two.
ThreadOK(t) ==
  LET Of == {r \in Turns : root[r] = t}
      s == Ops!Session(t)
  IN /\ \A r \in Of : task[r] \notin {"none", "mapping"} => t \in DOMAIN entries
     /\ s # None =>
          /\ s \in stored
          /\ \A r \in Of : task[r] = "chatting" => named[r] = s
          /\ \A r \in Of : used[r] # None => used[r] = s
     /\ s = None =>
          /\ \A r \in Of : used[r] # None => task[r] = "noting" /\ used[r] \in stored
          /\ \A r \in Of : task[r] = "chatting" => named[r] = None
          /\ \A r, q \in Of : {task[r], task[q]} \subseteq {"chatting", "noting"} => r = q

\* Nothing is said after an error, and what follows a complete answer is its end.
ChunksOK(r) ==
  /\ \A i, j \in DOMAIN chunks[r] : i < j =>
       /\ chunks[r][i] = "error" => chunks[r][j] = "blank"
       /\ chunks[r][i] = "complete" => chunks[r][j] = "done"
  /\ (\E i \in DOMAIN chunks[r] : chunks[r][i] = "error") <=> phase[r] \in Failed
  /\ (\E i \in DOMAIN chunks[r] : chunks[r][i] = "complete") => phase[r] \in {"ending", "closed"}

OpsInv ==
  /\ OpsTypes
  /\ \A r \in Turns : TurnOK(r) /\ ChunksOK(r)
  /\ \A t \in DOMAIN entries : Within(entries[t], t)
  /\ \A t \in Turns \ forked : ThreadOK(t)

OpsRest ==
  /\ root = [r \in Turns |-> 0] /\ task = [r \in Turns |-> "none"]
  /\ entries = <<>> /\ stale = {} /\ chunks = [r \in Turns |-> <<>>] /\ forked = {}

-----------------------------------------------------------------------------
(* The inductive invariant: the panel *)

Rows == [id : 1..MaxCalls, output : BOOLEAN]
Steps == {"start", "tool_call", "tool_result", "error", "final_answer"}
Bubbles == [text : {"none", "tokens", "message", "error"}, streaming : BOOLEAN,
            rows : SUBSET Rows, steps : Seq(Steps)]
Pieces == [type : ChunkTypes, id : 0..MaxCalls]
Deletions == [chat : Chats, seen : ChatOrNone, gone : BOOLEAN]

PanelTypes ==
  /\ TurnsTypeOK
  /\ sessionId \in ChatOrNone /\ shown \in [chat : ChatOrNone, turns : Seq(Turns)]
  /\ sending \in Turns \cup {None} /\ wire \in Seq(Pieces) /\ bubble \in [Turns -> Bubbles]
  /\ opening \subseteq Chats /\ deleting \subseteq Deletions /\ clicks \in 0..MaxClicks
  /\ stray \in BOOLEAN /\ told \subseteq Turns

Started(r) == phase[r] \notin {"idle", "asked"}

\* What is on screen has been asked, what was told has been answered, and the
\* turn in progress is the last one, if it is on screen.
ScreenInv ==
  /\ \A r \in told : Started(r)
  /\ \A i \in DOMAIN shown.turns : phase[shown.turns[i]] # "idle"
  /\ sending # None /\ Panel!OnScreen(sending) => shown.turns[Len(shown.turns)] = sending
  /\ \A i \in DOMAIN wire : sending # None /\ (wire[i].type = "start" => Started(sending))
  /\ Panel!ContinuesWhatItShows

Result(chunk, k) == chunk.type = "result" /\ chunk.id = k
Row(k, output) == [id |-> k, output |-> output]

\* The result of tool call k has yet to be read by the bubble of r.
Pending(r, k) ==
  \/ k = announced[r] /\ phase[r] = "tool"
  \/ \E i \in DOMAIN wire : Result(wire[i], k)

\* The panel has read of an error or is about to, and no text comes after it.
Warned(text) ==
  \/ text = "error" /\ \A j \in DOMAIN wire : wire[j].type # "token"
  \/ \E i \in DOMAIN wire : /\ wire[i].type = "error"
                            /\ \A j \in DOMAIN wire : i < j => wire[j].type # "token"

\* What has been read and what is on its way make up what the server has
\* announced, and a failure is never overlooked.
StreamOK(r) ==
  LET b == bubble[r]
  IN /\ \A i \in DOMAIN b.steps : b.steps[i] # "final_answer"
     /\ phase[r] \in Failed => Warned(b.text)
     /\ \A row \in b.rows : row.id \in 1..announced[r] /\ (row.output \/ Pending(r, row.id))
     /\ \A k \in 1..announced[r] : Row(k, TRUE) \in b.rows \/ Pending(r, k)
     /\ \A i \in DOMAIN wire : wire[i].type \in {"call", "result"} => wire[i].id \in 1..announced[r]
     /\ \A i \in DOMAIN wire : wire[i].type = "call" =>
          /\ Row(wire[i].id, TRUE) \notin b.rows
          /\ \A j \in DOMAIN wire : j < i => ~Result(wire[j], wire[i].id)

BubbleOK(r) ==
  \A i \in DOMAIN bubble[r].steps : bubble[r].steps[i] = "final_answer" =>
    phase[r] = "closed" /\ bubble[r].rows = [id : 1..announced[r], output : {TRUE}]

\* Just the bubble of the turn in progress streams.
SpinsAlone == \A r \in Turns : bubble[r].streaming <=> sending = r

CallsOK(r) ==
  /\ phase[r] \in {"idle", "asked"} => announced[r] = 0
  /\ phase[r] = "tool" => announced[r] # 0

PanelInv ==
  /\ PanelTypes /\ ScreenInv /\ SpinsAlone
  /\ \A r \in Turns : CallsOK(r) /\ BubbleOK(r) /\ (sending = r => StreamOK(r))

PanelRest ==
  /\ sessionId = None /\ shown = [chat |-> None, turns |-> <<>>] /\ sending = None /\ wire = <<>>
  /\ bubble = [r \in Turns |-> [text |-> "none", streaming |-> FALSE, rows |-> {}, steps |-> <<>>]]
  /\ opening = {} /\ deleting = {} /\ clicks = 0 /\ stray = FALSE /\ told = {}

\* The turns are those of the part that runs.
IInv ==
  /\ part \in {"panel", "ops", "mattermost"}
  /\ ProviderInv
  /\ IF part = "panel" THEN PanelInv /\ OpsRest ELSE OpsInv /\ PanelRest

-----------------------------------------------------------------------------
(* The provider *)

LEMMA EventFields ==
  ASSUME Provider!TypeOK
  PROVE  /\ DOMAIN events = 1..Len(events) /\ Len(events) \in Nat
         /\ \A i \in DOMAIN events : events[i].post \in Turns /\ events[i].own \in BOOLEAN
         /\ DOMAIN handled = 1..Len(handled) /\ Len(handled) \in Nat
         /\ \A i \in DOMAIN handled : handled[i] \in Turns
<1>1. events \in Seq([post : Turns, own : BOOLEAN, mention : BOOLEAN]) /\ handled \in Seq(Turns)
  BY DEF Provider!TypeOK
<1>2. /\ DOMAIN events = 1..Len(events) /\ Len(events) \in Nat
      /\ DOMAIN handled = 1..Len(handled) /\ Len(handled) \in Nat
  BY <1>1
<1>3. \A i \in 1..Len(events) : events[i] \in [post : Turns, own : BOOLEAN, mention : BOOLEAN]
  BY <1>1, ElementOfSeq
<1>4. \A i \in 1..Len(handled) : handled[i] \in Turns
  BY <1>1, ElementOfSeq
<1> QED BY <1>2, <1>3, <1>4

\* An event is sent: of the user, if the post is a new one, or of the bot.
LEMMA DeliverKept ==
  ASSUME ProviderInv, NEW p \in Turns, NEW own \in BOOLEAN, NEW mention \in BOOLEAN,
         Provider!Deliver([post |-> p, own |-> own, mention |-> mention]),
         posted' \subseteq Turns, posted \cup {p} \subseteq posted', ~own => p \notin posted, handled' = handled
  PROVE  /\ events' \in Seq([post : Turns, own : BOOLEAN, mention : BOOLEAN])
         /\ PostsOnce'
<1> DEFINE event == [post |-> p, own |-> own, mention |-> mention]
<1>1. Provider!TypeOK /\ PostsOnce /\ events \in Seq([post : Turns, own : BOOLEAN, mention : BOOLEAN])
  BY DEF ProviderInv, Provider!TypeOK
<1>2. CASE events' = events
  BY <1>1, <1>2 DEF PostsOnce
<1>3. CASE events' = Append(events, event)
  <2>1. event \in [post : Turns, own : BOOLEAN, mention : BOOLEAN]
    OBVIOUS
  <2>2. /\ events' \in Seq([post : Turns, own : BOOLEAN, mention : BOOLEAN])
        /\ DOMAIN events' = DOMAIN events \cup {Len(events) + 1} /\ events'[Len(events) + 1] = event
        /\ \A i \in DOMAIN events : events'[i] = events[i]
    BY <1>1, <1>3, <2>1, AppendProperties, EventFields
  <2>3. event.post = p /\ event.own = own
    OBVIOUS
  <2> HIDE DEF event
  <2>4. PICK new \in Nat : new = Len(events) + 1
    BY <1>1, EventFields
  <2>5. /\ \A i \in DOMAIN events' : events'[i].post \in posted'
        /\ \A i \in DOMAIN events' : ~events'[i].own => \A j \in DOMAIN handled : handled[j] # events'[i].post
    BY <1>1, <2>2, <2>3, <2>4 DEF PostsOnce
  <2>6. \A i, j \in DOMAIN events' : ~events'[i].own /\ ~events'[j].own /\ events'[i].post = events'[j].post => i = j
    BY <1>1, <2>2, <2>3, <2>4 DEF PostsOnce
  <2> QED BY <1>1, <2>2, <2>5, <2>6 DEF PostsOnce
<1> QED BY <1>2, <1>3 DEF Provider!Deliver

LEMMA ProviderKept ==
  ASSUME ProviderInv, Provider!Next
  PROVE  ProviderInv'
<1>1. /\ Provider!TypeOK /\ PostsOnce /\ MaxDrops \in Nat
      /\ events \in Seq([post : Turns, own : BOOLEAN, mention : BOOLEAN])
  BY ClientAssumption DEF ProviderInv, Provider!TypeOK
<1>2. CASE \/ Provider!Resolve \/ Provider!Publish \/ Provider!Authenticate \/ Provider!Check
           \/ Provider!ReadFails \/ Provider!Reconnect \/ Provider!Signal \/ Provider!Stop
           \/ Provider!LinkBreaks \/ Provider!Dial
  <2>1. UNCHANGED <<events, posted, handled, replied>>
    BY <1>2 DEF Provider!Resolve, Provider!Publish, Provider!Authenticate, Provider!Check, Provider!ReadFails,
       Provider!Reconnect, Provider!Signal, Provider!Stop, Provider!LinkBreaks, Provider!Dial, Provider!postVars
  <2>2. PostsOnce'
    BY <1>1, <2>1 DEF PostsOnce
  <2>3. drops' \in 0..MaxDrops
    BY <1>1, <1>2 DEF Provider!TypeOK, Provider!Resolve, Provider!Publish, Provider!Authenticate, Provider!Check,
       Provider!ReadFails, Provider!Reconnect, Provider!Signal, Provider!Stop, Provider!LinkBreaks, Provider!Dial
  <2>4. Provider!TypeOK'
    BY <1>1, <1>2, <2>1, <2>3 DEF Provider!TypeOK, Provider!Resolve, Provider!Publish, Provider!Authenticate,
       Provider!Check, Provider!ReadFails, Provider!Reconnect, Provider!Signal, Provider!Stop,
       Provider!LinkBreaks, Provider!Dial, Provider!Retreat
  <2> QED BY <2>2, <2>4 DEF ProviderInv
<1>3. CASE Provider!Disconnect
  <2>1. /\ wsConn' = "none" /\ link' = "none" /\ events' = <<>> /\ listener' \in {"waiting", "ended"}
        /\ UNCHANGED <<ctx, stop, drops, posted, handled, replied>>
    BY <1>3 DEF Provider!Disconnect, Provider!Retreat, Provider!postVars
  <2>2. events' \in Seq([post : Turns, own : BOOLEAN, mention : BOOLEAN]) /\ DOMAIN events' = {}
    <3>1. events' \in Seq([post : Turns, own : BOOLEAN, mention : BOOLEAN]) /\ Len(events') = 0
      BY <2>1, EmptySeq
    <3>2. DOMAIN events' = 1..0
      BY <3>1, LenProperties
    <3> QED BY <3>1, <3>2
  <2> QED BY <1>1, <2>1, <2>2 DEF ProviderInv, PostsOnce, Provider!TypeOK
<1>4. CASE Provider!Receive
  <2>1. /\ listener' = "checking" /\ events # <<>> /\ events' = Tail(events)
        /\ UNCHANGED <<ctx, stop, wsConn, link, drops, posted, replied>>
    BY <1>4 DEF Provider!Receive, Provider!connectionVars
  <2>2. PICK event \in [post : Turns, own : BOOLEAN, mention : BOOLEAN] :
          /\ event = events[1] /\ 1 \in DOMAIN events
          /\ IF Provider!ForBot(event) THEN handled' = Append(handled, event.post) ELSE handled' = handled
    <3>1. /\ Head(events) = events[1] /\ 1 \in DOMAIN events
          /\ Head(events) \in [post : Turns, own : BOOLEAN, mention : BOOLEAN]
      <4>1. Head(events) \in [post : Turns, own : BOOLEAN, mention : BOOLEAN]
        BY <1>1, <2>1, HeadTailProperties
      <4>2. Len(events) # 0
        BY <1>1, <2>1, EmptySeq
      <4> QED BY <1>1, <4>1, <4>2, EventFields
    <3> QED BY <1>4, <3>1 DEF Provider!Receive
  <2>3. /\ events' \in Seq([post : Turns, own : BOOLEAN, mention : BOOLEAN])
        /\ \A i \in DOMAIN events' : i + 1 \in DOMAIN events /\ events'[i] = events[i + 1] /\ i \in Nat /\ i + 1 # 1
    <3>1. /\ events' \in Seq([post : Turns, own : BOOLEAN, mention : BOOLEAN]) /\ Len(events') = Len(events) - 1
          /\ \A i \in 1..Len(events') : events'[i] = events[i + 1]
      BY <1>1, <2>1, HeadTailProperties
    <3>2. DOMAIN events' = 1..Len(events') /\ Len(events') \in Nat /\ Len(events) \in Nat /\ DOMAIN events = 1..Len(events)
      BY <1>1, <3>1
    <3> QED BY <3>1, <3>2
  <2>4. CASE handled' = handled
    <3>1. PostsOnce'
      BY <1>1, <2>1, <2>3, <2>4 DEF PostsOnce
    <3> QED BY <1>1, <2>1, <2>3, <2>4, <3>1 DEF ProviderInv, Provider!TypeOK
  <2>5. CASE ~event.own /\ handled' = Append(handled, event.post)
    <3>1. /\ handled' \in Seq(Turns) /\ DOMAIN handled' = DOMAIN handled \cup {Len(handled) + 1}
          /\ handled'[Len(handled) + 1] = event.post /\ \A i \in DOMAIN handled : handled'[i] = handled[i]
      BY <1>1, <2>2, <2>5, AppendProperties, EventFields DEF Provider!TypeOK
    <3>2. PICK new \in Nat : new = Len(handled) + 1
      BY <1>1, EventFields
    <3>3. /\ event.post \in posted /\ \A j \in DOMAIN handled : handled[j] # event.post
          /\ \A i \in DOMAIN events' : ~events'[i].own => events'[i].post # event.post
      BY <1>1, <2>2, <2>3, <2>5 DEF PostsOnce
    <3>4. /\ \A i \in DOMAIN handled' : handled'[i] \in posted'
          /\ \A i \in DOMAIN events' : events'[i].post \in posted'
      BY <1>1, <2>1, <2>3, <3>1, <3>2, <3>3 DEF PostsOnce
    <3>5. \A i, j \in DOMAIN handled' : handled'[i] = handled'[j] => i = j
      BY <1>1, <3>1, <3>2, <3>3 DEF PostsOnce
    <3>6. \A i \in DOMAIN events' : ~events'[i].own => \A j \in DOMAIN handled' : handled'[j] # events'[i].post
      BY <1>1, <2>3, <3>1, <3>2, <3>3 DEF PostsOnce
    <3>7. \A i, j \in DOMAIN events' : ~events'[i].own /\ ~events'[j].own /\ events'[i].post = events'[j].post => i = j
      BY <1>1, <2>3 DEF PostsOnce
    <3>8. PostsOnce'
      BY <3>4, <3>5, <3>6, <3>7 DEF PostsOnce
    <3> QED BY <1>1, <2>1, <2>3, <3>1, <3>8 DEF ProviderInv, Provider!TypeOK
  <2> QED BY <2>2, <2>4, <2>5 DEF Provider!ForBot
<1>5. ASSUME NEW p \in Turns, Provider!Post(p) PROVE ProviderInv'
  <2>1. /\ p \notin posted /\ posted' = posted \cup {p}
        /\ UNCHANGED <<listener, ctx, stop, wsConn, link, drops, handled, replied>>
    BY <1>5 DEF Provider!Post, Provider!connectionVars
  <2>2. PICK mention \in BOOLEAN : Provider!Deliver([post |-> p, own |-> FALSE, mention |-> mention])
    BY <1>5 DEF Provider!Post
  <2>3. posted' \subseteq Turns
    BY <1>1, <2>1 DEF Provider!TypeOK
  <2>4. events' \in Seq([post : Turns, own : BOOLEAN, mention : BOOLEAN]) /\ PostsOnce'
    BY <2>1, <2>2, <2>3, DeliverKept
  <2> QED BY <1>1, <2>1, <2>3, <2>4 DEF ProviderInv, Provider!TypeOK
<1>6. ASSUME NEW p \in Turns, Provider!ReplyTo(p) PROVE ProviderInv'
  <2>1. /\ replied' = replied \cup {p} /\ \E i \in DOMAIN handled : handled[i] = p
        /\ UNCHANGED <<listener, ctx, stop, wsConn, link, drops, posted, handled>>
    BY <1>6 DEF Provider!ReplyTo, Provider!connectionVars
  <2>2. PICK mention \in BOOLEAN : Provider!Deliver([post |-> p, own |-> TRUE, mention |-> mention])
    BY <1>6 DEF Provider!ReplyTo
  <2>3. posted' \subseteq Turns /\ posted \cup {p} \subseteq posted' /\ (~TRUE => p \notin posted)
    BY <1>1, <2>1 DEF Provider!TypeOK, PostsOnce
  <2>4. events' \in Seq([post : Turns, own : BOOLEAN, mention : BOOLEAN]) /\ PostsOnce'
    BY <2>1, <2>2, <2>3, DeliverKept
  <2> QED BY <1>1, <2>1, <2>3, <2>4 DEF ProviderInv, Provider!TypeOK
<1> QED BY <1>2, <1>3, <1>4, <1>5, <1>6 DEF Provider!Next, Provider!Listen

-----------------------------------------------------------------------------
(* The answers: both clients have those of module ChatTurns *)

LEMMA SameFlow ==
  /\ Panel!Flow = Flow /\ Ops!Flow = Flow /\ Panel!ChunkTypes = ChunkTypes /\ Ops!ChunkTypes = ChunkTypes
BY DEF Flow, Panel!Flow, Ops!Flow, ChunkTypes, Panel!ChunkTypes, Ops!ChunkTypes

LEMMA FlowDomain ==
  /\ DOMAIN Flow = {"idle", "asked", "open", "said", "tool", "ending", "erred", "closed", "failed"}
  /\ DOMAIN Flow["idle"] = {} /\ DOMAIN Flow["closed"] = {} /\ DOMAIN Flow["failed"] = {}
  /\ Flow["asked"] = [start |-> "open", error |-> "failed"]
  /\ Flow["open"] = [token |-> "said", call |-> "tool", complete |-> "ending", blank |-> "ending", error |-> "erred"]
  /\ Flow["said"] = [call |-> "tool", complete |-> "ending", blank |-> "ending", error |-> "erred"]
  /\ Flow["tool"] = [result |-> "open"] /\ Flow["ending"] = [done |-> "closed"]
  /\ Flow["erred"] = [blank |-> "failed"]
BY DEF Flow

\* Where a chunk may come, and where it leads.
LEMMA FlowSteps ==
  ASSUME NEW p \in DOMAIN Flow, NEW chunk \in DOMAIN Flow[p]
  PROVE  /\ Flow[p][chunk] \in DOMAIN Flow /\ chunk \in ChunkTypes
         /\ p \notin {"idle", "closed", "failed"} /\ Flow[p][chunk] \notin {"idle", "asked"}
         /\ Flow[p][chunk] \in Failed <=> chunk = "error" \/ p \in Failed
         /\ p \in Failed => chunk = "blank"
         /\ chunk = "complete" => Flow[p][chunk] = "ending"
         /\ chunk = "start" <=> p = "asked" /\ chunk # "error"
         /\ chunk = "call" <=> Flow[p][chunk] = "tool"
         /\ chunk = "result" <=> p = "tool"
         /\ chunk = "done" <=> p = "ending"
         /\ p = "ending" <=> Flow[p][chunk] = "closed"
<1>1. chunk \in ChunkTypes
  BY DEF ChunkTypes
<1>2. CASE p \in {"idle", "closed", "failed"}
  BY <1>2, FlowDomain DEF Failed
<1>3. CASE p = "asked"
  BY <1>1, <1>3, FlowDomain DEF Failed
<1>4. CASE p = "open"
  BY <1>1, <1>4, FlowDomain DEF Failed
<1>5. CASE p = "said"
  BY <1>1, <1>5, FlowDomain DEF Failed
<1>6. CASE p = "tool"
  BY <1>1, <1>6, FlowDomain DEF Failed
<1>7. CASE p = "ending"
  BY <1>1, <1>7, FlowDomain DEF Failed
<1>8. CASE p = "erred"
  BY <1>1, <1>8, FlowDomain DEF Failed
<1> QED BY <1>2, <1>3, <1>4, <1>5, <1>6, <1>7, <1>8, FlowDomain DEF Failed

\* The operators of module ChatTurns are those of both clients.
LEMMA SameTurns ==
  /\ Panel!Turns = Turns /\ Ops!Turns = Turns /\ Panel!Chats = Chats /\ Ops!Chats = Chats
  /\ Panel!ChatOrNone = ChatOrNone /\ Ops!ChatOrNone = ChatOrNone
  /\ Panel!TurnsTypeOK <=> TurnsTypeOK
  /\ Ops!TurnsTypeOK <=> TurnsTypeOK
<1>1. Panel!Turns = Turns /\ Ops!Turns = Turns
  BY DEF Turns, Panel!Turns, Ops!Turns
<1>2. Panel!Chats = Chats /\ Ops!Chats = Chats
  BY <1>1 DEF Chats, Panel!Chats, Ops!Chats
<1>3. Panel!ChatOrNone = ChatOrNone /\ Ops!ChatOrNone = ChatOrNone
  BY <1>2 DEF ChatOrNone, Panel!ChatOrNone, Ops!ChatOrNone
<1> QED BY <1>1, <1>2, <1>3, SameFlow DEF TurnsTypeOK, Panel!TurnsTypeOK, Ops!TurnsTypeOK

LEMMA SameSteps ==
  ASSUME NEW r, NEW s
  PROVE  /\ Panel!Ask(r, s) <=> Ask(r, s)
         /\ Ops!Ask(r, s) <=> Ask(r, s)
         /\ Panel!Open(r) <=> Open(r)
         /\ Ops!Open(r) <=> Open(r)
         /\ Panel!GoOn(r, s) <=> GoOn(r, s)
         /\ Ops!GoOn(r, s) <=> GoOn(r, s)
         /\ Panel!Abandon(r) <=> Abandon(r)
<1>1. ASSUME NEW c
      PROVE  /\ Panel!Emit(r, c) <=> Emit(r, c)
             /\ Ops!Emit(r, c) <=> Emit(r, c)
  BY SameFlow DEF Emit, Panel!Emit, Ops!Emit
<1>2. Panel!Ask(r, s) <=> Ask(r, s)
  BY DEF Ask, Panel!Ask
<1>3. Ops!Ask(r, s) <=> Ask(r, s)
  BY DEF Ask, Ops!Ask
<1>4. Panel!Open(r) <=> Open(r)
  BY <1>1 DEF Open, Panel!Open, Goes, Panel!Goes, Makes, Panel!Makes
<1>5. Ops!Open(r) <=> Open(r)
  BY <1>1 DEF Open, Ops!Open, Goes, Ops!Goes, Makes, Ops!Makes
<1>6. /\ Panel!GoOn(r, s) <=> GoOn(r, s)
      /\ Ops!GoOn(r, s) <=> GoOn(r, s)
  BY <1>1 DEF GoOn, Panel!GoOn, Ops!GoOn
<1>7. Panel!Abandon(r) <=> Abandon(r)
  BY DEF Abandon, Panel!Abandon
<1> QED BY <1>2, <1>3, <1>4, <1>5, <1>6, <1>7

LEMMA AskStep ==
  ASSUME TurnsTypeOK, NEW r \in Turns, NEW s \in ChatOrNone, Ask(r, s)
  PROVE  /\ TurnsTypeOK' /\ UNCHANGED <<stored, used, announced>>
         /\ phase[r] = "idle" /\ phase'[r] = "asked" /\ named'[r] = s
         /\ \A q \in Turns \ {r} : phase'[q] = phase[q] /\ named'[q] = named[q]
BY FlowDomain DEF TurnsTypeOK, Ask

LEMMA EmitStep ==
  ASSUME TurnsTypeOK, NEW r \in Turns, NEW chunk, Emit(r, chunk)
  PROVE  /\ phase[r] \in DOMAIN Flow /\ chunk \in DOMAIN Flow[phase[r]]
         /\ phase' \in [Turns -> DOMAIN Flow] /\ announced' \in [Turns -> 0..MaxCalls] /\ named' = named
         /\ phase'[r] = Flow[phase[r]][chunk]
         /\ \A q \in Turns \ {r} : phase'[q] = phase[q] /\ announced'[q] = announced[q]
         /\ announced'[r] = IF chunk = "call" THEN announced[r] + 1 ELSE announced[r]
<1>1. /\ phase \in [Turns -> DOMAIN Flow] /\ announced \in [Turns -> 0..MaxCalls] /\ MaxCalls \in Nat
      /\ chunk \in DOMAIN Flow[phase[r]] /\ phase' = [phase EXCEPT ![r] = Flow[phase[r]][chunk]]
      /\ IF chunk = "call"
         THEN announced[r] < MaxCalls /\ announced' = [announced EXCEPT ![r] = announced[r] + 1]
         ELSE announced' = announced
      /\ named' = named
  BY TurnAssumption DEF TurnsTypeOK, Emit
<1>2. phase[r] \in DOMAIN Flow
  BY <1>1
<1>3. Flow[phase[r]][chunk] \in DOMAIN Flow
  BY <1>1, <1>2, FlowSteps
<1>4. phase' \in [Turns -> DOMAIN Flow] /\ phase'[r] = Flow[phase[r]][chunk] /\ \A q \in Turns \ {r} : phase'[q] = phase[q]
  BY <1>1, <1>3
<1>5. CASE chunk = "call"
  BY <1>1, <1>2, <1>4, <1>5
<1>6. CASE chunk # "call"
  BY <1>1, <1>2, <1>4, <1>6
<1> QED BY <1>5, <1>6

LEMMA OpenStep ==
  ASSUME TurnsTypeOK, NEW r \in Turns, Open(r)
  PROVE  /\ TurnsTypeOK' /\ UNCHANGED <<named, announced>>
         /\ phase[r] = "asked" /\ phase'[r] = "open"
         /\ \A q \in Turns \ {r} : phase'[q] = phase[q] /\ used'[q] = used[q]
         /\ \/ named[r] \in stored /\ used'[r] = named[r] /\ stored' = stored
            \/ used'[r] = r /\ stored' \in {stored, stored \cup {r}}
         /\ used'[r] \in Chats
<1>1. Emit(r, "start") /\ (Goes(r) \/ Makes(r))
  BY DEF Open
<1>2. /\ phase[r] \in DOMAIN Flow /\ "start" \in DOMAIN Flow[phase[r]]
      /\ phase' \in [Turns -> DOMAIN Flow] /\ named' = named
      /\ phase'[r] = Flow[phase[r]]["start"] /\ \A q \in Turns \ {r} : phase'[q] = phase[q]
  BY <1>1, EmitStep
<1>3. announced' = announced
  BY <1>1 DEF Emit
<1>4. phase[r] = "asked" /\ phase'[r] = "open"
  <2>1. phase[r] = "asked"
    BY <1>2, FlowSteps
  <2> QED BY <1>2, <2>1, FlowDomain
<1>5. CASE Goes(r)
  BY <1>2, <1>3, <1>4, <1>5 DEF Goes, TurnsTypeOK, ChatOrNone
<1>6. CASE Makes(r)
  BY <1>2, <1>3, <1>4, <1>6 DEF Makes, TurnsTypeOK, ChatOrNone, Chats
<1> QED BY <1>1, <1>5, <1>6

LEMMA GoOnStep ==
  ASSUME TurnsTypeOK, NEW r \in Turns, NEW chunk, GoOn(r, chunk)
  PROVE  TurnsTypeOK' /\ Emit(r, chunk) /\ chunk # "start" /\ UNCHANGED <<stored, used, named>>
BY EmitStep DEF GoOn, TurnsTypeOK

-----------------------------------------------------------------------------
(* The bridge *)

\* A chunk is added to what was collected for r.
LEMMA Collected ==
  ASSUME OpsTypes, NEW r \in Turns, NEW chunk \in ChunkTypes,
         chunks' = [chunks EXCEPT ![r] = Append(chunks[r], chunk)]
  PROVE  /\ chunks' \in [Turns -> Seq(ChunkTypes)]
         /\ \A q \in Turns \ {r} : chunks'[q] = chunks[q]
         /\ \E n \in Nat :
              /\ DOMAIN chunks[r] = 1..n /\ DOMAIN chunks'[r] = 1..(n + 1)
              /\ chunks'[r][n + 1] = chunk
              /\ \A i \in 1..n : chunks'[r][i] = chunks[r][i]
<1>1. chunks \in [Turns -> Seq(ChunkTypes)] /\ chunks[r] \in Seq(ChunkTypes)
  BY DEF OpsTypes
<1>2. /\ Append(chunks[r], chunk) \in Seq(ChunkTypes) /\ Len(Append(chunks[r], chunk)) = Len(chunks[r]) + 1
      /\ \A i \in 1..Len(chunks[r]) : Append(chunks[r], chunk)[i] = chunks[r][i]
      /\ Append(chunks[r], chunk)[Len(chunks[r]) + 1] = chunk
  BY <1>1, AppendProperties
<1>3. Len(chunks[r]) \in Nat /\ DOMAIN chunks[r] = 1..Len(chunks[r])
  BY <1>1, LenProperties
<1>4. DOMAIN Append(chunks[r], chunk) = 1..(Len(chunks[r]) + 1)
  BY <1>2, LenProperties
<1>5. chunks'[r] = Append(chunks[r], chunk) /\ \A q \in Turns \ {r} : chunks'[q] = chunks[q]
  BY <1>1
<1>6. chunks' \in [Turns -> Seq(ChunkTypes)]
  BY <1>1, <1>2
<1> QED BY <1>2, <1>3, <1>4, <1>5, <1>6

\* A chunk the server sends goes on with what was collected as it should.
LEMMA ChunksKept ==
  ASSUME OpsTypes, NEW r \in Turns, NEW chunk \in ChunkTypes, \A q \in Turns : ChunksOK(q), Emit(r, chunk),
         chunks' = [chunks EXCEPT ![r] = Append(chunks[r], chunk)]
  PROVE  \A q \in Turns : ChunksOK(q)'
<1>0. TurnsTypeOK
  BY DEF OpsTypes
<1>1. /\ phase[r] \in DOMAIN Flow /\ chunk \in DOMAIN Flow[phase[r]] /\ phase'[r] = Flow[phase[r]][chunk]
      /\ \A q \in Turns \ {r} : phase'[q] = phase[q]
  BY <1>0, EmitStep
<1>2. \A q \in Turns \ {r} : chunks'[q] = chunks[q]
  BY Collected
<1>3. PICK n \in Nat : /\ DOMAIN chunks[r] = 1..n /\ DOMAIN chunks'[r] = 1..(n + 1)
                       /\ chunks'[r][n + 1] = chunk /\ \A i \in 1..n : chunks'[r][i] = chunks[r][i]
  BY Collected
<1>4. /\ phase[r] # "closed"
      /\ phase[r] = "ending" => chunk = "done"
      /\ phase'[r] \in Failed <=> chunk = "error" \/ phase[r] \in Failed
      /\ phase[r] \in Failed => chunk = "blank"
      /\ chunk = "complete" => phase'[r] = "ending"
      /\ phase[r] = "ending" => phase'[r] = "closed"
  BY <1>1, FlowSteps
<1>5. /\ \A i, j \in 1..n : i < j =>
           /\ chunks[r][i] = "error" => chunks[r][j] = "blank"
           /\ chunks[r][i] = "complete" => chunks[r][j] = "done"
      /\ (\E i \in 1..n : chunks[r][i] = "error") <=> phase[r] \in Failed
      /\ \A i \in 1..n : chunks[r][i] = "complete" => phase[r] = "ending"
  BY <1>3, <1>4 DEF ChunksOK
<1>6. ChunksOK(r)'
  <2>1. \A i, j \in 1..(n + 1) : i < j =>
          /\ chunks'[r][i] = "error" => chunks'[r][j] = "blank"
          /\ chunks'[r][i] = "complete" => chunks'[r][j] = "done"
    BY <1>3, <1>4, <1>5
  <2>2. (\E i \in 1..(n + 1) : chunks'[r][i] = "error") <=> phase'[r] \in Failed
    BY <1>3, <1>4, <1>5
  <2>3. (\E i \in 1..(n + 1) : chunks'[r][i] = "complete") => phase'[r] \in {"ending", "closed"}
    BY <1>3, <1>4, <1>5
  <2> QED BY <1>3, <2>1, <2>2, <2>3 DEF ChunksOK
<1>7. ASSUME NEW q \in Turns, q # r PROVE ChunksOK(q)'
  BY <1>1, <1>2, <1>7 DEF ChunksOK
<1> QED BY <1>6, <1>7

LEMMA OpsReceiveKept ==
  ASSUME OpsInv, NEW r \in Turns, Ops!Receive(r)
  PROVE  OpsInv'
<1>1. PICK t \in Turns : root' = [root EXCEPT ![r] = t]
  <2>1. PICK t \in 1..r : root' = [root EXCEPT ![r] = t]
    BY DEF Ops!Receive
  <2>2. t \in Turns
    BY TurnAssumption DEF Turns
  <2> QED BY <2>1, <2>2
<1>2. /\ OpsTypes /\ task[r] = "none" /\ task' = [task EXCEPT ![r] = "mapping"]
      /\ UNCHANGED <<stored, named, used, phase, announced, entries, stale, chunks, forked>>
  BY DEF OpsInv, Ops!Receive, Ops!turnVars, Ops!mapVars
<1>3. /\ root[r] = 0 /\ used[r] = None /\ named[r] = None /\ None \notin Turns /\ t # 0
  <2>1. TurnOK(r)
    BY DEF OpsInv
  <2> QED BY <1>2, <2>1, TurnAssumption DEF TurnOK, Within, Turns
<1>4. \A s : \A u : Within(s, u) => Within(s, u)'
  BY <1>1, <1>2, <1>3 DEF Within, OpsTypes
<1>5. OpsTypes'
  BY <1>1, <1>2 DEF OpsTypes, TurnsTypeOK, Tasks
<1>6. ASSUME NEW q \in Turns PROVE TurnOK(q)'
  <2>1. TurnOK(q)
    BY DEF OpsInv
  <2>2. CASE q = r
    BY <1>1, <1>2, <1>3, <2>2 DEF TurnOK, Within, OpsTypes
  <2>3. CASE q # r
    <3>1. root'[q] = root[q] /\ task'[q] = task[q]
      BY <1>1, <1>2, <2>3 DEF OpsTypes
    <3>2. Within(named[q], root[q]) /\ Within(used[q], root[q])
      BY <2>1 DEF TurnOK
    <3>3. Within(named[q], root[q])' /\ Within(used[q], root[q])'
      BY <1>1, <1>2, <1>3, <3>1, <3>2 DEF Within, OpsTypes
    <3> QED BY <1>2, <2>1, <3>1, <3>3 DEF TurnOK
  <2> QED BY <2>2, <2>3
<1>7. ASSUME NEW q \in Turns PROVE ChunksOK(q)'
  BY <1>2 DEF OpsInv, ChunksOK
<1>8. ASSUME NEW u \in DOMAIN entries' PROVE Within(entries[u], u)'
  BY <1>1, <1>2, <1>3 DEF OpsInv, OpsTypes, Within
<1>9. ASSUME NEW u \in Turns \ forked' PROVE ThreadOK(u)'
  <2>1. ThreadOK(u) /\ Ops!Session(u)' = Ops!Session(u)
    BY <1>2 DEF OpsInv, Ops!Session
  <2>2. \A q \in Turns : root'[q] = u => (root[q] = u /\ task'[q] = task[q]) \/ (task'[q] = "mapping" /\ used'[q] = None)
    BY <1>1, <1>2, <1>3 DEF OpsTypes
  <2> QED BY <1>2, <2>1, <2>2 DEF ThreadOK
<1> QED BY <1>5, <1>6, <1>7, <1>8, <1>9 DEF OpsInv

\* The session of a thread belongs to it.
LEMMA SessionFields ==
  ASSUME OpsInv, NEW t \in Turns
  PROVE  Ops!Session(t) \in ChatOrNone /\ Within(Ops!Session(t), t)
<1>1. CASE t \in DOMAIN entries
  BY <1>1 DEF OpsInv, OpsTypes, Ops!Session
<1>2. CASE t \notin DOMAIN entries
  BY <1>2 DEF Ops!Session, Within, ChatOrNone
<1> QED BY <1>1, <1>2

LEMMA OpsMapKept ==
  ASSUME OpsInv, NEW r \in Turns, Ops!Map(r)
  PROVE  OpsInv'
<1>1. OpsTypes /\ TurnsTypeOK /\ task[r] = "mapping" /\ TurnOK(r)
  BY DEF OpsInv, OpsTypes, Ops!Map
<1>2. PICK t \in Turns : t = root[r]
  BY <1>1, SMTT(20) DEF OpsTypes, TurnOK
<1>3. PICK s \in ChatOrNone : s = Ops!Session(t) /\ Within(s, t)
  BY SessionFields
<1>4. /\ Ask(r, s) /\ entries' = [u \in DOMAIN entries \cup {t} |-> Ops!Session(u)]
      /\ stale' = stale \ {t}
      /\ forked' = IF s = None /\ Ops!Unsettled(t) THEN forked \cup {t} ELSE forked
      /\ task' = [task EXCEPT ![r] = "chatting"]
      /\ UNCHANGED <<root, chunks>>
  BY <1>2, <1>3, SameSteps DEF Ops!Map
<1>5. /\ TurnsTypeOK' /\ UNCHANGED <<stored, used, announced>>
      /\ phase[r] = "idle" /\ phase'[r] = "asked" /\ named'[r] = s
      /\ \A q \in Turns \ {r} : phase'[q] = phase[q] /\ named'[q] = named[q]
  BY <1>1, <1>4, AskStep
<1>6. /\ task'[r] = "chatting" /\ \A q \in Turns \ {r} : task'[q] = task[q]
      /\ task' \in [Turns -> Tasks]
  BY <1>1, <1>4 DEF OpsTypes, Tasks
<1>7. \A u : Ops!Session(u)' = Ops!Session(u)
  BY <1>4 DEF Ops!Session
<1>8. DOMAIN entries' = DOMAIN entries \cup {t} /\ \A u \in DOMAIN entries' : entries'[u] = Ops!Session(u) /\ u \in Turns
  BY <1>1, <1>4 DEF OpsTypes
<1>9. OpsTypes'
  <2>1. \A u \in DOMAIN entries' : entries'[u] \in ChatOrNone
    BY <1>8, SessionFields
  <2> QED BY <1>1, <1>4, <1>5, <1>6, <1>8, <2>1 DEF OpsTypes
<1>10. ASSUME NEW q \in Turns PROVE TurnOK(q)'
  <2>1. TurnOK(q)
    BY DEF OpsInv
  <2>2. CASE q = r
    BY <1>1, <1>2, <1>3, <1>4, <1>5, <1>6, <2>2 DEF TurnOK, Within
  <2>3. CASE q # r
    BY <1>4, <1>5, <1>6, <2>1, <2>3 DEF TurnOK, Within
  <2> QED BY <2>2, <2>3
<1>11. ASSUME NEW q \in Turns PROVE ChunksOK(q)'
  <2>1. ChunksOK(q)
    BY DEF OpsInv
  <2> QED BY <1>4, <1>5, <2>1 DEF ChunksOK, Failed
<1>12. ASSUME NEW u \in DOMAIN entries' PROVE Within(entries[u], u)'
  <2>1. Within(Ops!Session(u), u) /\ entries'[u] = Ops!Session(u)
    BY <1>8, SessionFields
  <2> QED BY <1>4, <2>1 DEF Within
<1>13. ASSUME NEW u \in Turns \ forked' PROVE ThreadOK(u)'
  <2>1. ThreadOK(u) /\ u \in Turns \ forked
    BY <1>4 DEF OpsInv
  <2>2. CASE u # t
    <3>1. \A q \in Turns : root'[q] = u => q # r /\ root[q] = u /\ task'[q] = task[q] /\ named'[q] = named[q]
      BY <1>2, <1>4, <1>5, <1>6, <2>2
    <3> QED BY <1>5, <1>7, <1>8, <2>1, <3>1 DEF ThreadOK
  <2>3. CASE u = t /\ s # None
    <3>1. /\ s \in stored /\ \A q \in Turns : root[q] = t => /\ task[q] = "chatting" => named[q] = s
                                                             /\ used[q] # None => used[q] = s
      BY <1>3, <2>1, <2>3 DEF ThreadOK
    <3>2. \A q \in Turns : root'[q] = t => /\ task'[q] = "chatting" => named'[q] = s
                                           /\ used'[q] # None => used'[q] = s
      BY <1>4, <1>5, <1>6, <3>1
    <3>3. Ops!Session(u)' = s /\ s \in stored' /\ u \in DOMAIN entries'
      BY <1>3, <1>5, <1>7, <1>8, <2>3, <3>1
    <3> QED BY <2>3, <3>2, <3>3 DEF ThreadOK
  <2>4. CASE u = t /\ s = None
    <3>1. \A q \in Turns : root[q] = t => task[q] \notin {"chatting", "noting"}
      BY <1>4, <2>1, <2>4 DEF Ops!Unsettled, Ops!Turns, Turns
    <3>2. \A q \in Turns : root[q] = t => used[q] = None
      BY <1>3, <2>1, <2>4, <3>1 DEF ThreadOK
    <3> QED BY <1>3, <1>4, <1>5, <1>6, <1>7, <1>8, <2>4, <3>1, <3>2 DEF ThreadOK
  <2> QED BY <2>2, <2>3, <2>4
<1> QED BY <1>9, <1>10, <1>11, <1>12, <1>13 DEF OpsInv

LEMMA OpsBeginKept ==
  ASSUME OpsInv, NEW r \in Turns, Ops!Begin(r)
  PROVE  OpsInv'
<1>1. OpsTypes /\ TurnsTypeOK /\ task[r] = "chatting" /\ TurnOK(r)
  BY DEF OpsInv, OpsTypes, Ops!Begin
<1>2. PICK t \in Turns : t = root[r]
  BY <1>1 DEF OpsTypes, TurnOK
<1>3. /\ Open(r) /\ task' = [task EXCEPT ![r] = "noting"]
      /\ chunks' = [chunks EXCEPT ![r] = Append(chunks[r], "start")]
      /\ forked' = IF used'[r] = r /\ (named[r] \in stored \/ r \notin stored') THEN forked \cup {t} ELSE forked
      /\ UNCHANGED <<root, entries, stale>>
  BY <1>2, SameSteps DEF Ops!Begin, Ops!mapVars
<1>4. /\ TurnsTypeOK' /\ UNCHANGED <<named, announced>>
      /\ \A q \in Turns \ {r} : phase'[q] = phase[q] /\ used'[q] = used[q]
      /\ \/ named[r] \in stored /\ used'[r] = named[r] /\ stored' = stored
         \/ used'[r] = r /\ stored' \in {stored, stored \cup {r}}
      /\ used'[r] \in Chats
  BY <1>1, <1>3, OpenStep
<1>5. /\ used'[r] # None /\ used[r] = None /\ None \notin stored
      /\ used'[r] # r => used'[r] = named[r]
  BY <1>1, <1>4, TurnAssumption DEF TurnOK, Chats, TurnsTypeOK
<1>6. task'[r] = "noting" /\ (\A q \in Turns \ {r} : task'[q] = task[q]) /\ task' \in [Turns -> Tasks]
  BY <1>1, <1>3 DEF OpsTypes, Tasks
<1>7. chunks' \in [Turns -> Seq(ChunkTypes)] /\ \A q \in Turns : ChunksOK(q)'
  <2>1. Emit(r, "start") /\ "start" \in ChunkTypes
    <3>1. Emit(r, "start")
      BY <1>3 DEF Open
    <3>2. phase[r] \in DOMAIN Flow /\ "start" \in DOMAIN Flow[phase[r]]
      BY <1>1, <3>1, EmitStep
    <3> QED BY <3>1, <3>2, FlowSteps
  <2> QED BY <1>1, <1>3, <2>1, Collected, ChunksKept DEF OpsInv
<1>8. OpsTypes'
  BY <1>1, <1>2, <1>3, <1>4, <1>6, <1>7 DEF OpsTypes
<1>9. ASSUME NEW q \in Turns PROVE TurnOK(q)'
  <2>1. TurnOK(q)
    BY DEF OpsInv
  <2>2. CASE q = r
    <3>1. Within(used[r], root[r])'
      BY <1>1, <1>2, <1>3, <1>4, <1>5 DEF Within, TurnOK
    <3>2. Within(named[r], root[r])'
      BY <1>1, <1>3, <1>4 DEF Within, TurnOK
    <3>3. root'[r] # 0
      BY <1>1, <1>3 DEF TurnOK
    <3> QED BY <1>5, <1>6, <2>2, <3>1, <3>2, <3>3 DEF TurnOK
  <2>3. CASE q # r
    BY <1>3, <1>4, <1>6, <2>1, <2>3 DEF TurnOK, Within
  <2> QED BY <2>2, <2>3
<1>10. ASSUME NEW u \in DOMAIN entries' PROVE Within(entries[u], u)'
  BY <1>3 DEF OpsInv, Within
<1>11. ASSUME NEW u \in Turns \ forked' PROVE ThreadOK(u)'
  <2>1. ThreadOK(u) /\ u \in Turns \ forked /\ stored \subseteq stored'
    BY <1>3, <1>4 DEF OpsInv
  <2>2. PICK s \in ChatOrNone : s = Ops!Session(u) /\ Ops!Session(u)' = s
    BY <1>3, SessionFields DEF Ops!Session
  <2>3. CASE u # t
    <3>1. \A q \in Turns : root'[q] = u => q # r /\ root[q] = u /\ task'[q] = task[q] /\ used'[q] = used[q]
      BY <1>2, <1>3, <1>4, <1>6, <2>3
    <3> QED BY <1>3, <1>4, <2>1, <2>2, <3>1 DEF ThreadOK
  <2>4. CASE u = t /\ s # None
    <3>1. /\ s \in stored /\ \A q \in Turns : root[q] = t => /\ task[q] = "chatting" => named[q] = s
                                                             /\ used[q] # None => used[q] = s
      BY <2>1, <2>2, <2>4 DEF ThreadOK
    <3>2. used'[r] = s
      BY <1>1, <1>2, <1>3, <1>4, <2>4, <3>1
    <3>3. \A q \in Turns : root'[q] = t => /\ task'[q] = "chatting" => named'[q] = s
                                           /\ used'[q] # None => used'[q] = s
      BY <1>3, <1>4, <1>6, <3>1, <3>2
    <3>4. \A q \in Turns : root'[q] = t /\ task'[q] \notin {"none", "mapping"} => u \in DOMAIN entries'
      BY <1>1, <1>2, <1>3, <1>6, <2>1, <2>4 DEF ThreadOK
    <3> QED BY <2>1, <2>2, <2>4, <3>1, <3>3, <3>4 DEF ThreadOK
  <2>5. CASE u = t /\ s = None
    <3>1. /\ named[r] = None
          /\ \A q \in Turns : root[q] = t => /\ used[q] # None => task[q] = "noting"
                                             /\ task[q] = "chatting" => named[q] = None
                                             /\ task[q] \in {"chatting", "noting"} => q = r
      <4>1. /\ \A q \in Turns : root[q] = t => /\ used[q] # None => task[q] = "noting"
                                               /\ task[q] = "chatting" => named[q] = None
            /\ \A q \in Turns : root[q] = t /\ {task[q], task[r]} \subseteq {"chatting", "noting"} => q = r
        BY <1>2, <2>1, <2>2, <2>5 DEF ThreadOK
      <4> QED BY <1>1, <1>2, <4>1
    <3>2. used'[r] = r /\ r \in stored'
      BY <1>3, <1>4, <1>5, <2>5, <3>1
    <3>3. \A q \in Turns : root'[q] = t => /\ used'[q] # None => task'[q] = "noting" /\ used'[q] \in stored'
                                           /\ task'[q] = "chatting" => named'[q] = None
                                           /\ task'[q] \in {"chatting", "noting"} => q = r
      BY <1>3, <1>4, <1>6, <3>1, <3>2
    <3>4. \A q \in Turns : root'[q] = t /\ task'[q] \notin {"none", "mapping"} => u \in DOMAIN entries'
      BY <1>1, <1>2, <1>3, <1>6, <2>1, <2>5 DEF ThreadOK
    <3> QED BY <2>2, <2>5, <3>3, <3>4 DEF ThreadOK
  <2> QED BY <2>3, <2>4, <2>5
<1> QED BY <1>7, <1>8, <1>9, <1>10, <1>11 DEF OpsInv

LEMMA OpsNoteKept ==
  ASSUME OpsInv, NEW r \in Turns, Ops!Note(r)
  PROVE  OpsInv'
<1>1. OpsTypes /\ TurnsTypeOK /\ task[r] = "noting" /\ TurnOK(r)
  BY DEF OpsInv, OpsTypes, Ops!Note
<1>2. PICK t \in Turns : t = root[r]
  BY <1>1 DEF OpsTypes, TurnOK
<1>3. /\ IF t \in DOMAIN entries
         THEN entries' = [entries EXCEPT ![t] = used[r]] /\ stale' = stale \ {t}
         ELSE entries' = entries /\ stale' = stale
      /\ task' = [task EXCEPT ![r] = "collecting"]
      /\ UNCHANGED <<stored, named, used, phase, announced, root, chunks, forked>>
  BY <1>2 DEF Ops!Note, Ops!turnVars, Ops!mapVars
<1>4. task'[r] = "collecting" /\ (\A q \in Turns \ {r} : task'[q] = task[q]) /\ task' \in [Turns -> Tasks]
  BY <1>1, <1>3 DEF OpsTypes, Tasks
<1>5. /\ DOMAIN entries' = DOMAIN entries /\ stale' \subseteq stale
      /\ \A u \in DOMAIN entries : entries'[u] = IF u = t THEN used[r] ELSE entries[u]
  BY <1>3
<1>6. used[r] # None /\ used[r] \in ChatOrNone
  BY <1>1 DEF TurnOK, TurnsTypeOK
<1>7. TurnsTypeOK'
  BY <1>1, <1>3 DEF TurnsTypeOK
<1>8. OpsTypes'
  BY <1>1, <1>3, <1>4, <1>5, <1>6, <1>7 DEF OpsTypes
<1>9. ASSUME NEW q \in Turns PROVE TurnOK(q)' /\ ChunksOK(q)'
  <2>1. TurnOK(q) /\ ChunksOK(q)
    BY DEF OpsInv
  <2>2. ChunksOK(q)'
    BY <1>3, <2>1 DEF ChunksOK
  <2>3. CASE q = r
    BY <1>1, <1>3, <1>4, <2>2, <2>3 DEF TurnOK, Within
  <2>4. CASE q # r
    BY <1>3, <1>4, <2>1, <2>2, <2>4 DEF TurnOK, Within
  <2> QED BY <2>3, <2>4
<1>10. ASSUME NEW u \in DOMAIN entries' PROVE Within(entries[u], u)'
  <2>1. Within(entries[u], u) /\ Within(used[r], t)
    BY <1>1, <1>2, <1>5 DEF OpsInv, TurnOK
  <2> QED BY <1>3, <1>5, <2>1 DEF Within
<1>11. ASSUME NEW u \in Turns \ forked' PROVE ThreadOK(u)'
  <2>1. ThreadOK(u) /\ u \in Turns \ forked
    BY <1>3 DEF OpsInv
  <2>2. CASE u # t
    <3>1. \A q \in Turns : root'[q] = u => q # r /\ root[q] = u /\ task'[q] = task[q]
      BY <1>2, <1>3, <1>4, <2>2
    <3>2. Ops!Session(u)' = Ops!Session(u)
      BY <1>5, <2>2 DEF Ops!Session
    <3> QED BY <1>3, <1>5, <2>1, <3>1, <3>2 DEF ThreadOK
  <2>3. CASE u = t
    <3>1. t \in DOMAIN entries
      BY <1>1, <1>2, <2>1, <2>3 DEF ThreadOK
    <3>2. Ops!Session(u)' = used[r]
      BY <1>5, <2>3, <3>1 DEF Ops!Session
    <3>3. PICK s \in ChatOrNone : s = Ops!Session(t)
      BY SessionFields
    <3>4. CASE s # None
      <4>1. /\ s \in stored /\ used[r] = s
            /\ \A q \in Turns : root[q] = t => /\ task[q] = "chatting" => named[q] = s
                                               /\ used[q] # None => used[q] = s
        BY <1>2, <1>6, <2>1, <2>3, <3>3, <3>4 DEF ThreadOK
      <4>2. \A q \in Turns : root'[q] = t => /\ task'[q] = "chatting" => named'[q] = s
                                             /\ used'[q] # None => used'[q] = s
        BY <1>3, <1>4, <4>1
      <4> QED BY <1>3, <1>5, <2>3, <3>1, <3>2, <3>4, <4>1, <4>2 DEF ThreadOK
    <3>5. CASE s = None
      <4>1. /\ \A q \in Turns : root[q] = t => (used[q] # None => task[q] = "noting" /\ used[q] \in stored)
            /\ \A q \in Turns : root[q] = t /\ {task[q], task[r]} \subseteq {"chatting", "noting"} => q = r
        BY <1>2, <2>1, <2>3, <3>3, <3>5 DEF ThreadOK
      <4>2. used[r] \in stored /\ \A q \in Turns : root[q] = t => (task[q] = "chatting" => FALSE) /\ (used[q] # None => q = r)
        BY <1>1, <1>2, <1>6, <4>1
      <4>3. used[r] \in stored' /\ \A q \in Turns : root'[q] = t => /\ task'[q] = "chatting" => named'[q] = used[r]
                                                                    /\ used'[q] # None => used'[q] = used[r]
        BY <1>3, <1>4, <4>2
      <4> QED BY <1>3, <1>5, <1>6, <2>3, <3>1, <3>2, <4>3 DEF ThreadOK
    <3> QED BY <3>4, <3>5
  <2> QED BY <2>2, <2>3
<1> QED BY <1>8, <1>9, <1>10, <1>11 DEF OpsInv

LEMMA OpsCollectKept ==
  ASSUME OpsInv, NEW r \in Turns, Ops!Collect(r)
  PROVE  OpsInv'
<1>1. OpsTypes /\ TurnsTypeOK
  BY DEF OpsInv, OpsTypes
<1>2. PICK chunk \in ChunkTypes : GoOn(r, chunk) /\ chunks' = [chunks EXCEPT ![r] = Append(chunks[r], chunk)]
  BY SameFlow, SameSteps DEF Ops!Collect
<1>3. UNCHANGED <<root, task, entries, stale, forked>>
  BY DEF Ops!Collect, Ops!mapVars
<1>4. TurnsTypeOK' /\ Emit(r, chunk) /\ UNCHANGED <<stored, used, named>>
  BY <1>1, <1>2, GoOnStep
<1>5. chunks' \in [Turns -> Seq(ChunkTypes)] /\ \A q \in Turns : ChunksOK(q)'
  BY <1>1, <1>2, <1>4, Collected, ChunksKept DEF OpsInv
<1>6. OpsTypes'
  BY <1>1, <1>3, <1>4, <1>5 DEF OpsTypes
<1>7. ASSUME NEW q \in Turns PROVE TurnOK(q)'
  BY <1>3, <1>4 DEF OpsInv, TurnOK, Within
<1>8. ASSUME NEW u \in DOMAIN entries' PROVE Within(entries[u], u)'
  BY <1>3 DEF OpsInv, Within
<1>9. ASSUME NEW u \in Turns \ forked' PROVE ThreadOK(u)'
  BY <1>3, <1>4 DEF OpsInv, ThreadOK, Ops!Session
<1> QED BY <1>5, <1>6, <1>7, <1>8, <1>9 DEF OpsInv

LEMMA OpsReplyKept ==
  ASSUME OpsInv, NEW r \in Turns, Ops!Reply(r)
  PROVE  OpsInv'
<1>1. OpsTypes /\ task[r] \in {"chatting", "collecting"} /\ task' = [task EXCEPT ![r] = "done"]
  BY DEF OpsInv, Ops!Reply
<1>2. UNCHANGED <<stored, named, used, phase, announced, root, entries, stale, chunks, forked>>
  BY DEF Ops!Reply, Ops!turnVars, Ops!mapVars
<1>3. task'[r] = "done" /\ (\A q \in Turns \ {r} : task'[q] = task[q]) /\ task' \in [Turns -> Tasks]
  BY <1>1 DEF OpsTypes, Tasks
<1>4. OpsTypes'
  BY <1>1, <1>2, <1>3 DEF OpsTypes, TurnsTypeOK
<1>5. ASSUME NEW q \in Turns PROVE TurnOK(q)' /\ ChunksOK(q)'
  <2>1. TurnOK(q) /\ ChunksOK(q)
    BY DEF OpsInv
  <2>2. ChunksOK(q)'
    BY <1>2, <2>1 DEF ChunksOK
  <2>3. CASE q = r
    BY <1>1, <1>2, <1>3, <2>1, <2>2, <2>3 DEF TurnOK, Within
  <2>4. CASE q # r
    BY <1>2, <1>3, <2>1, <2>2, <2>4 DEF TurnOK, Within
  <2> QED BY <2>3, <2>4
<1>6. ASSUME NEW u \in DOMAIN entries' PROVE Within(entries[u], u)'
  BY <1>2 DEF OpsInv, Within
<1>7. ASSUME NEW u \in Turns \ forked' PROVE ThreadOK(u)'
  <2>1. ThreadOK(u) /\ Ops!Session(u)' = Ops!Session(u)
    BY <1>2 DEF OpsInv, Ops!Session
  <2>2. \A q \in Turns : task'[q] = task[q] \/ (task'[q] = "done" /\ task[q] \in {"chatting", "collecting"})
    BY <1>1, <1>3
  <2>3. used[r] # None => task[r] # "chatting"
    BY DEF OpsInv, TurnOK
  <2>4. \A q \in Turns : task[q] = "chatting" => used[q] = None
    BY DEF OpsInv, TurnOK
  <2> QED BY <1>2, <2>1, <2>2, <2>4 DEF ThreadOK
<1> QED BY <1>4, <1>5, <1>6, <1>7 DEF OpsInv

\* The map by itself: an hour passes, and what was not used is evicted.
LEMMA OpsMapItselfKept ==
  ASSUME OpsInv, Ops!HourPasses \/ Ops!Evict
  PROVE  OpsInv'
<1>1. OpsTypes /\ UNCHANGED <<stored, named, used, phase, announced, root, task, chunks>>
  BY DEF OpsInv, Ops!HourPasses, Ops!Evict, Ops!turnVars
<1>2. /\ DOMAIN entries' \subseteq DOMAIN entries /\ \A u \in DOMAIN entries' : entries'[u] = entries[u]
      /\ forked \subseteq forked' /\ forked' \subseteq Turns /\ stale' \subseteq Turns
      /\ \A u \in Turns \ forked' : u \in DOMAIN entries <=> u \in DOMAIN entries'
  BY <1>1 DEF Ops!HourPasses, Ops!Evict, OpsTypes
<1>3. OpsTypes'
  <2>1. TurnsTypeOK'
    BY <1>1 DEF OpsTypes, TurnsTypeOK
  <2> QED BY <1>1, <1>2, <2>1 DEF OpsTypes
<1>4. ASSUME NEW q \in Turns PROVE TurnOK(q)' /\ ChunksOK(q)'
  BY <1>1 DEF OpsInv, TurnOK, ChunksOK, Within
<1>5. ASSUME NEW u \in DOMAIN entries' PROVE Within(entries[u], u)'
  BY <1>1, <1>2 DEF OpsInv, Within
<1>6. ASSUME NEW u \in Turns \ forked' PROVE ThreadOK(u)'
  <2>1. ThreadOK(u) /\ Ops!Session(u)' = Ops!Session(u)
    BY <1>2 DEF OpsInv, Ops!Session
  <2> QED BY <1>1, <1>2, <2>1 DEF ThreadOK
<1> QED BY <1>3, <1>4, <1>5, <1>6 DEF OpsInv

LEMMA OpsKept ==
  ASSUME OpsInv, Ops!Next
  PROVE  OpsInv'
<1>1. ASSUME NEW r \in Turns, Ops!Handle(r) PROVE OpsInv'
  BY <1>1, OpsMapKept, OpsBeginKept, OpsNoteKept, OpsCollectKept, OpsReplyKept DEF Ops!Handle
<1>2. ASSUME NEW r \in Turns, Ops!Receive(r) PROVE OpsInv'
  BY <1>2, OpsReceiveKept
<1> QED BY <1>1, <1>2, OpsMapItselfKept, SameTurns DEF Ops!Next, Ops!Proceed

\* What module ChatOps promises follows from the invariant of the bridge.
LEMMA OpsHolds ==
  ASSUME OpsInv
  PROVE  Ops!TypeOK /\ Ops!ThreadsAreConversations /\ Ops!ReplyIsTheAnswer
<1>1. OpsTypes
  BY DEF OpsInv
<1>2. Ops!TypeOK
  <2>1. \A r \in Turns : \A i \in DOMAIN chunks[r] : chunks[r][i] \in ChunkTypes
    <3>1. ASSUME NEW r \in Turns, NEW i \in DOMAIN chunks[r] PROVE chunks[r][i] \in ChunkTypes
      <4>1. chunks[r] \in Seq(ChunkTypes)
        BY <1>1 DEF OpsTypes
      <4> QED BY <3>1, <4>1, ElementOfSeq, LenProperties
    <3> QED BY <3>1
  <2> QED BY <1>1, <2>1, SameTurns, SameFlow DEF Ops!TypeOK, OpsTypes, Tasks, Ops!Threads
<1>3. Ops!ThreadsAreConversations
  <2>1. ASSUME NEW r \in Ops!Opened, NEW q \in Ops!Opened
        PROVE  /\ used[r] = used[q] => root[r] = root[q]
               /\ root[r] = root[q] => used[r] = used[q] \/ root[r] \in forked
    <3>1. r \in Turns /\ q \in Turns /\ root[r] \in Turns /\ used[r] # None /\ used[q] # None
      BY <1>1, SameTurns DEF Ops!Opened, OpsTypes
    <3>2. Within(used[r], root[r]) /\ Within(used[q], root[q])
      BY <3>1 DEF OpsInv, TurnOK
    <3>3. used[r] = used[q] => root[r] = root[q]
      BY <3>1, <3>2 DEF Within
    <3>4. ASSUME root[r] = root[q], root[r] \notin forked PROVE used[r] = used[q]
      <4>1. ThreadOK(root[r])
        BY <3>1, <3>4 DEF OpsInv
      <4> QED BY <3>1, <3>4, <4>1 DEF ThreadOK
    <3> QED BY <3>3, <3>4
  <2> QED BY <2>1 DEF Ops!ThreadsAreConversations
<1>4. Ops!ReplyIsTheAnswer
  <2> SUFFICES ASSUME NEW r \in Turns, task[r] = "done"
               PROVE  LET text == Ops!Format(chunks[r]).text
                          Says(i, types) == chunks[r][i] \in types
                      IN /\ (\E i \in text : Says(i, {"error"})) <=> phase[r] \in Failed
                         /\ \A i, j \in text : Says(i, {"complete"}) /\ Says(j, {"token", "complete"}) => i = j
                         /\ (\E i \in DOMAIN chunks[r] : Says(i, {"token", "complete"})) =>
                              \E i \in text : Says(i, {"token", "complete"})
    BY SameTurns DEF Ops!ReplyIsTheAnswer, Ops!Failed, Failed
  <2>1. PICK n \in Nat : DOMAIN chunks[r] = 1..n
    <3>1. chunks[r] \in Seq(ChunkTypes)
      BY <1>1 DEF OpsTypes
    <3> QED BY <3>1, LenProperties
  <2>2. ChunksOK(r)
    BY DEF OpsInv
  <2>3. PICK text : /\ text = Ops!Format(chunks[r]).text
                    /\ \A i : i \in text <=>
                         /\ i \in 1..n
                         /\ \/ chunks[r][i] \in {"token", "error"}
                            \/ /\ chunks[r][i] = "complete"
                               /\ \A j \in 1..(i - 1) : chunks[r][j] \notin {"token", "error", "complete"}
    <3> DEFINE body == {i \in 1..n :
                 \/ chunks[r][i] \in {"token", "error"}
                 \/ /\ chunks[r][i] = "complete"
                    /\ \A j \in 1..(i - 1) : chunks[r][j] \notin {"token", "error", "complete"}}
    <3>1. Ops!Format(chunks[r]).text = body
      BY <2>1 DEF Ops!Format
    <3> QED BY <3>1
  <2>4. (\E i \in text : chunks[r][i] = "error") <=> phase[r] \in Failed
    BY <2>1, <2>2, <2>3 DEF ChunksOK
  <2>5. ASSUME NEW i \in text, NEW j \in text, chunks[r][i] = "complete", chunks[r][j] \in {"token", "complete"}
        PROVE  i = j
    <3>1. i \in 1..n /\ j \in 1..n /\ \A k \in 1..(i - 1) : chunks[r][k] \notin {"token", "error", "complete"}
      BY <2>3, <2>5
    <3>2. CASE i < j
      BY <2>1, <2>2, <2>5, <3>1, <3>2 DEF ChunksOK
    <3>3. CASE j < i
      BY <2>5, <3>1, <3>3
    <3> QED BY <3>1, <3>2, <3>3
  <2>6. ASSUME NEW i \in 1..n, chunks[r][i] \in {"token", "complete"}
        PROVE  \E k \in text : chunks[r][k] \in {"token", "complete"}
    <3>1. CASE i \in text
      BY <2>6, <3>1
    <3>2. CASE i \notin text
      <4>1. PICK j \in 1..(i - 1) : chunks[r][j] \in {"token", "error", "complete"}
        BY <2>3, <2>6, <3>2
      <4>2. j \in 1..n /\ j < i
        BY <4>1
      <4>3. chunks[r][j] = "token"
        BY <2>1, <2>2, <2>6, <4>1, <4>2 DEF ChunksOK
      <4> QED BY <2>3, <4>2, <4>3
    <3> QED BY <3>1, <3>2
  <2> QED BY <2>1, <2>3, <2>4, <2>5, <2>6
<1> QED BY <1>2, <1>3, <1>4

-----------------------------------------------------------------------------
(* The panel *)

LEMMA NoElements == DOMAIN <<>> = {} /\ Len(<<>>) = 0 /\ \A S : <<>> \in Seq(S)
<1>1. Len(<<>>) = 0 /\ \A S : <<>> \in Seq(S)
  BY EmptySeq
<1>2. DOMAIN <<>> = 1..0
  BY <1>1, LenProperties
<1> QED BY <1>1, <1>2

LEMMA BlankBubble ==
  /\ Panel!Blank \in Bubbles /\ Panel!Blank.streaming = FALSE
  /\ DOMAIN Panel!Blank.steps = {} /\ Panel!Blank.rows = {} /\ Panel!Blank.text = "none"
BY NoElements DEF Panel!Blank, Bubbles

LEMMA WireFields ==
  ASSUME PanelInv
  PROVE  /\ wire \in Seq(Pieces) /\ Len(wire) \in Nat /\ DOMAIN wire = 1..Len(wire)
         /\ \A i \in DOMAIN wire : wire[i] \in Pieces
         /\ wire = <<>> <=> Len(wire) = 0
         /\ sending = None => wire = <<>>
<1>1. wire \in Seq(Pieces)
  BY DEF PanelInv, PanelTypes
<1>2. Len(wire) \in Nat /\ DOMAIN wire = 1..Len(wire)
  BY <1>1, LenProperties
<1>3. \A i \in 1..Len(wire) : wire[i] \in Pieces
  BY <1>1, ElementOfSeq
<1>4. wire = <<>> <=> Len(wire) = 0
  BY <1>1, EmptySeq
<1>5. ASSUME wire # <<>> PROVE sending # None
  <2>1. 1 \in DOMAIN wire
    BY <1>2, <1>4, <1>5
  <2> QED BY <2>1 DEF PanelInv, ScreenInv
<1> QED BY <1>1, <1>2, <1>3, <1>4, <1>5

\* What is on screen goes on with the same session while it and the sessions of
\* the turns that were told stay.
LEMMA ConversationStays ==
  ASSUME PanelInv, UNCHANGED <<shown, sessionId, stray, told>>, \A q \in told : used'[q] = used[q]
  PROVE  Panel!ContinuesWhatItShows'
<1>1. Panel!ContinuesWhatItShows
  BY DEF PanelInv, ScreenInv
<1>2. CASE stray
  BY <1>2 DEF Panel!ContinuesWhatItShows
<1>3. CASE ~stray
  <2>1. Panel!IsConversation(sessionId)
    BY <1>1, <1>3 DEF Panel!ContinuesWhatItShows
  <2>2. PICK heard : heard = {i \in DOMAIN shown.turns : shown.turns[i] \in told}
    OBVIOUS
  <2>3. CASE heard = {}
    BY <2>1, <2>2, <2>3 DEF Panel!ContinuesWhatItShows, Panel!IsConversation
  <2>4. CASE heard # {}
    <3>1. PICK i \in heard : (\A j \in heard : j <= i) /\ sessionId = used[shown.turns[i]]
      BY <2>1, <2>2, <2>4 DEF Panel!IsConversation
    <3>2. sessionId' = used'[shown'.turns[i]]
      BY <2>2, <3>1
    <3> QED BY <2>2, <2>4, <3>1, <3>2 DEF Panel!ContinuesWhatItShows, Panel!IsConversation
  <2> QED BY <2>3, <2>4
<1> QED BY <1>2, <1>3

LEMMA SubmitKept ==
  ASSUME PanelInv, NEW r \in Turns, Panel!Submit(r)
  PROVE  PanelInv'
<1>1. PanelTypes /\ TurnsTypeOK /\ sessionId \in ChatOrNone
  BY DEF PanelInv, PanelTypes
<1>2. /\ sending = None /\ sending' = r /\ Ask(r, sessionId)
      /\ shown' = [shown EXCEPT !.turns = Append(shown.turns, r)]
      /\ bubble' = [bubble EXCEPT ![r] = [Panel!Blank EXCEPT !.streaming = TRUE, !.steps = <<"start">>]]
      /\ UNCHANGED <<sessionId, wire, opening, deleting, clicks, stray, told>>
  BY SameSteps DEF Panel!Submit, Panel!historyVars
<1>3. /\ TurnsTypeOK' /\ UNCHANGED <<stored, used, announced>>
      /\ phase[r] = "idle" /\ phase'[r] = "asked"
      /\ \A q \in Turns \ {r} : phase'[q] = phase[q]
  BY <1>1, <1>2, AskStep
<1>4. wire = <<>> /\ DOMAIN wire = {}
  BY <1>2, WireFields, NoElements
<1>5. r \notin told /\ announced[r] = 0 /\ r # None
  BY <1>3, TurnAssumption DEF PanelInv, ScreenInv, CallsOK, Started
<1>6. PICK n \in Nat :
        /\ DOMAIN shown.turns = 1..n /\ DOMAIN shown'.turns = 1..(n + 1) /\ Len(shown'.turns) = n + 1
        /\ shown'.turns[n + 1] = r /\ \A i \in 1..n : shown'.turns[i] = shown.turns[i]
        /\ shown' \in [chat : ChatOrNone, turns : Seq(Turns)] /\ shown'.chat = shown.chat
  <2>1. shown.turns \in Seq(Turns) /\ shown \in [chat : ChatOrNone, turns : Seq(Turns)]
    BY <1>1 DEF PanelTypes
  <2>2. /\ Append(shown.turns, r) \in Seq(Turns) /\ Len(Append(shown.turns, r)) = Len(shown.turns) + 1
        /\ \A i \in 1..Len(shown.turns) : Append(shown.turns, r)[i] = shown.turns[i]
        /\ Append(shown.turns, r)[Len(shown.turns) + 1] = r
    BY <2>1, AppendProperties
  <2>3. /\ Len(shown.turns) \in Nat /\ DOMAIN shown.turns = 1..Len(shown.turns)
        /\ DOMAIN Append(shown.turns, r) = 1..(Len(shown.turns) + 1)
    BY <2>1, <2>2, LenProperties
  <2>4. /\ shown'.turns = Append(shown.turns, r) /\ shown'.chat = shown.chat
        /\ shown' \in [chat : ChatOrNone, turns : Seq(Turns)]
    BY <1>2, <2>1, <2>2
  <2> QED BY <2>2, <2>3, <2>4
<1>7. PICK b \in Bubbles :
        /\ bubble' = [bubble EXCEPT ![r] = b] /\ b.streaming = TRUE /\ b.rows = {} /\ b.text = "none"
        /\ \A i \in DOMAIN b.steps : b.steps[i] # "final_answer"
  <2>1. <<"start">> \in Seq(Steps) /\ \A i \in DOMAIN <<"start">> : <<"start">>[i] = "start"
    BY DEF Steps
  <2>2. [Panel!Blank EXCEPT !.streaming = TRUE, !.steps = <<"start">>] \in Bubbles
    BY <2>1, BlankBubble DEF Bubbles
  <2> DEFINE b == [Panel!Blank EXCEPT !.streaming = TRUE, !.steps = <<"start">>]
  <2>3. b.streaming = TRUE /\ b.rows = {} /\ b.text = "none" /\ b.steps = <<"start">>
    BY DEF Panel!Blank
  <2> QED BY <1>2, <2>1, <2>2, <2>3
<1>8. bubble' \in [Turns -> Bubbles] /\ bubble'[r] = b /\ \A q \in Turns \ {r} : bubble'[q] = bubble[q]
  BY <1>1, <1>7 DEF PanelTypes
<1>9. PanelTypes'
  BY <1>1, <1>2, <1>3, <1>6, <1>8 DEF PanelTypes
<1>10. ScreenInv'
  <2>1. Panel!ContinuesWhatItShows'
    <3>1. PICK heard : heard = {i \in DOMAIN shown.turns : shown.turns[i] \in told}
      OBVIOUS
    <3>2. heard = {i \in DOMAIN shown'.turns : shown'.turns[i] \in told'}
      BY <1>2, <1>5, <1>6, <3>1
    <3>3. Panel!IsConversation(sessionId) => Panel!IsConversation(sessionId)'
      BY <1>2, <1>3, <1>6, <3>1, <3>2 DEF Panel!IsConversation
    <3>4. Panel!ContinuesWhatItShows
      BY DEF PanelInv, ScreenInv
    <3> QED BY <1>2, <3>3, <3>4 DEF Panel!ContinuesWhatItShows
  <2>2. \A q \in told' : Started(q)'
    <3>1. \A q \in told : Started(q) /\ q \in Turns \ {r}
      BY <1>1, <1>5 DEF PanelInv, ScreenInv, PanelTypes
    <3> QED BY <1>2, <1>3, <3>1 DEF Started
  <2>3. \A i \in DOMAIN shown'.turns : phase'[shown'.turns[i]] # "idle"
    <3>1. \A i \in 1..n : shown.turns[i] \in Turns /\ phase[shown.turns[i]] # "idle"
      <4>1. shown.turns \in Seq(Turns) /\ Len(shown.turns) = n
        BY <1>1, <1>6, LenProperties DEF PanelTypes
      <4> QED BY <1>6, <4>1, ElementOfSeq DEF PanelInv, ScreenInv
    <3>2. \A q \in Turns : phase[q] # "idle" => phase'[q] # "idle"
      BY <1>3
    <3>3. \A i \in 1..n : phase'[shown'.turns[i]] # "idle"
      BY <1>6, <3>1, <3>2
    <3>4. phase'[shown'.turns[n + 1]] # "idle"
      BY <1>3, <1>6
    <3>5. \A i \in 1..(n + 1) : i = n + 1 \/ i \in 1..n
      OBVIOUS
    <3> QED BY <1>6, <3>3, <3>4, <3>5
  <2>4. \A i \in DOMAIN wire' : FALSE
    BY <1>2, <1>4
  <2> QED BY <1>2, <1>6, <2>1, <2>2, <2>3, <2>4 DEF ScreenInv
<1>11. SpinsAlone'
  <2>1. ASSUME NEW q \in Turns, q # r PROVE (bubble[q].streaming <=> sending = q)'
    <3>1. bubble[q].streaming <=> sending = q
      BY DEF PanelInv, SpinsAlone
    <3>2. bubble'[q] = bubble[q] /\ sending # q /\ sending' # q
      BY <1>2, <1>8, <2>1, TurnAssumption
    <3> QED BY <3>1, <3>2
  <2>2. (bubble[r].streaming <=> sending = r)'
    BY <1>2, <1>7, <1>8
  <2> QED BY <2>1, <2>2 DEF SpinsAlone
<1>12. ASSUME NEW q \in Turns PROVE CallsOK(q)'
  BY <1>3, <1>5 DEF PanelInv, CallsOK
<1>13. ASSUME NEW q \in Turns PROVE BubbleOK(q)' /\ (sending' = q => StreamOK(q)')
  <2>1. CASE q # r
    <3>1. BubbleOK(q)
      BY DEF PanelInv
    <3> QED BY <1>2, <1>3, <1>8, <2>1, <3>1 DEF BubbleOK
  <2>2. CASE q = r
    <3>1. BubbleOK(q)'
      BY <1>7, <1>8, <2>2 DEF BubbleOK
    <3>2. 1..announced'[r] = {}
      BY <1>3, <1>5
    <3>3. StreamOK(q)'
      BY <1>2, <1>3, <1>4, <1>7, <1>8, <2>2, <3>2 DEF StreamOK, Failed
    <3> QED BY <3>1, <3>3
  <2> QED BY <2>1, <2>2
<1> QED BY <1>9, <1>10, <1>11, <1>12, <1>13 DEF PanelInv

\* What a chunk of the server does to the turns.
LEMMA AnswerStep ==
  ASSUME PanelInv, NEW r \in Turns, NEW chunk, Panel!Answer(r, chunk)
  PROVE  /\ TurnsTypeOK' /\ chunk \in ChunkTypes
         /\ phase[r] \in DOMAIN Flow /\ chunk \in DOMAIN Flow[phase[r]] /\ phase'[r] = Flow[phase[r]][chunk]
         /\ phase[r] \notin {"idle", "closed", "failed"} /\ Started(r)'
         /\ \A q \in Turns \ {r} : phase'[q] = phase[q] /\ announced'[q] = announced[q]
         /\ announced'[r] = IF chunk = "call" THEN announced[r] + 1 ELSE announced[r]
         /\ announced[r] \in Nat /\ \A q \in Turns : announced'[q] \in 0..MaxCalls
         /\ \A q \in told : used'[q] = used[q]
         /\ IF r = sending THEN wire' = Append(wire, [type |-> chunk, id |-> announced'[r]]) ELSE wire' = wire
         /\ UNCHANGED <<sessionId, shown, sending, bubble, opening, deleting, clicks, stray, told>>
<1>1. TurnsTypeOK /\ told \subseteq Turns
  BY DEF PanelInv, PanelTypes
<1>2. (chunk = "start" /\ Open(r)) \/ GoOn(r, chunk)
  BY SameSteps DEF Panel!Answer
<1>3. Emit(r, chunk)
  BY <1>2 DEF Open, GoOn
<1>4. /\ phase[r] \in DOMAIN Flow /\ chunk \in DOMAIN Flow[phase[r]]
      /\ phase' \in [Turns -> DOMAIN Flow] /\ announced' \in [Turns -> 0..MaxCalls]
      /\ phase'[r] = Flow[phase[r]][chunk]
      /\ \A q \in Turns \ {r} : phase'[q] = phase[q] /\ announced'[q] = announced[q]
      /\ announced'[r] = IF chunk = "call" THEN announced[r] + 1 ELSE announced[r]
  BY <1>1, <1>3, EmitStep
<1>5. chunk \in ChunkTypes /\ phase[r] \notin {"idle", "closed", "failed"} /\ phase'[r] \notin {"idle", "asked"}
  BY <1>4, FlowSteps
<1>6. announced[r] \in Nat /\ \A q \in Turns : announced'[q] \in 0..MaxCalls
  BY <1>1, <1>4 DEF TurnsTypeOK
<1>7. TurnsTypeOK' /\ \A q \in told : used'[q] = used[q]
  <2>1. CASE Open(r)
    <3>1. TurnsTypeOK' /\ phase[r] = "asked" /\ \A q \in Turns \ {r} : used'[q] = used[q]
      BY <1>1, <2>1, OpenStep
    <3>2. r \notin told
      BY <3>1 DEF PanelInv, ScreenInv, Started
    <3> QED BY <1>1, <3>1, <3>2
  <2>2. CASE GoOn(r, chunk)
    BY <1>1, <2>2, GoOnStep
  <2> QED BY <1>2, <2>1, <2>2
<1>8. /\ IF r = sending THEN wire' = Append(wire, [type |-> chunk, id |-> announced'[r]]) ELSE wire' = wire
      /\ UNCHANGED <<sessionId, shown, sending, bubble, opening, deleting, clicks, stray, told>>
  BY DEF Panel!Answer, Panel!historyVars
<1>9. Started(r)'
  BY <1>5 DEF Started
<1> QED BY <1>4, <1>5, <1>6, <1>7, <1>8, <1>9

\* A chunk joins those that have not been read.
LEMMA WireGrows ==
  ASSUME PanelInv, NEW piece \in Pieces, wire' = Append(wire, piece)
  PROVE  /\ wire' \in Seq(Pieces) /\ Len(wire') = Len(wire) + 1 /\ DOMAIN wire' = 1..(Len(wire) + 1)
         /\ wire'[Len(wire) + 1] = piece /\ \A i \in DOMAIN wire : wire'[i] = wire[i]
         /\ wire' # <<>>
<1>1. wire \in Seq(Pieces) /\ Len(wire) \in Nat /\ DOMAIN wire = 1..Len(wire)
  BY WireFields
<1>2. /\ wire' \in Seq(Pieces) /\ Len(wire') = Len(wire) + 1
      /\ wire'[Len(wire) + 1] = piece /\ \A i \in 1..Len(wire) : wire'[i] = wire[i]
  BY <1>1, AppendProperties
<1>3. DOMAIN wire' = 1..(Len(wire) + 1)
  BY <1>2, LenProperties
<1>4. wire' # <<>>
  BY <1>1, <1>2, NoElements
<1> QED BY <1>1, <1>2, <1>3, <1>4

LEMMA AnswerStream ==
  ASSUME PanelInv, NEW r \in Turns, NEW chunk, Panel!Answer(r, chunk), r = sending
  PROVE  wire' \in Seq(Pieces) /\ StreamOK(r)' /\ \A i \in DOMAIN wire' : wire'[i].type = "start" => Started(r)'
<1>1. /\ chunk \in ChunkTypes /\ phase[r] \in DOMAIN Flow /\ chunk \in DOMAIN Flow[phase[r]]
      /\ phase'[r] = Flow[phase[r]][chunk] /\ Started(r)'
      /\ announced'[r] = IF chunk = "call" THEN announced[r] + 1 ELSE announced[r]
      /\ announced[r] \in Nat /\ announced'[r] \in 0..MaxCalls /\ bubble' = bubble
      /\ wire' = Append(wire, [type |-> chunk, id |-> announced'[r]])
  BY AnswerStep
<1>2. PICK m \in Nat, n \in Nat : m = announced[r] /\ n = announced'[r] /\ m <= n /\ (chunk # "call" => n = m) /\ (chunk = "call" => n = m + 1)
  BY <1>1
<1>3. PICK piece \in Pieces : piece = [type |-> chunk, id |-> n] /\ piece.type = chunk /\ piece.id = n
  BY <1>1, <1>2 DEF Pieces
<1>4. PICK len \in Nat :
        /\ DOMAIN wire = 1..len /\ DOMAIN wire' = 1..(len + 1) /\ Len(wire') = len + 1
        /\ wire'[len + 1] = piece /\ (\A i \in 1..len : wire'[i] = wire[i])
        /\ wire' \in Seq(Pieces) /\ wire' # <<>>
  BY <1>1, <1>2, <1>3, WireFields, WireGrows
<1>5. PICK b : b = bubble[r] /\ bubble'[r] = b
  BY <1>1
<1>6. /\ phase'[r] \in Failed <=> chunk = "error" \/ phase[r] \in Failed
      /\ phase[r] \in Failed => chunk = "blank"
      /\ chunk = "call" <=> phase'[r] = "tool"
      /\ chunk = "result" <=> phase[r] = "tool"
  BY <1>1, FlowSteps
<1>7. /\ \A i \in DOMAIN b.steps : b.steps[i] # "final_answer"
      /\ \A row \in b.rows : row.id \in 1..m /\ (row.output \/ Pending(r, row.id))
      /\ \A k \in 1..m : Row(k, TRUE) \in b.rows \/ Pending(r, k)
      /\ \A i \in 1..len : wire[i].type \in {"call", "result"} => wire[i].id \in 1..m
      /\ \A i \in 1..len : wire[i].type = "call" =>
           /\ Row(wire[i].id, TRUE) \notin b.rows
           /\ \A j \in 1..len : j < i => ~Result(wire[j], wire[i].id)
      /\ phase[r] = "tool" => m # 0
      /\ phase[r] \in Failed =>
           \/ b.text = "error" /\ \A j \in 1..len : wire[j].type # "token"
           \/ \E i \in 1..len : wire[i].type = "error" /\ \A j \in 1..len : i < j => wire[j].type # "token"
  <2>1. StreamOK(r) /\ CallsOK(r)
    BY DEF PanelInv
  <2>2. phase[r] \in Failed => Warned(b.text)
    BY <1>5, <2>1 DEF StreamOK
  <2> QED BY <1>2, <1>4, <1>5, <2>1, <2>2 DEF StreamOK, CallsOK, Warned
<1>8. ASSUME NEW k, Pending(r, k) PROVE Pending(r, k)'
  <2>1. CASE k = announced[r] /\ phase[r] = "tool"
    <3>1. Result(wire'[len + 1], k) /\ len + 1 \in DOMAIN wire'
      BY <1>2, <1>3, <1>4, <1>6, <2>1 DEF Result
    <3> QED BY <3>1 DEF Pending
  <2>2. CASE \E i \in DOMAIN wire : Result(wire[i], k)
    <3>1. \E i \in DOMAIN wire' : Result(wire'[i], k)
      BY <1>4, <2>2
    <3> QED BY <3>1 DEF Pending, Result
  <2> QED BY <1>8, <2>1, <2>2 DEF Pending
<1>9. phase'[r] \in Failed => Warned(b.text)'
  <2>1. CASE chunk = "error"
    <3>1. len + 1 \in 1..(len + 1) /\ wire'[len + 1].type = "error" /\ \A j \in 1..(len + 1) : ~(len + 1 < j)
      BY <1>3, <1>4, <2>1
    <3> QED BY <1>4, <3>1 DEF Warned
  <2>2. CASE phase[r] \in Failed /\ chunk = "blank"
    <3>1. wire'[len + 1].type # "token"
      BY <1>3, <1>4, <2>2
    <3>2. CASE b.text = "error" /\ \A j \in 1..len : wire[j].type # "token"
      <4>1. \A j \in 1..(len + 1) : wire'[j].type # "token"
        BY <1>4, <3>1, <3>2
      <4> QED BY <1>4, <3>2, <4>1 DEF Warned
    <3>3. ASSUME NEW i \in 1..len, wire[i].type = "error", \A j \in 1..len : i < j => wire[j].type # "token"
          PROVE  Warned(b.text)'
      <4>1. i \in 1..(len + 1) /\ wire'[i].type = "error"
        BY <1>4, <3>3
      <4>2. \A j \in 1..(len + 1) : i < j => wire'[j].type # "token"
        BY <1>4, <3>1, <3>3
      <4> QED BY <1>4, <4>1, <4>2 DEF Warned
    <3> QED BY <1>7, <2>2, <3>2, <3>3
  <2> QED BY <1>6, <2>1, <2>2
<1>10. \A row \in b.rows : row.id \in 1..n /\ (row.output \/ Pending(r, row.id)')
  <2>1. ASSUME NEW row \in b.rows PROVE row.id \in 1..n
    BY <1>2, <1>7
  <2>2. ASSUME NEW row \in b.rows, ~row.output PROVE Pending(r, row.id)'
    BY <1>7, <1>8, <2>2
  <2> QED BY <2>1, <2>2
<1>11. ASSUME NEW k \in 1..n PROVE Row(k, TRUE) \in b.rows \/ Pending(r, k)'
  <2>1. CASE k \in 1..m
    BY <1>7, <1>8, <2>1
  <2>2. CASE k \notin 1..m
    <3>1. k = n /\ chunk = "call"
      BY <1>2, <2>2
    <3> QED BY <1>2, <1>6, <3>1 DEF Pending
  <2> QED BY <2>1, <2>2
<1>12. ASSUME NEW i \in 1..(len + 1), wire'[i].type \in {"call", "result"} PROVE wire'[i].id \in 1..n
  <2>1. CASE i = len + 1
    <3>1. chunk \in {"call", "result"}
      BY <1>3, <1>4, <1>12, <2>1
    <3>2. n # 0
      BY <1>2, <1>6, <1>7, <3>1
    <3> QED BY <1>3, <1>4, <2>1, <3>2
  <2>2. CASE i # len + 1
    <3>1. i \in 1..len
      BY <2>2
    <3>2. wire[i].id \in 1..m
      BY <1>4, <1>7, <1>12, <3>1
    <3> QED BY <1>2, <1>4, <3>1, <3>2
  <2> QED BY <2>1, <2>2
<1>13. ASSUME NEW i \in 1..(len + 1), wire'[i].type = "call"
       PROVE  /\ Row(wire'[i].id, TRUE) \notin b.rows
              /\ \A j \in 1..(len + 1) : j < i => ~Result(wire'[j], wire'[i].id)
  <2>1. CASE i = len + 1
    <3>1. chunk = "call" /\ wire'[i].id = m + 1
      BY <1>2, <1>3, <1>4, <1>13, <2>1
    <3>2. Row(m + 1, TRUE) \notin b.rows
      BY <1>7 DEF Row
    <3>3. ASSUME NEW j \in 1..(len + 1), j < i PROVE ~Result(wire'[j], m + 1)
      <4>1. j \in 1..len
        BY <2>1, <3>3
      <4> QED BY <1>4, <1>7, <4>1 DEF Result
    <3> QED BY <3>1, <3>2, <3>3
  <2>2. CASE i # len + 1
    <3>1. i \in 1..len /\ wire'[i] = wire[i]
      BY <1>4, <2>2
    <3>2. Row(wire[i].id, TRUE) \notin b.rows /\ \A j \in 1..len : j < i => ~Result(wire[j], wire[i].id)
      BY <1>7, <1>13, <3>1
    <3>3. \A j \in 1..(len + 1) : j < i => j \in 1..len
      BY <3>1
    <3> QED BY <1>4, <3>1, <3>2, <3>3
  <2> QED BY <2>1, <2>2
<1>14. StreamOK(r)'
  <2>1. \A i \in DOMAIN bubble'[r].steps : bubble'[r].steps[i] # "final_answer"
    BY <1>5, <1>7
  <2>2. phase'[r] \in Failed => Warned(bubble[r].text)'
    BY <1>5, <1>9 DEF Warned
  <2>3. \A row \in bubble'[r].rows : row.id \in 1..announced'[r] /\ (row.output \/ Pending(r, row.id)')
    BY <1>2, <1>5, <1>10
  <2>4. \A k \in 1..announced'[r] : Row(k, TRUE) \in bubble'[r].rows \/ Pending(r, k)'
    BY <1>2, <1>5, <1>11
  <2>5. \A i \in DOMAIN wire' : wire'[i].type \in {"call", "result"} => wire'[i].id \in 1..announced'[r]
    BY <1>2, <1>4, <1>12
  <2>6. \A i \in DOMAIN wire' : wire'[i].type = "call" =>
          /\ Row(wire'[i].id, TRUE) \notin bubble'[r].rows
          /\ \A j \in DOMAIN wire' : j < i => ~Result(wire'[j], wire'[i].id)
    BY <1>4, <1>5, <1>13
  <2> QED BY <2>1, <2>2, <2>3, <2>4, <2>5, <2>6 DEF StreamOK, Row, Result
<1> QED BY <1>1, <1>4, <1>14

LEMMA StreamStays ==
  ASSUME NEW r, StreamOK(r), wire' = wire, bubble'[r] = bubble[r], phase'[r] = phase[r],
         announced'[r] = announced[r]
  PROVE  StreamOK(r)'
<1>1. \A text : Warned(text)' <=> Warned(text)
  BY DEF Warned
<1>2. \A k : Pending(r, k)' <=> Pending(r, k)
  BY DEF Pending, Result
<1>3. phase'[r] \in Failed => Warned(bubble[r].text)'
  BY <1>1 DEF StreamOK
<1> QED BY <1>1, <1>2, <1>3 DEF StreamOK, Row, Result

LEMMA AnswerKept ==
  ASSUME PanelInv, NEW r \in Turns, NEW chunk, Panel!Answer(r, chunk)
  PROVE  PanelInv'
<1>1. /\ TurnsTypeOK' /\ chunk \in ChunkTypes
      /\ phase[r] \in DOMAIN Flow /\ chunk \in DOMAIN Flow[phase[r]] /\ phase'[r] = Flow[phase[r]][chunk]
      /\ phase[r] \notin {"idle", "closed", "failed"} /\ Started(r)'
      /\ \A q \in Turns \ {r} : phase'[q] = phase[q] /\ announced'[q] = announced[q]
      /\ announced'[r] = IF chunk = "call" THEN announced[r] + 1 ELSE announced[r]
      /\ announced[r] \in Nat
      /\ \A q \in told : used'[q] = used[q]
      /\ IF r = sending THEN TRUE ELSE wire' = wire
      /\ UNCHANGED <<sessionId, shown, sending, bubble, opening, deleting, clicks, stray, told>>
  BY AnswerStep
<1>2. PanelTypes /\ told \subseteq Turns /\ wire \in Seq(Pieces)
  BY DEF PanelInv, PanelTypes
<1>3. \A q \in Turns : Started(q) => Started(q)'
  BY <1>1 DEF Started
<1>4. wire' \in Seq(Pieces) /\ \A i \in DOMAIN wire' : sending' # None /\ (wire'[i].type = "start" => Started(sending)')
  <2>1. CASE r = sending
    BY <1>1, <2>1, AnswerStream, TurnAssumption DEF Started
  <2>2. CASE r # sending
    <3>1. \A i \in DOMAIN wire : sending \in Turns /\ (wire[i].type = "start" => Started(sending))
      BY <1>2 DEF PanelInv, ScreenInv, PanelTypes
    <3> QED BY <1>1, <1>2, <1>3, <2>2, <3>1, TurnAssumption DEF Started
  <2> QED BY <2>1, <2>2
<1>5. PanelTypes'
  BY <1>1, <1>2, <1>4 DEF PanelTypes
<1>6. ScreenInv'
  <2>1. Panel!ContinuesWhatItShows'
    BY <1>1, ConversationStays
  <2>2. \A q \in told' : Started(q)'
    BY <1>1, <1>2, <1>3 DEF PanelInv, ScreenInv
  <2>3. \A i \in DOMAIN shown'.turns : phase'[shown'.turns[i]] # "idle"
    <3>1. \A i \in DOMAIN shown.turns : shown.turns[i] \in Turns /\ phase[shown.turns[i]] # "idle"
      <4>1. shown.turns \in Seq(Turns)
        BY <1>2 DEF PanelTypes
      <4> QED BY <4>1, LenProperties, ElementOfSeq DEF PanelInv, ScreenInv
    <3>2. \A q \in Turns : phase[q] # "idle" => phase'[q] # "idle"
      BY <1>1 DEF Started
    <3> QED BY <1>1, <3>1, <3>2
  <2>4. (sending # None /\ Panel!OnScreen(sending) => shown.turns[Len(shown.turns)] = sending)'
    BY <1>1 DEF PanelInv, ScreenInv, Panel!OnScreen
  <2> QED BY <1>4, <2>1, <2>2, <2>3, <2>4 DEF ScreenInv
<1>7. SpinsAlone'
  BY <1>1 DEF PanelInv, SpinsAlone
<1>8. ASSUME NEW q \in Turns PROVE CallsOK(q)' /\ BubbleOK(q)'
  <2>1. CallsOK(q) /\ BubbleOK(q)
    BY DEF PanelInv
  <2>2. CASE q = r
    <3>1. CallsOK(q)'
      <4>1. chunk = "call" <=> Flow[phase[r]][chunk] = "tool"
        BY <1>1, FlowSteps
      <4>2. phase'[r] = "tool" => announced'[r] = announced[r] + 1
        BY <1>1, <4>1
      <4> QED BY <1>1, <2>2, <4>2 DEF CallsOK, Started
    <3> QED BY <1>1, <2>1, <2>2, <3>1 DEF BubbleOK
  <2>3. CASE q # r
    BY <1>1, <2>1, <2>3 DEF CallsOK, BubbleOK
  <2> QED BY <2>2, <2>3
<1>9. ASSUME NEW q \in Turns, sending' = q PROVE StreamOK(q)'
  <2>1. CASE q = r
    BY <1>1, <1>9, <2>1, AnswerStream
  <2>2. CASE q # r
    <3>1. StreamOK(q) /\ wire' = wire /\ bubble' = bubble /\ phase'[q] = phase[q] /\ announced'[q] = announced[q]
      BY <1>1, <1>9, <2>2 DEF PanelInv
    <3> QED BY <3>1, StreamStays
  <2> QED BY <2>1, <2>2
<1> QED BY <1>5, <1>6, <1>7, <1>8, <1>9 DEF PanelInv

\* The first of the chunks that have not been read is taken.
LEMMA WireShrinks ==
  ASSUME PanelInv, wire # <<>>, wire' = Tail(wire)
  PROVE  /\ Head(wire) = wire[1] /\ wire[1] \in Pieces
         /\ wire' \in Seq(Pieces) /\ Len(wire) \in Nat \ {0} /\ Len(wire') = Len(wire) - 1
         /\ DOMAIN wire = 1..Len(wire) /\ DOMAIN wire' = 1..(Len(wire) - 1)
         /\ \A i \in DOMAIN wire' : wire'[i] = wire[i + 1]
         /\ wire' = <<>> <=> Len(wire) = 1
<1>1. /\ wire \in Seq(Pieces) /\ Len(wire) \in Nat /\ DOMAIN wire = 1..Len(wire) /\ Len(wire) # 0
      /\ \A i \in DOMAIN wire : wire[i] \in Pieces
  BY WireFields
<1>2. /\ wire' \in Seq(Pieces) /\ Len(wire') = Len(wire) - 1
      /\ \A i \in 1..Len(wire') : wire'[i] = wire[i + 1]
  BY <1>1, HeadTailProperties
<1>3. DOMAIN wire' = 1..(Len(wire) - 1)
  BY <1>2, LenProperties
<1>4. Head(wire) = wire[1] /\ wire[1] \in Pieces
  BY <1>1
<1>5. wire' = <<>> <=> Len(wire') = 0
  BY <1>2, EmptySeq
<1>6. wire' = <<>> <=> Len(wire) = 1
  BY <1>1, <1>2, <1>5
<1> QED BY <1>1, <1>2, <1>3, <1>4, <1>6

\* What a chunk makes of a bubble.
After(b, chunk) ==
  [b EXCEPT !.text = Panel!TextAfter(@, chunk), !.rows = Panel!RowsAfter(@, chunk),
            !.steps = @ \o Panel!StepsOf(chunk)]

LEMMA BubbleAfter ==
  ASSUME PanelInv, NEW r \in Turns, r = sending, NEW chunk \in Pieces, NEW b \in Bubbles, b = bubble[r],
         chunk.type \in {"call", "result"} => chunk.id \in 1..announced[r]
  PROVE  /\ After(b, chunk) \in Bubbles /\ After(b, chunk).streaming = b.streaming
         /\ \A i \in DOMAIN After(b, chunk).steps : After(b, chunk).steps[i] # "final_answer"
         /\ chunk.type = "error" => After(b, chunk).text = "error"
         /\ b.text = "error" /\ chunk.type # "token" => After(b, chunk).text = "error"
         /\ \A row : row \in After(b, chunk).rows <=>
              IF chunk.type \in {"call", "result"}
              THEN (row \in b.rows /\ row.id # chunk.id) \/ row = Row(chunk.id, chunk.type = "result")
              ELSE row \in b.rows
<1>1. b \in Bubbles /\ b = bubble[r]
  OBVIOUS
<1>2. /\ b.text \in {"none", "tokens", "message", "error"} /\ b.streaming \in BOOLEAN
      /\ b.rows \in SUBSET Rows /\ b.steps \in Seq(Steps)
  BY DEF Bubbles
<1>3. Panel!StepsOf(chunk) \in Seq(Steps) /\ \A i \in DOMAIN Panel!StepsOf(chunk) : Panel!StepsOf(chunk)[i] # "final_answer"
  <2>1. /\ <<"tool_call">> \in Seq(Steps) /\ <<"tool_call", "tool_result">> \in Seq(Steps)
        /\ <<"error">> \in Seq(Steps) /\ <<>> \in Seq(Steps) /\ DOMAIN <<>> = {}
    BY NoElements DEF Steps
  <2>2. CASE chunk.type = "call"
    BY <2>1, <2>2 DEF Panel!StepsOf
  <2>3. CASE chunk.type = "result"
    BY <2>1, <2>3 DEF Panel!StepsOf
  <2>4. CASE chunk.type = "error"
    BY <2>1, <2>4 DEF Panel!StepsOf
  <2>5. CASE chunk.type \notin {"call", "result", "error"}
    <3>1. Panel!StepsOf(chunk) = <<>>
      BY <2>5 DEF Panel!StepsOf
    <3> QED BY <2>1, <3>1
  <2> QED BY <2>2, <2>3, <2>4, <2>5
<1>4. PICK more \in Seq(Steps) : more = Panel!StepsOf(chunk) /\ \A i \in DOMAIN more : more[i] # "final_answer"
  BY <1>3
<1>5. PICK steps \in Seq(Steps) : steps = b.steps \o more /\ \A i \in DOMAIN steps : steps[i] # "final_answer"
  <2>1. \A i \in DOMAIN b.steps : b.steps[i] # "final_answer"
    BY <1>1 DEF PanelInv, StreamOK
  <2>2. /\ b.steps \o more \in Seq(Steps) /\ Len(b.steps \o more) = Len(b.steps) + Len(more)
        /\ \A i \in 1..(Len(b.steps) + Len(more)) :
             (b.steps \o more)[i] = IF i <= Len(b.steps) THEN b.steps[i] ELSE more[i - Len(b.steps)]
    BY <1>2, <1>4, ConcatProperties
  <2>3. /\ Len(b.steps) \in Nat /\ DOMAIN b.steps = 1..Len(b.steps)
        /\ Len(more) \in Nat /\ DOMAIN more = 1..Len(more)
        /\ DOMAIN (b.steps \o more) = 1..(Len(b.steps) + Len(more))
    BY <1>2, <1>4, <2>2, LenProperties
  <2>4. ASSUME NEW i \in DOMAIN (b.steps \o more) PROVE (b.steps \o more)[i] # "final_answer"
    <3>1. CASE i <= Len(b.steps)
      <4>1. i \in DOMAIN b.steps
        BY <2>3, <3>1
      <4> QED BY <2>1, <2>2, <2>3, <3>1, <4>1
    <3>2. CASE ~(i <= Len(b.steps))
      <4>1. i - Len(b.steps) \in DOMAIN more
        BY <2>3, <3>2
      <4> QED BY <1>4, <2>2, <2>3, <3>2, <4>1
    <3> QED BY <3>1, <3>2
  <2> QED BY <2>2, <2>4
<1>6. PICK text \in {"none", "tokens", "message", "error"} :
        /\ text = Panel!TextAfter(b.text, chunk) /\ (chunk.type = "error" => text = "error")
        /\ b.text = "error" /\ chunk.type # "token" => text = "error"
  <2>1. CASE chunk.type = "error"
    BY <2>1 DEF Panel!TextAfter
  <2>2. CASE chunk.type = "token"
    BY <2>2 DEF Panel!TextAfter
  <2>3. CASE chunk.type = "complete"
    BY <1>2, <2>3 DEF Panel!TextAfter
  <2>4. CASE chunk.type \notin {"error", "token", "complete"}
    BY <1>2, <2>4 DEF Panel!TextAfter
  <2> QED BY <2>1, <2>2, <2>3, <2>4
<1>7. PICK rows \in SUBSET Rows :
        /\ rows = Panel!RowsAfter(b.rows, chunk)
        /\ \A row : row \in rows <=>
             IF chunk.type \in {"call", "result"}
             THEN (row \in b.rows /\ row.id # chunk.id) \/ row = Row(chunk.id, chunk.type = "result")
             ELSE row \in b.rows
  <2>1. CASE chunk.type \in {"call", "result"}
    <3>1. announced[r] \in 0..MaxCalls /\ MaxCalls \in Nat
      BY TurnAssumption DEF PanelInv, PanelTypes, TurnsTypeOK
    <3>2. chunk.id \in 1..MaxCalls
      BY <2>1, <3>1
    <3>3. [id |-> chunk.id, output |-> chunk.type = "result"] \in Rows
      BY <3>2 DEF Rows
    <3>4. Panel!RowsAfter(b.rows, chunk) = {row \in b.rows : row.id # chunk.id} \cup {[id |-> chunk.id, output |-> chunk.type = "result"]}
      BY <2>1 DEF Panel!RowsAfter
    <3>5. Panel!RowsAfter(b.rows, chunk) \in SUBSET Rows
      BY <1>2, <3>3, <3>4
    <3> QED BY <2>1, <3>4, <3>5 DEF Row
  <2>2. CASE chunk.type \notin {"call", "result"}
    BY <1>2, <2>2 DEF Panel!RowsAfter
  <2> QED BY <2>1, <2>2
<1> DEFINE after == [b EXCEPT !.text = text, !.rows = rows, !.steps = steps]
<1>8. /\ after \in Bubbles /\ after.streaming = b.streaming /\ after.text = text
      /\ after.rows = rows /\ after.steps = steps
  BY <1>2, <1>5, <1>6, <1>7 DEF Bubbles
<1>9. after = After(b, chunk)
  BY <1>2, <1>4, <1>5, <1>6, <1>7 DEF Bubbles, After
<1> HIDE DEF after
<1> QED BY <1>1, <1>5, <1>6, <1>7, <1>8, <1>9

LEMMA ReadStream ==
  ASSUME PanelInv, Panel!Read, NEW r \in Turns, r = sending
  PROVE  wire' \in Seq(Pieces) /\ bubble' \in [Turns -> Bubbles] /\ bubble'[r].streaming = bubble[r].streaming
         /\ (\A q \in Turns \ {r} : bubble'[q] = bubble[q]) /\ StreamOK(r)'
<1>1. /\ wire # <<>> /\ wire' = Tail(wire)
      /\ UNCHANGED <<phase, announced, sending>>
  BY DEF Panel!Read, Panel!turnVars
<1>2. /\ Head(wire) = wire[1] /\ wire[1] \in Pieces
      /\ wire' \in Seq(Pieces) /\ Len(wire) \in Nat \ {0} /\ Len(wire') = Len(wire) - 1
      /\ DOMAIN wire = 1..Len(wire) /\ DOMAIN wire' = 1..(Len(wire) - 1)
      /\ \A i \in DOMAIN wire' : wire'[i] = wire[i + 1]
      /\ wire' = <<>> <=> Len(wire) = 1
  BY <1>1, WireShrinks
<1>3. PICK len \in Nat, chunk \in Pieces, b \in Bubbles :
        /\ len + 1 = Len(wire) /\ Len(wire') = len
        /\ DOMAIN wire = 1..(len + 1) /\ DOMAIN wire' = 1..len /\ (wire' = <<>> <=> len = 0)
        /\ chunk = wire[1] /\ chunk = Head(wire) /\ b = bubble[r]
        /\ \A i \in 1..len : wire'[i] = wire[i + 1]
  <2>1. PICK len \in Nat : len + 1 = Len(wire)
    <3>1. Len(wire) - 1 \in Nat /\ (Len(wire) - 1) + 1 = Len(wire)
      BY <1>2
    <3> QED BY <3>1
  <2>2. Len(wire') = len /\ DOMAIN wire = 1..(len + 1) /\ DOMAIN wire' = 1..len /\ (wire' = <<>> <=> len = 0)
    BY <1>2, <2>1
  <2>3. bubble[r] \in Bubbles
    BY DEF PanelInv, PanelTypes
  <2> QED BY <1>2, <2>1, <2>2, <2>3
<1>4. /\ phase[r] \in Failed => Warned(b.text)
      /\ \A row \in b.rows : row.id \in 1..announced[r] /\ (row.output \/ Pending(r, row.id))
      /\ \A k \in 1..announced[r] : Row(k, TRUE) \in b.rows \/ Pending(r, k)
      /\ \A i \in 1..(len + 1) : wire[i].type \in {"call", "result"} => wire[i].id \in 1..announced[r]
      /\ \A i \in 1..(len + 1) : wire[i].type = "call" =>
           /\ Row(wire[i].id, TRUE) \notin b.rows
           /\ \A j \in 1..(len + 1) : j < i => ~Result(wire[j], wire[i].id)
  <2>1. StreamOK(r)
    BY DEF PanelInv
  <2> QED BY <1>1, <1>3, <2>1 DEF StreamOK
<1>5. /\ chunk.type \in {"call", "result"} => chunk.id \in 1..announced[r]
      /\ chunk.type = "call" => Row(chunk.id, TRUE) \notin b.rows
  <2>1. 1 \in 1..(len + 1) /\ wire[1] = chunk
    BY <1>3
  <2> QED BY <1>4, <2>1
<1>6. PICK after \in Bubbles :
        /\ bubble' = [bubble EXCEPT ![r] = after] /\ after.streaming = b.streaming
        /\ \A i \in DOMAIN after.steps : after.steps[i] # "final_answer"
        /\ chunk.type = "error" => after.text = "error"
        /\ b.text = "error" /\ chunk.type # "token" => after.text = "error"
        /\ \A row : row \in after.rows <=>
             IF chunk.type \in {"call", "result"}
             THEN (row \in b.rows /\ row.id # chunk.id) \/ row = Row(chunk.id, chunk.type = "result")
             ELSE row \in b.rows
  <2>1. bubble' = [bubble EXCEPT ![r] = After(b, chunk)]
    BY <1>3 DEF Panel!Read, After
  <2>2. b = bubble[r]
    BY <1>3
  <2>3. After(b, chunk) \in Bubbles /\ After(b, chunk).streaming = b.streaming
    BY <1>5, <2>2, BubbleAfter
  <2>4. \A i \in DOMAIN After(b, chunk).steps : After(b, chunk).steps[i] # "final_answer"
    BY <1>5, <2>2, BubbleAfter
  <2>5. /\ chunk.type = "error" => After(b, chunk).text = "error"
        /\ b.text = "error" /\ chunk.type # "token" => After(b, chunk).text = "error"
    BY <1>5, <2>2, BubbleAfter
  <2>6. \A row : row \in After(b, chunk).rows <=>
             IF chunk.type \in {"call", "result"}
             THEN (row \in b.rows /\ row.id # chunk.id) \/ row = Row(chunk.id, chunk.type = "result")
             ELSE row \in b.rows
    BY <1>5, <2>2, BubbleAfter
  <2> QED BY <2>1, <2>3, <2>4, <2>5, <2>6
<1>7. /\ bubble' \in [Turns -> Bubbles] /\ bubble'[r] = after /\ \A q \in Turns \ {r} : bubble'[q] = bubble[q]
  BY <1>6 DEF PanelInv, PanelTypes
\* A result that is pending is still, unless it is the chunk read.
<1>8. ASSUME NEW k, Pending(r, k), ~Result(chunk, k) PROVE Pending(r, k)'
  <2>1. CASE k = announced[r] /\ phase[r] = "tool"
    BY <1>1, <2>1 DEF Pending
  <2>2. CASE \E i \in DOMAIN wire : Result(wire[i], k)
    <3>1. PICK i \in 1..(len + 1) : Result(wire[i], k)
      BY <1>3, <2>2
    <3>2. i # 1
      BY <1>3, <1>8, <3>1
    <3>3. PICK j \in 1..len : i = j + 1
      <4>1. i - 1 \in 1..len /\ i = (i - 1) + 1
        BY <3>1, <3>2
      <4> QED BY <4>1
    <3>4. j \in DOMAIN wire' /\ Result(wire'[j], k)
      BY <1>3, <3>1, <3>3
    <3> QED BY <3>4 DEF Pending, Result
  <2> QED BY <1>8, <2>1, <2>2 DEF Pending
<1>9. ASSUME phase[r] \in Failed PROVE Warned(after.text)'
  <2>1. CASE b.text = "error" /\ \A j \in DOMAIN wire : wire[j].type # "token"
    <3>1. chunk.type # "token" /\ \A j \in 1..len : wire'[j].type # "token"
      <4>1. 1 \in 1..(len + 1) /\ \A j \in 1..len : j + 1 \in 1..(len + 1)
        OBVIOUS
      <4> QED BY <1>3, <2>1, <4>1
    <3>2. after.text = "error"
      BY <1>6, <2>1, <3>1
    <3> QED BY <1>3, <3>1, <3>2 DEF Warned
  <2>2. ASSUME NEW i \in DOMAIN wire, wire[i].type = "error", \A j \in DOMAIN wire : i < j => wire[j].type # "token"
        PROVE  Warned(after.text)'
    <3>1. \A j \in 1..len : i < j + 1 => wire'[j].type # "token"
      <4>1. \A j \in 1..len : j + 1 \in 1..(len + 1)
        OBVIOUS
      <4> QED BY <1>3, <2>2, <4>1
    <3>2. CASE i = 1
      <4>1. after.text = "error"
        BY <1>3, <1>6, <2>2, <3>2
      <4>2. \A j \in 1..len : wire'[j].type # "token"
        BY <3>1, <3>2
      <4> QED BY <1>3, <4>1, <4>2 DEF Warned
    <3>3. CASE i # 1
      <4>1. PICK k \in 1..len : i = k + 1
        <5>1. i - 1 \in 1..len /\ i = (i - 1) + 1
          BY <1>3, <3>3
        <5> QED BY <5>1
      <4>2. k \in DOMAIN wire' /\ wire'[k].type = "error"
        BY <1>3, <2>2, <4>1
      <4>3. \A j \in DOMAIN wire' : k < j => wire'[j].type # "token"
        BY <1>3, <3>1, <4>1
      <4> QED BY <4>2, <4>3 DEF Warned
    <3> QED BY <3>2, <3>3
  <2> QED BY <1>4, <1>9, <2>1, <2>2 DEF Warned
<1>10. ASSUME NEW row \in after.rows PROVE row.id \in 1..announced[r] /\ (row.output \/ Pending(r, row.id)')
  <2>1. CASE row \in b.rows /\ (chunk.type \in {"call", "result"} => row.id # chunk.id)
    <3>1. ~Result(chunk, row.id)
      BY <2>1 DEF Result
    <3>2. row.id \in 1..announced[r]
      BY <1>4, <2>1
    <3>3. ASSUME ~row.output PROVE Pending(r, row.id)'
      <4>1. Pending(r, row.id)
        BY <1>4, <2>1, <3>3
      <4> QED BY <1>8, <3>1, <4>1
    <3> QED BY <3>2, <3>3
  <2>2. CASE chunk.type \in {"call", "result"} /\ row = Row(chunk.id, chunk.type = "result")
    <3>1. row.id = chunk.id /\ row.output = (chunk.type = "result")
      BY <2>2 DEF Row
    <3>2. CASE chunk.type = "result"
      BY <1>5, <3>1, <3>2
    <3>3. CASE chunk.type = "call"
      <4>1. Row(chunk.id, TRUE) \notin b.rows /\ chunk.id \in 1..announced[r]
        BY <1>5, <3>3
      <4>2. Pending(r, chunk.id)
        BY <1>4, <4>1
      <4>3. ~Result(chunk, chunk.id)
        BY <3>3 DEF Result
      <4>4. Pending(r, chunk.id)'
        BY <1>8, <4>2, <4>3
      <4> QED BY <3>1, <4>1, <4>4
    <3> QED BY <2>2, <3>2, <3>3
  <2> QED BY <1>6, <2>1, <2>2
<1>11. ASSUME NEW k \in 1..announced[r] PROVE Row(k, TRUE) \in after.rows \/ Pending(r, k)'
  <2>1. CASE Result(chunk, k)
    <3>1. chunk.type = "result" /\ chunk.id = k
      BY <2>1 DEF Result
    <3>2. Row(k, TRUE) = Row(chunk.id, chunk.type = "result")
      BY <3>1
    <3> QED BY <1>6, <3>1, <3>2
  <2>2. CASE ~Result(chunk, k) /\ Pending(r, k)
    BY <1>8, <2>2
  <2>3. CASE ~Result(chunk, k) /\ Row(k, TRUE) \in b.rows
    <3>1. chunk.type = "call" => chunk.id # k
      BY <1>5, <2>3
    <3>2. chunk.type \in {"call", "result"} => Row(k, TRUE).id # chunk.id
      BY <2>3, <3>1 DEF Row, Result
    <3> QED BY <1>6, <2>3, <3>2
  <2> QED BY <1>4, <2>1, <2>2, <2>3
<1>12. ASSUME NEW i \in 1..len, wire'[i].type \in {"call", "result"} PROVE wire'[i].id \in 1..announced[r]
  <2>1. i + 1 \in 1..(len + 1) /\ wire'[i] = wire[i + 1]
    BY <1>3
  <2> QED BY <1>4, <1>12, <2>1
<1>13. ASSUME NEW i \in 1..len, wire'[i].type = "call"
       PROVE  /\ Row(wire'[i].id, TRUE) \notin after.rows
              /\ \A j \in 1..len : j < i => ~Result(wire'[j], wire'[i].id)
  <2>1. i + 1 \in 1..(len + 1) /\ wire'[i] = wire[i + 1] /\ 1 \in 1..(len + 1) /\ 1 < i + 1
    BY <1>3
  <2>2. Row(wire'[i].id, TRUE) \notin b.rows /\ \A j \in 1..(len + 1) : j < i + 1 => ~Result(wire[j], wire'[i].id)
    BY <1>4, <1>13, <2>1
  <2>3. ~Result(chunk, wire'[i].id)
    BY <1>3, <2>1, <2>2
  <2>4. Row(wire'[i].id, TRUE) # Row(chunk.id, chunk.type = "result")
    BY <2>3 DEF Row, Result
  <2>5. Row(wire'[i].id, TRUE) \notin after.rows
    BY <1>6, <2>2, <2>4
  <2>6. ASSUME NEW j \in 1..len, j < i PROVE ~Result(wire'[j], wire'[i].id)
    <3>1. j + 1 \in 1..(len + 1) /\ j + 1 < i + 1 /\ wire'[j] = wire[j + 1]
      BY <1>3, <2>6
    <3> QED BY <2>2, <3>1
  <2> QED BY <2>5, <2>6
<1>14. StreamOK(r)'
  <2>1. \A i \in DOMAIN bubble'[r].steps : bubble'[r].steps[i] # "final_answer"
    BY <1>6, <1>7
  <2>2. phase'[r] \in Failed => Warned(bubble[r].text)'
    BY <1>1, <1>7, <1>9 DEF Warned
  <2>3. \A row \in bubble'[r].rows : row.id \in 1..announced'[r] /\ (row.output \/ Pending(r, row.id)')
    BY <1>1, <1>7, <1>10
  <2>4. \A k \in 1..announced'[r] : Row(k, TRUE) \in bubble'[r].rows \/ Pending(r, k)'
    BY <1>1, <1>7, <1>11
  <2>5. \A i \in DOMAIN wire' : wire'[i].type \in {"call", "result"} => wire'[i].id \in 1..announced'[r]
    BY <1>1, <1>3, <1>12
  <2>6. \A i \in DOMAIN wire' : wire'[i].type = "call" =>
          /\ Row(wire'[i].id, TRUE) \notin bubble'[r].rows
          /\ \A j \in DOMAIN wire' : j < i => ~Result(wire'[j], wire'[i].id)
    BY <1>3, <1>7, <1>13
  <2> QED BY <2>1, <2>2, <2>3, <2>4, <2>5, <2>6 DEF StreamOK, Row, Result
<1> QED BY <1>2, <1>3, <1>6, <1>7, <1>14

LEMMA ReadKept ==
  ASSUME PanelInv, Panel!Read
  PROVE  PanelInv'
<1>1. PICK r \in Turns : r = sending
  BY DEF Panel!Read, PanelInv, PanelTypes
<1>2. /\ wire # <<>> /\ wire' = Tail(wire)
      /\ UNCHANGED <<stored, named, used, phase, announced, shown, sending, opening, deleting, clicks>>
      /\ IF wire[1].type = "start"
         THEN /\ sessionId' = used[r] /\ stray' = ~Panel!OnScreen(r)
              /\ told' = IF Panel!OnScreen(r) THEN told \cup {r} ELSE told
         ELSE UNCHANGED <<sessionId, stray, told>>
  <2>1. wire # <<>> /\ wire' = Tail(wire)
    BY DEF Panel!Read
  <2>2. Head(wire) = wire[1]
    BY <2>1, WireShrinks
  <2> QED BY <1>1, <2>1, <2>2 DEF Panel!Read, Panel!turnVars, Panel!historyVars
<1>3. /\ wire' \in Seq(Pieces) /\ bubble' \in [Turns -> Bubbles] /\ bubble'[r].streaming = bubble[r].streaming
      /\ (\A q \in Turns \ {r} : bubble'[q] = bubble[q]) /\ StreamOK(r)'
  BY <1>1, ReadStream
<1>4. PanelTypes /\ TurnsTypeOK /\ used[r] \in ChatOrNone
  BY DEF PanelInv, PanelTypes, TurnsTypeOK
<1>5. PanelTypes'
  <2>1. TurnsTypeOK'
    BY <1>2, <1>4 DEF TurnsTypeOK
  <2>2. sessionId' \in ChatOrNone /\ told' \subseteq Turns
    BY <1>2, <1>4 DEF PanelTypes
  <2>3. stray' \in BOOLEAN
    BY <1>2, <1>4 DEF PanelTypes
  <2> QED BY <1>2, <1>3, <1>4, <2>1, <2>2, <2>3 DEF PanelTypes
<1>6. PICK n \in Nat : n = Len(shown.turns) /\ DOMAIN shown.turns = 1..n
  BY <1>4, LenProperties DEF PanelTypes
<1>7. Panel!ContinuesWhatItShows'
  <2>1. CASE wire[1].type # "start"
    BY <1>2, <2>1, ConversationStays
  <2>2. CASE wire[1].type = "start" /\ ~Panel!OnScreen(r)
    BY <1>2, <2>2 DEF Panel!ContinuesWhatItShows
  <2>3. CASE wire[1].type = "start" /\ Panel!OnScreen(r)
    <3>1. n \in DOMAIN shown.turns /\ shown.turns[n] = r
      <4>1. n # 0
        BY <1>6, <2>3 DEF Panel!OnScreen
      <4>2. shown.turns[n] = r
        BY <1>1, <1>6, <2>3, TurnAssumption DEF PanelInv, ScreenInv
      <4> QED BY <1>6, <4>1, <4>2
    <3>2. told' = told \cup {r} /\ sessionId' = used[r]
      BY <1>2, <2>3
    <3>3. PICK heard : heard = {i \in DOMAIN shown'.turns : shown'.turns[i] \in told'}
      OBVIOUS
    <3>4. n \in heard /\ (\A j \in heard : j <= n) /\ sessionId' = used'[shown'.turns[n]]
      BY <1>2, <1>6, <3>1, <3>2, <3>3
    <3> QED BY <3>3, <3>4 DEF Panel!ContinuesWhatItShows, Panel!IsConversation
  <2> QED BY <2>1, <2>2, <2>3
<1>8. \A q \in told' : Started(q)'
  <2>1. \A q \in told : Started(q)
    BY DEF PanelInv, ScreenInv
  <2>2. wire[1].type = "start" => Started(r)
    <3>1. 1 \in DOMAIN wire
      BY <1>2, WireFields
    <3> QED BY <1>1, <3>1 DEF PanelInv, ScreenInv
  <2> QED BY <1>2, <2>1, <2>2 DEF Started
<1>9. \A i \in DOMAIN wire' : sending' # None /\ (wire'[i].type = "start" => Started(sending)')
  <2>1. ASSUME NEW i \in DOMAIN wire' PROVE sending # None /\ (wire'[i].type = "start" => Started(sending))
    <3>1. i + 1 \in DOMAIN wire /\ wire'[i] = wire[i + 1]
      BY <1>2, WireShrinks
    <3> QED BY <3>1 DEF PanelInv, ScreenInv
  <2> QED BY <1>2, <2>1 DEF Started
<1>10. ScreenInv'
  <2>1. \A i \in DOMAIN shown'.turns : phase'[shown'.turns[i]] # "idle"
    BY <1>2 DEF PanelInv, ScreenInv
  <2>2. (sending # None /\ Panel!OnScreen(sending) => shown.turns[Len(shown.turns)] = sending)'
    BY <1>2 DEF PanelInv, ScreenInv, Panel!OnScreen
  <2> QED BY <1>7, <1>8, <1>9, <2>1, <2>2 DEF ScreenInv
<1>11. SpinsAlone'
  <2>1. ASSUME NEW q \in Turns PROVE bubble'[q].streaming = bubble[q].streaming
    BY <1>3
  <2> QED BY <1>2, <2>1 DEF PanelInv, SpinsAlone
<1>12. ASSUME NEW q \in Turns PROVE CallsOK(q)' /\ BubbleOK(q)'
  <2>1. CallsOK(q) /\ BubbleOK(q)
    BY DEF PanelInv
  <2>2. CallsOK(q)'
    BY <1>2, <2>1 DEF CallsOK
  <2>3. CASE q = r
    BY <1>3, <2>2, <2>3 DEF StreamOK, BubbleOK
  <2>4. CASE q # r
    BY <1>2, <1>3, <2>1, <2>2, <2>4 DEF BubbleOK
  <2> QED BY <2>3, <2>4
<1>13. ASSUME NEW q \in Turns, sending' = q PROVE StreamOK(q)'
  BY <1>1, <1>2, <1>3, <1>13
<1> QED BY <1>5, <1>10, <1>11, <1>12, <1>13 DEF PanelInv

\* sendMessage returns: its bubble streams no more and does not say more than
\* the answer of the server did.
LEMMA LeaveKept ==
  ASSUME PanelInv, NEW r \in Turns, r = sending, NEW b \in Bubbles,
         bubble' = [bubble EXCEPT ![r] = b], b.streaming = FALSE,
         TurnsTypeOK', UNCHANGED <<stored, named, used, announced>>,
         \A q \in Turns \ {r} : phase'[q] = phase[q],
         phase[r] = "asked" => phase'[r] = "asked", phase[r] # "asked" => phase'[r] \notin {"idle", "asked", "tool"},
         sending' = None, wire' = <<>>, UNCHANGED <<sessionId, shown, opening, deleting, clicks, stray, told>>,
         \A i \in DOMAIN b.steps : b.steps[i] = "final_answer" =>
           phase'[r] = "closed" /\ b.rows = [id : 1..announced[r], output : {TRUE}]
  PROVE  PanelInv'
<1>1. PanelTypes
  BY DEF PanelInv
<1>2. /\ bubble' \in [Turns -> Bubbles] /\ bubble'[r] = b /\ \A q \in Turns \ {r} : bubble'[q] = bubble[q]
  BY <1>1 DEF PanelTypes
<1>3. wire' \in Seq(Pieces) /\ DOMAIN wire' = {}
  BY NoElements
<1>4. PanelTypes'
  BY <1>1, <1>2, <1>3 DEF PanelTypes
<1>5. ScreenInv'
  <2>1. Panel!ContinuesWhatItShows'
    BY ConversationStays
  <2>2. \A q \in told' : Started(q)'
    BY <1>1 DEF PanelInv, ScreenInv, Started, PanelTypes
  <2>3. \A i \in DOMAIN shown'.turns : phase'[shown'.turns[i]] # "idle"
    <3>1. \A i \in DOMAIN shown.turns : shown.turns[i] \in Turns /\ phase[shown.turns[i]] # "idle"
      <4>1. shown.turns \in Seq(Turns)
        BY <1>1 DEF PanelTypes
      <4> QED BY <4>1, LenProperties, ElementOfSeq DEF PanelInv, ScreenInv
    <3>2. \A q \in Turns : phase[q] # "idle" => phase'[q] # "idle"
      OBVIOUS
    <3> QED BY <3>1, <3>2
  <2> QED BY <1>3, <2>1, <2>2, <2>3 DEF ScreenInv
<1>6. SpinsAlone'
  <2>1. ASSUME NEW q \in Turns PROVE bubble'[q].streaming = FALSE
    <3>1. CASE q = r
      BY <1>2, <3>1
    <3>2. CASE q # r
      <4>1. bubble[q].streaming <=> sending = q
        BY DEF PanelInv, SpinsAlone
      <4>2. bubble[q].streaming \in BOOLEAN
        BY <1>1 DEF PanelTypes, Bubbles
      <4> QED BY <1>2, <3>2, <4>1, <4>2
    <3> QED BY <3>1, <3>2
  <2> QED BY <2>1, TurnAssumption DEF SpinsAlone
<1>7. ASSUME NEW q \in Turns PROVE CallsOK(q)' /\ BubbleOK(q)'
  <2>1. CallsOK(q) /\ BubbleOK(q)
    BY DEF PanelInv
  <2>2. CASE q = r
    BY <1>2, <2>1, <2>2 DEF CallsOK, BubbleOK
  <2>3. CASE q # r
    BY <1>2, <2>1, <2>3 DEF CallsOK, BubbleOK
  <2> QED BY <2>2, <2>3
<1> QED BY <1>4, <1>5, <1>6, <1>7, TurnAssumption DEF PanelInv

LEMMA FinishKept ==
  ASSUME PanelInv, Panel!Finish
  PROVE  PanelInv'
<1>1. PICK r \in Turns : r = sending
  BY DEF Panel!Finish, PanelInv, PanelTypes
<1>2. /\ wire = <<>> /\ DOMAIN wire = {} /\ phase[r] \in Failed \cup {"closed"}
      /\ UNCHANGED <<stored, named, used, phase, announced, sessionId, shown, opening, deleting, clicks, stray, told>>
      /\ sending' = None /\ wire' = <<>>
  BY <1>1, NoElements DEF Panel!Finish, Panel!Leave, Panel!turnVars, Panel!historyVars,
     Panel!Final, Panel!Failed, Failed
<1>3. PICK b \in Bubbles : b = bubble[r]
  BY DEF PanelInv, PanelTypes
<1>4. StreamOK(r) /\ TurnsTypeOK
  BY <1>1 DEF PanelInv, PanelTypes
<1>5. /\ b.text \in {"none", "tokens", "message", "error"} /\ b.streaming \in BOOLEAN
      /\ b.rows \subseteq Rows /\ b.steps \in Seq(Steps)
      /\ \A i \in DOMAIN b.steps : b.steps[i] # "final_answer"
  BY <1>3, <1>4 DEF Bubbles, StreamOK
<1>6. b.rows = [id : 1..announced[r], output : {TRUE}]
  <2>1. \A k : ~Pending(r, k)
    BY <1>2 DEF Pending, Failed
  <2>2. ASSUME NEW row \in b.rows PROVE row \in [id : 1..announced[r], output : {TRUE}]
    <3>1. row.id \in 1..announced[r] /\ row.output
      BY <1>3, <1>4, <2>1, <2>2 DEF StreamOK
    <3>2. row \in Rows
      BY <1>5, <2>2
    <3>3. row = [id |-> row.id, output |-> row.output] /\ row.output \in BOOLEAN
      BY <3>2 DEF Rows
    <3> QED BY <3>1, <3>3
  <2>3. ASSUME NEW row \in [id : 1..announced[r], output : {TRUE}] PROVE row \in b.rows
    <3>1. PICK k \in 1..announced[r] : row = Row(k, TRUE)
      BY <2>3 DEF Row
    <3> QED BY <1>3, <1>4, <2>1, <3>1 DEF StreamOK
  <2> QED BY <2>2, <2>3
<1>7. phase[r] \in Failed => b.text = "error"
  BY <1>2, <1>3, <1>4 DEF StreamOK, Warned
<1>8. PICK last \in Bubbles :
        /\ bubble' = [bubble EXCEPT ![r] = last] /\ last.streaming = FALSE
        /\ \A i \in DOMAIN last.steps : last.steps[i] = "final_answer" =>
             phase[r] = "closed" /\ last.rows = [id : 1..announced[r], output : {TRUE}]
  <2>1. CASE ~Panel!OnScreen(r)
    <3>1. bubble' = [bubble EXCEPT ![r] = Panel!Blank]
      BY <1>1, <2>1 DEF Panel!Finish, Panel!Leave
    <3> QED BY <3>1, BlankBubble
  <2>2. CASE Panel!OnScreen(r) /\ b.text \in {"none", "error"}
    <3>1. bubble' = [bubble EXCEPT ![r] = [b EXCEPT !.streaming = FALSE]]
      BY <1>1, <1>3, <2>2 DEF Panel!Finish, Panel!Leave
    <3> DEFINE last == [b EXCEPT !.streaming = FALSE]
    <3>2. last \in Bubbles /\ last.streaming = FALSE /\ last.steps = b.steps
      BY DEF Bubbles
    <3> QED BY <1>5, <3>1, <3>2
  <2>3. CASE Panel!OnScreen(r) /\ b.text \notin {"none", "error"}
    <3>1. bubble' = [bubble EXCEPT ![r] = [[b EXCEPT !.steps = Append(b.steps, "final_answer")] EXCEPT !.streaming = FALSE]]
      BY <1>1, <1>3, <2>3 DEF Panel!Finish, Panel!Leave
    <3> DEFINE last == [[b EXCEPT !.steps = Append(b.steps, "final_answer")] EXCEPT !.streaming = FALSE]
    <3>2. "final_answer" \in Steps
      BY DEF Steps
    <3>3. Append(b.steps, "final_answer") \in Seq(Steps)
      BY <1>5, <3>2, AppendProperties
    <3>4. last \in Bubbles /\ last.streaming = FALSE /\ last.rows = b.rows
      BY <1>5, <3>3 DEF Bubbles
    <3>5. phase[r] = "closed"
      BY <1>2, <1>7, <2>3
    <3> HIDE DEF last
    <3> QED BY <1>6, <3>1, <3>4, <3>5 DEF last
  <2> QED BY <2>1, <2>2, <2>3
<1>9. TurnsTypeOK'
  BY <1>2, <1>4 DEF TurnsTypeOK
<1> QED BY <1>1, <1>2, <1>8, <1>9, LeaveKept DEF Failed

LEMMA BreakKept ==
  ASSUME PanelInv, Panel!Break
  PROVE  PanelInv'
<1>1. PICK r \in Turns : r = sending
  BY DEF Panel!Break, PanelInv, PanelTypes
<1>2. /\ UNCHANGED <<sessionId, shown, opening, deleting, clicks, stray, told>>
      /\ sending' = None /\ wire' = <<>> /\ Abandon(r)
  BY <1>1, SameSteps DEF Panel!Break, Panel!Leave, Panel!historyVars
<1>3. PICK b \in Bubbles : b = bubble[r]
  BY DEF PanelInv, PanelTypes
<1>4. StreamOK(r) /\ TurnsTypeOK
  BY <1>1 DEF PanelInv, PanelTypes
<1>5. /\ b.text \in {"none", "tokens", "message", "error"} /\ b.streaming \in BOOLEAN
      /\ b.rows \subseteq Rows /\ b.steps \in Seq(Steps)
      /\ \A i \in DOMAIN b.steps : b.steps[i] # "final_answer"
  BY <1>3, <1>4 DEF Bubbles, StreamOK
<1>6. /\ TurnsTypeOK' /\ UNCHANGED <<stored, named, used, announced>>
      /\ \A q \in Turns \ {r} : phase'[q] = phase[q]
      /\ phase[r] = "asked" => phase'[r] = "asked"
      /\ phase[r] # "asked" => phase'[r] \notin {"idle", "asked", "tool"}
  BY <1>2, <1>4, FlowDomain DEF Abandon, TurnsTypeOK
<1>7. PICK last \in Bubbles :
        /\ bubble' = [bubble EXCEPT ![r] = last] /\ last.streaming = FALSE
        /\ \A i \in DOMAIN last.steps : last.steps[i] # "final_answer"
  <2>1. CASE ~Panel!OnScreen(r)
    <3>1. bubble' = [bubble EXCEPT ![r] = Panel!Blank]
      BY <1>1, <2>1 DEF Panel!Break, Panel!Leave
    <3> QED BY <3>1, BlankBubble
  <2>2. CASE Panel!OnScreen(r)
    <3>1. bubble' = [bubble EXCEPT ![r] = [[b EXCEPT !.text = "error", !.steps = Append(b.steps, "error")] EXCEPT !.streaming = FALSE]]
      BY <1>1, <1>3, <2>2 DEF Panel!Break, Panel!Leave
    <3> DEFINE last == [[b EXCEPT !.text = "error", !.steps = Append(b.steps, "error")] EXCEPT !.streaming = FALSE]
    <3>2. "error" \in Steps
      BY DEF Steps
    <3>3. /\ Append(b.steps, "error") \in Seq(Steps) /\ Len(Append(b.steps, "error")) = Len(b.steps) + 1
          /\ \A i \in 1..Len(b.steps) : Append(b.steps, "error")[i] = b.steps[i]
          /\ Append(b.steps, "error")[Len(b.steps) + 1] = "error"
      BY <1>5, <3>2, AppendProperties
    <3>4. /\ Len(b.steps) \in Nat /\ DOMAIN b.steps = 1..Len(b.steps)
          /\ DOMAIN Append(b.steps, "error") = 1..(Len(b.steps) + 1)
      BY <1>5, <3>3, LenProperties
    <3>5. \A i \in DOMAIN Append(b.steps, "error") : Append(b.steps, "error")[i] # "final_answer"
      BY <1>5, <3>3, <3>4
    <3>6. last \in Bubbles /\ last.streaming = FALSE /\ last.steps = Append(b.steps, "error")
      BY <1>5, <3>3 DEF Bubbles
    <3> HIDE DEF last
    <3> QED BY <3>1, <3>5, <3>6 DEF last
  <2> QED BY <2>1, <2>2
<1> QED BY <1>1, <1>2, <1>6, <1>7, LeaveKept

\* Another chat, or none, is shown.
LEMMA ShowKept ==
  ASSUME PanelInv, NEW chat \in ChatOrNone, Panel!Show(chat),
         UNCHANGED <<stored, named, used, phase, announced, sending, wire, clicks>>,
         opening' \subseteq opening, deleting' \subseteq deleting
  PROVE  PanelInv'
<1>1. /\ shown' = [chat |-> chat, turns |-> <<>>] /\ sessionId' = chat /\ stray' = FALSE /\ told' = {}
      /\ bubble' = [r \in Turns |-> IF r = sending THEN bubble[r] ELSE Panel!Blank]
  BY SameTurns DEF Panel!Show
<1>2. PanelTypes
  BY DEF PanelInv
<1>3. /\ bubble' \in [Turns -> Bubbles]
      /\ \A r \in Turns : bubble'[r] = IF r = sending THEN bubble[r] ELSE Panel!Blank
  BY <1>1, <1>2, BlankBubble DEF PanelTypes
<1>4. PanelTypes'
  <2>1. shown' \in [chat : ChatOrNone, turns : Seq(Turns)]
    BY <1>1, NoElements
  <2>2. TurnsTypeOK'
    BY <1>2 DEF PanelTypes, TurnsTypeOK
  <2> QED BY <1>1, <1>2, <1>3, <2>1, <2>2 DEF PanelTypes
<1>5. ScreenInv'
  <2>1. DOMAIN shown'.turns = {} /\ shown'.chat = chat
    BY <1>1, NoElements
  <2>2. Panel!ContinuesWhatItShows'
    BY <1>1, <2>1 DEF Panel!ContinuesWhatItShows, Panel!IsConversation
  <2>3. \A i \in DOMAIN wire' : sending' # None /\ (wire'[i].type = "start" => Started(sending)')
    BY DEF PanelInv, ScreenInv, Started
  <2> QED BY <1>1, <2>1, <2>2, <2>3 DEF ScreenInv, Panel!OnScreen
<1>6. SpinsAlone'
  <2>1. ASSUME NEW q \in Turns PROVE bubble'[q].streaming <=> sending' = q
    <3>1. CASE q = sending
      BY <1>3, <3>1 DEF PanelInv, SpinsAlone
    <3>2. CASE q # sending
      BY <1>3, <3>2, BlankBubble
    <3> QED BY <3>1, <3>2
  <2> QED BY <2>1 DEF SpinsAlone
<1>7. ASSUME NEW q \in Turns PROVE CallsOK(q)' /\ BubbleOK(q)' /\ (sending' = q => StreamOK(q)')
  <2>1. CallsOK(q) /\ BubbleOK(q)
    BY DEF PanelInv
  <2>2. CallsOK(q)'
    BY <2>1 DEF CallsOK
  <2>3. CASE q = sending
    <3>1. bubble'[q] = bubble[q] /\ StreamOK(q)
      BY <1>3, <2>3 DEF PanelInv
    <3>2. StreamOK(q)'
      BY <3>1, StreamStays
    <3> QED BY <2>1, <2>2, <3>1, <3>2 DEF BubbleOK
  <2>4. CASE q # sending
    BY <1>3, <2>2, <2>4, BlankBubble DEF BubbleOK
  <2> QED BY <2>3, <2>4
<1> QED BY <1>4, <1>5, <1>6, <1>7 DEF PanelInv

\* The lists of what the user clicked on change, or the database does.
LEMMA ListsKept ==
  ASSUME PanelInv, UNCHANGED <<named, used, phase, announced, sessionId, shown, sending, wire, bubble, stray, told>>,
         stored' \subseteq stored, opening' \subseteq Chats, deleting' \subseteq Deletions, clicks' \in 0..MaxClicks
  PROVE  PanelInv'
<1>1. PanelTypes'
  BY DEF PanelInv, PanelTypes, TurnsTypeOK
<1>2. ScreenInv'
  <2>1. Panel!ContinuesWhatItShows'
    BY ConversationStays
  <2> QED BY <2>1 DEF PanelInv, ScreenInv, Started, Panel!OnScreen
<1>3. SpinsAlone'
  BY DEF PanelInv, SpinsAlone
<1>4. ASSUME NEW q \in Turns PROVE CallsOK(q)' /\ BubbleOK(q)' /\ (sending' = q => StreamOK(q)')
  <2>1. CallsOK(q) /\ BubbleOK(q) /\ (sending = q => StreamOK(q))
    BY DEF PanelInv
  <2>2. sending' = q => StreamOK(q)'
    BY <2>1, StreamStays
  <2> QED BY <2>1, <2>2 DEF CallsOK, BubbleOK
<1> QED BY <1>1, <1>2, <1>3, <1>4 DEF PanelInv

LEMMA PanelKept ==
  ASSUME PanelInv, Panel!Next
  PROVE  PanelInv'
<1>1. /\ opening \subseteq Chats /\ deleting \subseteq Deletions /\ clicks \in 0..MaxClicks
      /\ sessionId \in ChatOrNone /\ stored \subseteq Chats /\ MaxClicks \in Nat
  BY ClientAssumption DEF PanelInv, PanelTypes, TurnsTypeOK
<1>2. CASE Panel!Sent
  BY <1>2, SubmitKept, SameTurns DEF Panel!Sent
<1>3. CASE Panel!Answered
  BY <1>3, AnswerKept, SameTurns DEF Panel!Answered
<1>4. CASE Panel!Click
  <2>1. PICK s \in Chats : Panel!SelectHistory(s) \/ Panel!DeleteHistory(s)
    BY <1>1, <1>4 DEF Panel!Click
  <2>2. clicks' \in 0..MaxClicks
    BY <1>1, <1>4 DEF Panel!Click
  <2>3. UNCHANGED <<stored, named, used, phase, announced, sessionId, shown, sending, wire, bubble, stray, told>>
    BY <2>1 DEF Panel!SelectHistory, Panel!DeleteHistory, Panel!turnVars
  <2>4. [chat |-> s, seen |-> sessionId, gone |-> FALSE] \in Deletions
    BY <1>1 DEF Deletions
  <2>5. opening' \subseteq Chats /\ deleting' \subseteq Deletions
    BY <1>1, <2>1, <2>4 DEF Panel!SelectHistory, Panel!DeleteHistory
  <2> QED BY <2>2, <2>3, <2>5, ListsKept
<1>5. CASE Panel!StartNewChat
  BY <1>5, ShowKept DEF Panel!StartNewChat, Panel!turnVars, Panel!historyVars, ChatOrNone
<1>6. ASSUME NEW s \in opening, Panel!Selected(s) PROVE PanelInv'
  <2>1. /\ opening' \subseteq opening /\ opening' \subseteq Chats /\ s \in ChatOrNone
        /\ UNCHANGED <<stored, named, used, phase, announced, sending, wire, deleting, clicks>>
    BY <1>1, <1>6 DEF Panel!Selected, Panel!turnVars, ChatOrNone
  <2>2. CASE Panel!Show(s)
    BY <2>1, <2>2, ShowKept
  <2>3. CASE Panel!KeepShown
    BY <1>1, <2>1, <2>3, ListsKept DEF Panel!KeepShown
  <2> QED BY <1>6, <2>2, <2>3 DEF Panel!Selected
<1>7. ASSUME NEW d \in deleting, Panel!Remove(d) PROVE PanelInv'
  <2>1. UNCHANGED <<named, used, phase, announced, sessionId, shown, sending, wire, bubble, opening, clicks, stray, told>>
    BY <1>7 DEF Panel!Remove
  <2>2. stored' \subseteq stored
    BY <1>7 DEF Panel!Remove
  <2>3. deleting' \subseteq Deletions
    <3>1. [d EXCEPT !.gone = TRUE] \in Deletions
      BY <1>1 DEF Deletions
    <3> QED BY <1>1, <1>7, <3>1 DEF Panel!Remove
  <2> QED BY <1>1, <2>1, <2>2, <2>3, ListsKept
<1>8. ASSUME NEW d \in deleting, Panel!Deleted(d) PROVE PanelInv'
  <2>1. /\ deleting' \subseteq deleting /\ deleting' \subseteq Deletions
        /\ UNCHANGED <<stored, named, used, phase, announced, sending, wire, opening, clicks>>
    BY <1>1, <1>8 DEF Panel!Deleted, Panel!turnVars
  <2>2. CASE Panel!Show(None)
    BY <2>1, <2>2, ShowKept DEF ChatOrNone
  <2>3. CASE Panel!KeepShown
    BY <1>1, <2>1, <2>3, ListsKept DEF Panel!KeepShown
  <2> QED BY <1>8, <2>2, <2>3 DEF Panel!Deleted
<1> QED BY <1>2, <1>3, <1>4, <1>5, <1>6, <1>7, <1>8, ReadKept, FinishKept, BreakKept DEF Panel!Next, Panel!History

\* What module ChatPanel promises follows from the invariant of the panel.
LEMMA PanelHolds ==
  ASSUME PanelInv
  PROVE  Panel!TypeOK /\ Panel!ContinuesWhatItShows /\ Panel!FinalIsComplete
<1>1. PanelTypes
  BY DEF PanelInv
<1>2. ASSUME NEW r \in Turns
      PROVE  /\ bubble[r].text \in {"none", "tokens", "message", "error"}
             /\ bubble[r].rows \subseteq [id : 1..MaxCalls, output : BOOLEAN]
             /\ bubble[r].streaming <=> (sending = r)
  <2>1. bubble[r] \in Bubbles
    BY <1>1 DEF PanelTypes
  <2>2. bubble[r].streaming <=> sending = r
    BY DEF PanelInv, SpinsAlone
  <2>3. bubble[r].text \in {"none", "tokens", "message", "error"} /\ bubble[r].rows \subseteq Rows
    BY <2>1 DEF Bubbles
  <2> QED BY <2>2, <2>3 DEF Rows
<1>3. /\ TurnsTypeOK /\ sessionId \in ChatOrNone /\ shown.chat \in ChatOrNone /\ sending \in Turns \cup {None}
      /\ clicks \in 0..MaxClicks /\ opening \subseteq Chats /\ told \subseteq Turns
      /\ deleting \subseteq [chat : Chats, seen : ChatOrNone, gone : BOOLEAN]
  BY <1>1 DEF PanelTypes, Deletions
<1>4. Panel!TypeOK
  BY <1>2, <1>3, SameTurns DEF Panel!TypeOK
<1>5. Panel!ContinuesWhatItShows
  BY DEF PanelInv, ScreenInv
<1>6. Panel!FinalIsComplete
  <2>1. \A r \in Turns : BubbleOK(r)
    BY DEF PanelInv
  <2> QED BY <2>1, SameTurns DEF Panel!FinalIsComplete, BubbleOK
<1> QED BY <1>4, <1>5, <1>6

-----------------------------------------------------------------------------
(* The clients: the part that runs keeps its invariant, the others rest *)

LEMMA ProviderFrame ==
  ASSUME ProviderInv, UNCHANGED providerVars
  PROVE  ProviderInv'
BY DEF ProviderInv, Provider!TypeOK, PostsOnce, providerVars

LEMMA OpsFrame ==
  ASSUME OpsInv, UNCHANGED <<turnVars, opsVars>>
  PROVE  OpsInv'
<1>1. UNCHANGED <<stored, named, used, phase, announced, root, task, entries, stale, chunks, forked>>
  BY DEF turnVars, opsVars
<1>2. OpsTypes'
  BY <1>1 DEF OpsInv, OpsTypes, TurnsTypeOK
<1>3. ASSUME NEW r \in Turns PROVE TurnOK(r)' /\ ChunksOK(r)'
  BY <1>1 DEF OpsInv, TurnOK, ChunksOK, Within
<1>4. ASSUME NEW t \in DOMAIN entries' PROVE Within(entries[t], t)'
  BY <1>1 DEF OpsInv, Within
<1>5. ASSUME NEW t \in Turns \ forked' PROVE ThreadOK(t)'
  BY <1>1 DEF OpsInv, ThreadOK, Ops!Session
<1> QED BY <1>2, <1>3, <1>4, <1>5 DEF OpsInv

LEMMA PanelFrame ==
  ASSUME PanelInv, UNCHANGED <<turnVars, panelVars>>
  PROVE  PanelInv'
BY ListsKept DEF turnVars, panelVars, PanelInv, PanelTypes

\* Where a part rests, what it promises holds of any turns.
LEMMA OpsAtRest ==
  ASSUME OpsRest, TurnsTypeOK
  PROVE  Ops!TypeOK /\ Ops!ThreadsAreConversations /\ Ops!ReplyIsTheAnswer
<1>1. /\ root \in [Turns -> {0} \cup Turns] /\ task \in [Turns -> Tasks]
      /\ \A r \in Turns : root[r] = 0 /\ task[r] = "none" /\ DOMAIN chunks[r] = {}
      /\ DOMAIN entries = {} /\ stale = {} /\ forked = {}
  BY NoElements DEF OpsRest, Tasks
<1>2. Ops!TypeOK
  BY <1>1, SameTurns DEF Ops!TypeOK, Ops!Threads, Tasks
<1>3. Ops!Opened = {}
  BY <1>1, SameTurns DEF Ops!Opened
<1>4. Ops!ThreadsAreConversations
  BY <1>3 DEF Ops!ThreadsAreConversations
<1>5. Ops!ReplyIsTheAnswer
  BY <1>1, SameTurns DEF Ops!ReplyIsTheAnswer
<1> QED BY <1>2, <1>4, <1>5

LEMMA PanelAtRest ==
  ASSUME PanelRest, TurnsTypeOK
  PROVE  Panel!TypeOK /\ Panel!ContinuesWhatItShows /\ Panel!FinalIsComplete
<1>1. /\ sessionId = None /\ shown.chat = None /\ DOMAIN shown.turns = {} /\ sending = None
      /\ opening = {} /\ deleting = {} /\ clicks = 0 /\ stray = FALSE /\ told = {}
      /\ \A r \in Turns : /\ bubble[r].text = "none" /\ bubble[r].streaming = FALSE
                          /\ bubble[r].rows = {} /\ DOMAIN bubble[r].steps = {}
  BY NoElements DEF PanelRest
<1>2. Panel!TypeOK
  <2>1. clicks \in 0..MaxClicks
    BY <1>1, ClientAssumption
  <2>2. \A r \in Turns : bubble[r].streaming <=> (sending = r)
    BY <1>1, TurnAssumption
  <2> QED BY <1>1, <2>1, <2>2, SameTurns DEF Panel!TypeOK, ChatOrNone
<1>3. Panel!ContinuesWhatItShows
  BY <1>1 DEF Panel!ContinuesWhatItShows, Panel!IsConversation
<1>4. Panel!FinalIsComplete
  BY <1>1, SameTurns DEF Panel!FinalIsComplete
<1> QED BY <1>2, <1>3, <1>4

LEMMA InitIInv == Init => IInv
<1> SUFFICES ASSUME Init PROVE IInv
  OBVIOUS
<1>1. part \in {"panel", "ops", "mattermost"} /\ Panel!Init /\ Ops!Init /\ Provider!Init
  BY DEF Init
<1>2. TurnsInit
  BY <1>1, SameTurns DEF Panel!Init, Panel!TurnsInit, TurnsInit
<1>3. OpsRest
  BY <1>1, SameTurns DEF Ops!Init, OpsRest
<1>4. PanelRest
  BY <1>1, SameTurns DEF Panel!Init, Panel!Empty, Panel!Blank, PanelRest
<1>5. TurnsTypeOK /\ \A r \in Turns : phase[r] = "idle" /\ used[r] = None /\ named[r] = None /\ announced[r] = 0
  BY <1>2, TurnAssumption, FlowDomain DEF TurnsInit, TurnsTypeOK, Chats, ChatOrNone
<1>6. ProviderInv
  <2>1. drops \in 0..MaxDrops /\ posted \cup replied \subseteq Turns
    BY <1>1, ClientAssumption DEF Provider!Init
  <2>2. events \in Seq([post : Turns, own : BOOLEAN, mention : BOOLEAN]) /\ handled \in Seq(Turns)
    BY <1>1, NoElements DEF Provider!Init
  <2>3. Provider!TypeOK
    BY <1>1, <2>1, <2>2 DEF Provider!Init, Provider!TypeOK
  <2>4. DOMAIN events = {} /\ DOMAIN handled = {}
    BY <1>1, NoElements DEF Provider!Init
  <2> QED BY <2>3, <2>4 DEF ProviderInv, PostsOnce
<1>7. OpsInv
  <2>1. /\ \A r \in Turns : root[r] = 0 /\ task[r] = "none" /\ DOMAIN chunks[r] = {}
        /\ root \in [Turns -> {0} \cup Turns] /\ task \in [Turns -> Tasks] /\ chunks \in [Turns -> Seq(ChunkTypes)]
        /\ DOMAIN entries = {} /\ stale = {} /\ forked = {}
    BY <1>3, NoElements DEF OpsRest, Tasks
  <2>2. OpsTypes
    BY <1>5, <2>1 DEF OpsTypes
  <2>3. ASSUME NEW r \in Turns PROVE TurnOK(r) /\ ChunksOK(r)
    BY <1>5, <2>1 DEF TurnOK, ChunksOK, Within, Failed
  <2>4. ASSUME NEW t \in Turns PROVE ThreadOK(t)
    <3>1. \A r \in Turns : root[r] # t
      BY <2>1 DEF Turns
    <3>2. Ops!Session(t) = None
      BY <2>1 DEF Ops!Session
    <3> QED BY <3>1, <3>2 DEF ThreadOK
  <2> QED BY <2>1, <2>2, <2>3, <2>4 DEF OpsInv
<1>8. PanelInv
  <2>1. /\ sessionId = None /\ shown.chat = None /\ DOMAIN shown.turns = {} /\ sending = None
        /\ opening = {} /\ deleting = {} /\ clicks = 0 /\ stray = FALSE /\ told = {}
        /\ wire \in Seq(Pieces) /\ DOMAIN wire = {}
        /\ shown \in [chat : ChatOrNone, turns : Seq(Turns)]
    BY <1>4, NoElements DEF PanelRest, ChatOrNone
  <2>2. bubble = [r \in Turns |-> Panel!Blank]
    BY <1>4 DEF PanelRest, Panel!Blank
  <2>3. bubble \in [Turns -> Bubbles] /\ \A r \in Turns : bubble[r].streaming = FALSE /\ DOMAIN bubble[r].steps = {}
    BY <2>2, BlankBubble
  <2>4. PanelTypes
    <3>1. clicks \in 0..MaxClicks
      BY <2>1, ClientAssumption
    <3> QED BY <1>5, <2>1, <2>3, <3>1 DEF PanelTypes, ChatOrNone
  <2>5. ScreenInv
    <3>1. Panel!ContinuesWhatItShows
      BY <2>1 DEF Panel!ContinuesWhatItShows, Panel!IsConversation
    <3> QED BY <2>1, <3>1 DEF ScreenInv
  <2>6. SpinsAlone
    <3>1. \A r \in Turns : bubble[r].streaming <=> sending = r
      BY <2>1, <2>3, TurnAssumption
    <3> QED BY <3>1 DEF SpinsAlone
  <2>7. ASSUME NEW r \in Turns PROVE CallsOK(r) /\ BubbleOK(r) /\ sending # r
    BY <1>5, <2>1, <2>3, TurnAssumption DEF CallsOK, BubbleOK
  <2> QED BY <2>4, <2>5, <2>6, <2>7 DEF PanelInv
<1> QED BY <1>1, <1>3, <1>4, <1>6, <1>7, <1>8 DEF IInv

LEMMA NextIInv == IInv /\ [Next]_vars => IInv'
<1> SUFFICES ASSUME IInv, [Next]_vars PROVE IInv'
  OBVIOUS
<1>1. CASE Panel!Next /\ OnPanel
  <2>1. PanelInv /\ OpsRest /\ ProviderInv /\ part' = part /\ part = "panel" /\ UNCHANGED opsVars /\ UNCHANGED providerVars
    BY <1>1 DEF OnPanel, IInv
  <2>2. PanelInv'
    BY <1>1, <2>1, PanelKept
  <2>3. OpsRest'
    BY <2>1 DEF OpsRest, opsVars
  <2>4. ProviderInv'
    BY <2>1, ProviderFrame
  <2> QED BY <2>1, <2>2, <2>3, <2>4 DEF IInv
<1>2. CASE Ops!Next /\ OnOps
  <2>1. OpsInv /\ PanelRest /\ ProviderInv /\ part' = part /\ part = "ops" /\ UNCHANGED panelVars /\ UNCHANGED providerVars
    BY <1>2 DEF OnOps, IInv
  <2>2. OpsInv'
    BY <1>2, <2>1, OpsKept
  <2>3. PanelRest'
    BY <2>1 DEF PanelRest, panelVars
  <2>4. ProviderInv'
    BY <2>1, ProviderFrame
  <2> QED BY <2>1, <2>2, <2>3, <2>4 DEF IInv
<1>3. CASE Provider!Next /\ OnProvider
  <2>1. /\ OpsInv /\ PanelRest /\ ProviderInv /\ part' = part /\ part = "mattermost"
        /\ UNCHANGED turnVars /\ UNCHANGED panelVars /\ UNCHANGED opsVars
    BY <1>3 DEF OnProvider, IInv
  <2>2. OpsInv'
    BY <2>1, OpsFrame
  <2>3. PanelRest'
    BY <2>1 DEF PanelRest, panelVars
  <2>4. ProviderInv'
    BY <1>3, <2>1, ProviderKept
  <2> QED BY <2>1, <2>2, <2>3, <2>4 DEF IInv
<1>4. CASE UNCHANGED vars
  <2>1. /\ part' = part /\ UNCHANGED turnVars /\ UNCHANGED panelVars /\ UNCHANGED opsVars /\ UNCHANGED providerVars
    BY <1>4 DEF vars
  <2>2. ProviderInv'
    BY <2>1, ProviderFrame DEF IInv
  <2>3. CASE part = "panel"
    <3>1. PanelInv'
      BY <2>1, <2>3, PanelFrame DEF IInv
    <3>2. OpsRest'
      BY <2>1, <2>3 DEF IInv, OpsRest, opsVars
    <3> QED BY <2>1, <2>2, <2>3, <3>1, <3>2 DEF IInv
  <2>4. CASE part # "panel"
    <3>1. OpsInv'
      BY <2>1, <2>4, OpsFrame DEF IInv
    <3>2. PanelRest'
      BY <2>1, <2>4 DEF IInv, PanelRest, panelVars
    <3> QED BY <2>1, <2>2, <2>4, <3>1, <3>2 DEF IInv
  <2> QED BY <2>3, <2>4
<1> QED BY <1>1, <1>2, <1>3, <1>4 DEF Next

LEMMA Invariant == Spec => []IInv
<1> QED BY InitIInv, NextIInv, PTL DEF Spec

LEMMA IInvHolds ==
  IInv => TypeOK /\ ContinuesWhatItShows /\ FinalIsComplete /\ ThreadsAreAnswered /\ NoEcho
<1> SUFFICES ASSUME IInv PROVE TypeOK /\ ContinuesWhatItShows /\ FinalIsComplete /\ ThreadsAreAnswered /\ NoEcho
  OBVIOUS
<1>1. part \in {"panel", "ops", "mattermost"} /\ ProviderInv
  BY DEF IInv
<1>2. Provider!TypeOK /\ Provider!NoEcho
  BY <1>1 DEF ProviderInv, PostsOnce, Provider!NoEcho
<1>3. CASE part = "panel"
  <2>1. PanelInv /\ OpsRest /\ TurnsTypeOK
    BY <1>3 DEF IInv, PanelInv, PanelTypes
  <2>2. Panel!TypeOK /\ Panel!ContinuesWhatItShows /\ Panel!FinalIsComplete
    BY <2>1, PanelHolds
  <2>3. Ops!TypeOK /\ Ops!ThreadsAreConversations /\ Ops!ReplyIsTheAnswer
    BY <2>1, OpsAtRest
  <2> QED BY <1>1, <1>2, <2>2, <2>3 DEF TypeOK, ContinuesWhatItShows, FinalIsComplete, ThreadsAreAnswered, NoEcho
<1>4. CASE part # "panel"
  <2>1. OpsInv /\ PanelRest /\ TurnsTypeOK
    BY <1>4 DEF IInv, OpsInv, OpsTypes
  <2>2. Panel!TypeOK /\ Panel!ContinuesWhatItShows /\ Panel!FinalIsComplete
    BY <2>1, PanelAtRest
  <2>3. Ops!TypeOK /\ Ops!ThreadsAreConversations /\ Ops!ReplyIsTheAnswer
    BY <2>1, OpsHolds
  <2> QED BY <1>1, <1>2, <2>2, <2>3 DEF TypeOK, ContinuesWhatItShows, FinalIsComplete, ThreadsAreAnswered, NoEcho
<1> QED BY <1>3, <1>4

-----------------------------------------------------------------------------
(* Theorems *)

\* Every variable of the chat panel, of the ChatOps bridge and of the Mattermost
\* provider stays in its range.
THEOREM TypeCorrect == Spec => []TypeOK
<1>1. IInv => TypeOK
  BY IInvHolds
<1> QED BY <1>1, Invariant, PTL

\* handleSendMessage and the history handlers of ChatPanel.tsx: in whatever
\* order the answers of the server come in, the next message goes on with the
\* conversation on screen, unless a turn got its start chunk after it was left.
THEOREM PanelContinuesWhatItShows == Spec => []ContinuesWhatItShows
<1>1. IInv => ContinuesWhatItShows
  BY IInvHolds
<1> QED BY <1>1, Invariant, PTL

\* A bubble of ChatPanel.tsx gets its final_answer event only for an answer the
\* server has finished, with the result of every tool call it announced.
THEOREM PanelFinishesWhatIsComplete == Spec => []FinalIsComplete
<1>1. IInv => FinalIsComplete
  BY IInvHolds
<1> QED BY <1>1, Invariant, PTL

\* handleMessage and sessionMap of bridge.go: posts share a session just when
\* they share a thread, but for the reasons kept in forked, and the reply that
\* FormatResponse makes has the text of the answer once and its error if any.
THEOREM BridgeAnswersThreads == Spec => []ThreadsAreAnswered
<1>1. IInv => ThreadsAreAnswered
  BY IInvHolds
<1> QED BY <1>1, Invariant, PTL

\* connectAndListen of mattermost/provider.go: a post is handled at most once
\* and no post of the bot is, so it never answers itself.
THEOREM ProviderHasNoEcho == Spec => []NoEcho
<1>1. IInv => NoEcho
  BY IInvHolds
<1> QED BY <1>1, Invariant, PTL
=============================================================================
