----------------------------- MODULE ChatPanel ------------------------------
(***************************************************************************)
(* frontend/src/components/ChatPanel.tsx over services/api.ts: one panel   *)
(* whose user sends messages and meanwhile starts new chats, opens earlier *)
(* ones and deletes them.                                                  *)
(*                                                                         *)
(* The user is logged in.  sendMessage is one call at a time (isLoading)   *)
(* and awaits each chunk; the history calls are awaited too, and nothing   *)
(* puts their answers in order.  A bubble is the message of an assistant:  *)
(* once it has been removed from the panel no chunk brings it back.        *)
(***************************************************************************)
EXTENDS ChatTurns, FiniteSets

CONSTANTS
  MaxClicks,  \* bound: clicks on a previous chat, to open or to delete it
  Buffer      \* chunks on their way; the server waits when there are more

VARIABLES
  sessionId,  \* the session the next message will go on with
  shown,      \* messages on screen: those of a loaded chat, then those of turns
  sending,    \* the turn sendMessage is at: isLoading
  wire,       \* its chunks that have not been read
  bubble,     \* bubble[r]: what the panel makes of the answer to r
  opening,    \* chats whose messages are being fetched
  clicks,     \* clicks so far
  deleting,   \* deletions in progress, each with the sessionId it has seen
  stray,      \* history: sessionId comes from a turn that is not on screen
  told        \* history: turns on screen whose start chunk was read

panelVars == <<sessionId, shown, sending, wire, bubble, opening, deleting,
               clicks, stray, told>>
vars == <<turnVars, panelVars>>
historyVars == <<opening, deleting, clicks>>

Empty == [chat |-> None, turns |-> <<>>]
Blank == [text |-> "none", streaming |-> FALSE, rows |-> {}, steps |-> <<>>]
OnScreen(r) == \E i \in DOMAIN shown.turns : shown.turns[i] = r

Init ==
  /\ TurnsInit
  /\ sessionId = None /\ shown = Empty /\ sending = None /\ wire = <<>>
  /\ bubble = [r \in Turns |-> Blank]
  /\ opening = {} /\ deleting = {} /\ clicks = 0
  /\ stray = FALSE /\ told = {}

-----------------------------------------------------------------------------
(* sendMessage *)

Submit(r) ==
  /\ sending = None /\ \A q \in 1..(r - 1) : phase[q] # "idle"
  /\ Ask(r, sessionId)
  /\ sending' = r
  /\ shown' = [shown EXCEPT !.turns = Append(@, r)]
  /\ bubble' = [bubble EXCEPT ![r] =
                  [Blank EXCEPT !.streaming = TRUE, !.steps = <<"start">>]]
  /\ UNCHANGED <<sessionId, wire, historyVars, stray, told>>

\* The server writes a chunk.  Of a response that was given up only its
\* session matters.
Answer(r, chunk) ==
  /\ (chunk = "start" /\ Open(r)) \/ (r = sending /\ GoOn(r, chunk))
  /\ IF r = sending
     THEN /\ Len(wire) < Buffer
          /\ wire' = Append(wire, [type |-> chunk, id |-> announced'[r]])
     ELSE UNCHANGED wire
  /\ UNCHANGED <<sessionId, shown, sending, bubble, historyVars, stray, told>>

\* Both chunks of a tool call carry its reason, and a chunk with a reason
\* is a tool call to timelineEventsFromToolChunk.
StepsOf(chunk) ==
  CASE chunk.type = "call" -> <<"tool_call">>
    [] chunk.type = "result" -> <<"tool_call", "tool_result">>
    [] chunk.type = "error" -> <<"error">>
    [] OTHER -> <<>>

\* The text of a bubble after a chunk.
TextAfter(text, chunk) ==
  CASE chunk.type = "token" -> "tokens"
    [] chunk.type = "complete" /\ text = "none" -> "message"
    [] chunk.type = "error" -> "error"
    [] OTHER -> text

\* The tool calls of a bubble after a chunk: one row for each tool_id.
RowsAfter(rows, chunk) ==
  IF chunk.type \in {"call", "result"}
  THEN {row \in rows : row.id # chunk.id} \cup
       {[id |-> chunk.id, output |-> chunk.type = "result"]}
  ELSE rows

Read ==
  /\ sending # None /\ wire # <<>>
  /\ LET chunk == Head(wire)
         b == bubble[sending]
     IN /\ bubble' = [bubble EXCEPT ![sending] =
                        [b EXCEPT !.text = TextAfter(@, chunk),
                                  !.rows = RowsAfter(@, chunk),
                                  !.steps = @ \o StepsOf(chunk)]]
        /\ IF chunk.type = "start"
           THEN /\ sessionId' = used[sending]
                /\ stray' = ~OnScreen(sending)
                /\ told' = IF OnScreen(sending) THEN told \cup {sending} ELSE told
           ELSE UNCHANGED <<sessionId, stray, told>>
  /\ wire' = Tail(wire)
  /\ UNCHANGED <<turnVars, shown, sending, historyVars>>

\* MUTANT of Leave: a message that fails keeps its spinner.
LeaveSpinning(b) ==
  /\ bubble' = [bubble EXCEPT ![sending] = IF OnScreen(sending) THEN b ELSE Blank]
  /\ sending' = None /\ wire' = <<>>
  /\ UNCHANGED <<sessionId, shown, historyVars, stray, told>>

\* sendMessage returns, with the bubble as it is then if it is on screen.
Leave(b) ==
  /\ bubble' = [bubble EXCEPT ![sending] =
                  IF OnScreen(sending) THEN [b EXCEPT !.streaming = FALSE] ELSE Blank]
  /\ sending' = None /\ wire' = <<>>
  /\ UNCHANGED <<sessionId, shown, historyVars, stray, told>>

\* The stream has ended.
Finish ==
  /\ sending # None /\ wire = <<>> /\ phase[sending] \in Final
  /\ LET b == bubble[sending]
     IN Leave(IF b.text \in {"none", "error"} THEN b
              ELSE [b EXCEPT !.steps = Append(@, "final_answer")])
  /\ UNCHANGED turnVars

\* MUTANT of Break: a broken stream is taken for one that has ended.
BreakQuietly ==
  /\ sending # None
  /\ LET b == bubble[sending]
     IN Leave(IF b.text \in {"none", "error"} THEN b
              ELSE [b EXCEPT !.steps = Append(@, "final_answer")])
  /\ Abandon(sending)

\* The request is refused, or its connection breaks and what has not been
\* read is lost.  The server may go on with it.
Break ==
  /\ sending # None
  /\ LET b == bubble[sending]
     IN Leave([b EXCEPT !.text = "error", !.steps = Append(@, "error")])
  /\ Abandon(sending)

-----------------------------------------------------------------------------
(* New chat and previous chats *)

\* The messages of a chat, and no bubble but the one sendMessage works on.
Show(chat) ==
  /\ shown' = [chat |-> chat, turns |-> <<>>]
  /\ sessionId' = chat
  /\ bubble' = [r \in Turns |-> IF r = sending THEN bubble[r] ELSE Blank]
  /\ stray' = FALSE /\ told' = {}
KeepShown == UNCHANGED <<shown, sessionId, bubble, stray, told>>

\* MUTANT of StartNewChat: the messages go and the session stays.
StartNewChatKeeping ==
  /\ shown' = Empty
  /\ UNCHANGED <<sessionId, stray, turnVars, sending, wire, bubble, historyVars, told>>

StartNewChat ==
  /\ Show(None)
  /\ UNCHANGED <<turnVars, sending, wire, historyVars>>

\* The user picks a chat from the list, which may be out of date.
SelectHistory(s) ==
  /\ opening' = opening \cup {s}
  /\ UNCHANGED <<turnVars, sessionId, shown, sending, wire, bubble, deleting, stray, told>>

\* Its messages are there, or the request fails, as it does once it is deleted.
Selected(s) ==
  /\ s \in opening
  /\ opening' = opening \ {s}
  /\ (s \in stored /\ Show(s)) \/ KeepShown
  /\ UNCHANGED <<turnVars, sending, wire, deleting, clicks>>

DeleteHistory(s) ==
  /\ deleting' = deleting \cup {[chat |-> s, seen |-> sessionId, gone |-> FALSE]}
  /\ UNCHANGED <<turnVars, sessionId, shown, sending, wire, bubble, opening, stray, told>>

\* The server deletes the session.
Remove(d) ==
  /\ d \in deleting /\ ~d.gone
  /\ stored' = stored \ {d.chat}
  /\ deleting' = (deleting \ {d}) \cup {[d EXCEPT !.gone = TRUE]}
  /\ UNCHANGED <<named, used, phase, announced>>
  /\ UNCHANGED <<sessionId, shown, sending, wire, bubble, opening, clicks, stray, told>>

\* The answer: a chat that was open when the user deleted it is closed.  If the
\* deletion or its answer fails nothing is.
Deleted(d) ==
  /\ d \in deleting
  /\ deleting' = deleting \ {d}
  /\ (d.gone /\ d.seen = d.chat /\ Show(None)) \/ KeepShown
  /\ UNCHANGED <<turnVars, sending, wire, opening, clicks>>

-----------------------------------------------------------------------------

Sent == \E r \in Turns : Submit(r)
Answered == \E r \in Turns : \E chunk \in ChunkTypes : Answer(r, chunk)
Click ==
  /\ clicks < MaxClicks /\ clicks' = clicks + 1
  /\ \E s \in stored : SelectHistory(s) \/ DeleteHistory(s)
History ==
  \/ StartNewChat
  \/ \E s \in opening : Selected(s)
  \/ \E d \in deleting : Remove(d) \/ Deleted(d)

Next == Sent \/ Answered \/ Read \/ Finish \/ Break \/ Click \/ History

\* What the server and the panel do by themselves: an answer that was opened is
\* closed (module ChatStream), and what is sent is read.
Proceed == (sending # None /\ Answered) \/ Read \/ Finish

-----------------------------------------------------------------------------
(* Properties *)

\* Every variable of the panel stays in its range.
TypeOK ==
  /\ TurnsTypeOK
  /\ {sessionId, shown.chat} \subseteq ChatOrNone /\ sending \in Turns \cup {None}
  /\ clicks \in 0..MaxClicks /\ opening \subseteq Chats /\ told \subseteq Turns
  /\ deleting \subseteq [chat : Chats, seen : ChatOrNone, gone : BOOLEAN]
  /\ \A r \in Turns :
       /\ bubble[r].text \in {"none", "tokens", "message", "error"}
       /\ bubble[r].rows \subseteq [id : 1..MaxCalls, output : BOOLEAN]
       /\ bubble[r].streaming <=> (sending = r)

\* The session of what is on screen: that of the last message that got one.
IsConversation(session) ==
  LET heard == {i \in DOMAIN shown.turns : shown.turns[i] \in told}
  IN IF heard = {} THEN session = shown.chat
     ELSE \E i \in heard : /\ \A j \in heard : j <= i
                           /\ session = used[shown.turns[i]]

\* The next message goes on with the conversation on screen, whatever order
\* the answers of the server come in; the one exception is a turn that gets its
\* start chunk after the user has left it.
ContinuesWhatItShows == stray \/ IsConversation(sessionId)

\* A bubble with a final answer holds an answer the server has finished, with
\* the result of every tool call: no broken stream ends in one.
FinalIsComplete ==
  \A r \in Turns : \A i \in DOMAIN bubble[r].steps :
    bubble[r].steps[i] = "final_answer" =>
      /\ phase[r] = "closed"
      /\ bubble[r].rows = [id : 1..announced[r], output : {TRUE}]

\* The panel can be written in.
AtRest == sending = None
=============================================================================
