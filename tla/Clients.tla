------------------------------ MODULE Clients -------------------------------
(***************************************************************************)
(* The clients of the assistant: the chat panel in the browser, the        *)
(* ChatOps bridge in the server, and the provider that brings it posts.    *)
(* The sessions of the panel and of the bridge belong to different users,  *)
(* and the bridge takes a post whenever it comes: they share nothing, so   *)
(* one part at a time is enough.                                           *)
(***************************************************************************)
EXTENDS ChatTurns

CONSTANTS
  MaxClicks, Buffer,  \* of module ChatPanel
  MaxDrops            \* of module Mattermost

ASSUME ClientAssumption ==
  {MaxClicks, Buffer, MaxDrops} \subseteq Nat /\ Buffer > 0

VARIABLES
  part,                                              \* "panel", "ops" or "mattermost"
  sessionId, shown, sending, wire, bubble,           \* of ChatPanel
  opening, deleting, clicks, stray, told,
  root, task, entries, stale, chunks, forked,        \* of ChatOps
  listener, ctx, stop, wsConn, link, drops, events,  \* of Mattermost
  posted, handled, replied

Panel == INSTANCE ChatPanel
Ops == INSTANCE ChatOps
Provider == INSTANCE Mattermost WITH Posts <- Turns

panelVars == <<sessionId, shown, sending, wire, bubble, opening, deleting,
               clicks, stray, told>>
opsVars == <<root, task, entries, stale, chunks, forked>>
providerVars == <<listener, ctx, stop, wsConn, link, drops, events, posted,
                  handled, replied>>
vars == <<part, turnVars, panelVars, opsVars, providerVars>>

\* The variables of the other parts keep their first value.
Init ==
  /\ part \in {"panel", "ops", "mattermost"}
  /\ Panel!Init /\ Ops!Init /\ Provider!Init

OnPanel == part = "panel" /\ UNCHANGED <<part, opsVars, providerVars>>
OnOps == part = "ops" /\ UNCHANGED <<part, panelVars, providerVars>>
OnProvider == part = "mattermost" /\ UNCHANGED <<part, turnVars, panelVars, opsVars>>

Next ==
  \/ Panel!Next /\ OnPanel
  \/ Ops!Next /\ OnOps
  \/ Provider!Next /\ OnProvider

\* The panel runs and its answers come; the goroutines of the server run.
Fairness ==
  /\ WF_vars(Panel!Proceed /\ OnPanel)
  /\ WF_vars(Ops!Proceed /\ OnOps)
  /\ WF_vars(Provider!Listen /\ OnProvider)

Spec == Init /\ [][Next]_vars /\ Fairness

-----------------------------------------------------------------------------
(* Properties *)

\* Every variable of the clients stays in its range.
TypeOK == part \in {"panel", "ops", "mattermost"} /\ Panel!TypeOK /\ Ops!TypeOK /\ Provider!TypeOK

\* The panel goes on with the conversation it shows (module ChatPanel).
ContinuesWhatItShows == Panel!ContinuesWhatItShows

\* A final answer in the panel is a finished one (module ChatPanel).
FinalIsComplete == Panel!FinalIsComplete

\* Posts share a session just when they share a thread, and a reply is the whole
\* answer, once (module ChatOps).
ThreadsAreAnswered == Ops!ThreadsAreConversations /\ Ops!ReplyIsTheAnswer

\* The bot does not answer itself (module Mattermost).
NoEcho == Provider!NoEcho

\* Every message to a client is dealt with in the end, and the provider stops
\* when it is told to: all parts come to rest again and again.
Settles == []<>(Panel!AtRest /\ Ops!AtRest /\ Provider!AtRest)
=============================================================================
