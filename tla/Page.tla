-------------------------------- MODULE Page --------------------------------
(***************************************************************************)
(* The page of the assistant around the conversation itself: Grafana in    *)
(* its pane, the login check, the context of a message, an answer as it is *)
(* rendered, its feedback, and the list of previous chats.                 *)
(*                                                                         *)
(* The parts share no state (what the pane hands to the chat as            *)
(* dashboardContext is free to change in ContextPicker), so one part at a  *)
(* time is enough.                                                         *)
(***************************************************************************)
EXTENDS Integers, Sequences

CONSTANTS
  None,
  Base, Pages, MaxVisits,           \* of module GrafanaPane
  MaxUpsets,                        \* of module LoginGate
  Hits, FirstTab, MaxMoves,         \* of module ContextPicker
  Lines, MaxLines,                  \* of module Bubble
  Tabs, Messages, MaxRating, MaxActs,  \* of module Feedback
  Chats, Answers, MaxClicks         \* of module ChatHistory

VARIABLES
  part,  \* "pane", "gate", "picker", "bubble", "feedback" or "history"
  src, page, lastUrl, fetching, context, lastNavigate, visits, newest, behind,
  loggedIn, currentUser, authLoading, verdict, upsets,
  open, tab, query, highlight, results, loading, timer, inflight, cache,
  chips, captured, isLoading, known, moves, last, picked, overtaken,
  content, isStreaming, artifact,
  storage, loaded, state, modal, submitting, rows, acts, lost, edited, exposed,
  stored, showHistory, historyItems, historyLoading, historyError, lists,
  removals, bundleStatus, timers, copying, clicks, returned

Pane == INSTANCE GrafanaPane
Gate == INSTANCE LoginGate
Picker == INSTANCE ContextPicker
Answer == INSTANCE Bubble
Rating == INSTANCE Feedback
History == INSTANCE ChatHistory

paneVars == <<src, page, lastUrl, fetching, context, lastNavigate, visits, newest, behind>>
gateVars == <<loggedIn, currentUser, authLoading, verdict, upsets>>
pickerVars == <<open, tab, query, highlight, results, loading, timer, inflight, cache,
                chips, captured, isLoading, known, moves, last, picked, overtaken>>
bubbleVars == <<content, isStreaming, artifact>>
feedbackVars == <<storage, loaded, state, modal, submitting, rows, acts, lost, edited, exposed>>
historyVars == <<stored, showHistory, historyItems, historyLoading, historyError, lists,
                 removals, bundleStatus, timers, copying, clicks, returned>>
vars == <<part, paneVars, gateVars, pickerVars, bubbleVars, feedbackVars, historyVars>>

\* The variables of the other parts keep their first value, whichever it is.
Init ==
  /\ part \in {"pane", "gate", "picker", "bubble", "feedback", "history"}
  /\ Pane!Init /\ Gate!Init /\ Picker!Init /\ Answer!Init /\ Rating!Init /\ History!Init
  /\ part = "gate" \/ ~loggedIn

OnPane == /\ part = "pane"
          /\ UNCHANGED <<part, gateVars, pickerVars, bubbleVars, feedbackVars, historyVars>>
OnGate == /\ part = "gate"
          /\ UNCHANGED <<part, paneVars, pickerVars, bubbleVars, feedbackVars, historyVars>>
OnPicker == /\ part = "picker"
            /\ UNCHANGED <<part, paneVars, gateVars, bubbleVars, feedbackVars, historyVars>>
OnBubble == /\ part = "bubble"
            /\ UNCHANGED <<part, paneVars, gateVars, pickerVars, feedbackVars, historyVars>>
OnFeedback == /\ part = "feedback"
              /\ UNCHANGED <<part, paneVars, gateVars, pickerVars, bubbleVars, historyVars>>
OnHistory == /\ part = "history"
             /\ UNCHANGED <<part, paneVars, gateVars, pickerVars, bubbleVars, feedbackVars>>

Next ==
  \/ OnPane /\ Pane!Next
  \/ OnGate /\ Gate!Next
  \/ OnPicker /\ Picker!Next
  \/ OnBubble /\ Answer!Next
  \/ OnFeedback /\ Rating!Next
  \/ OnHistory /\ History!Next

\* Timers of the browser go off, effects run, and requests have an end.
Fairness ==
  /\ WF_vars(OnPane /\ Pane!Proceed)
  /\ WF_vars(OnGate /\ Gate!Proceed)
  /\ WF_vars(OnPicker /\ Picker!Proceed)
  /\ WF_vars(OnFeedback /\ Rating!Proceed)
  /\ WF_vars(OnHistory /\ History!Proceed)

Spec == Init /\ [][Next]_vars /\ Fairness

\* The base path is not that of Grafana, a page of Grafana is not foreign, and
\* no link to a page without "grafana" before it looks like one with it.
ASSUME PageAssumption ==
  /\ {MaxVisits, MaxUpsets, MaxMoves, MaxLines, MaxRating, MaxActs, MaxClicks} \subseteq Nat
  /\ Base \in Seq(STRING) /\ (Base = <<>> \/ Base[1] # "grafana")
  /\ Pane!Foreign \notin Pages
  /\ \A u \in Pages :
       /\ u.path \in Seq(STRING) /\ Len(u.path) > 1 /\ Head(u.path) = "grafana"
       /\ u.path[2] # "grafana" /\ ~Pane!IsPrefix(Base \o <<"grafana">>, Tail(u.path))
  /\ Picker!Keys = Picker!EntityTabs \X Picker!Queries /\ <<FirstTab, Picker!Blank>> \in Picker!Keys
  /\ \A key \in Picker!Keys : Hits[key] \in Seq(Picker!Entities)
  /\ Lines \subseteq [k : Answer!Kinds, indent : BOOLEAN]

\* What is not there is like nothing that is.
ASSUME NoneAssumption ==
  None \notin Pane!Contexts \cup Picker!Keys \cup Rating!Entries \cup Rating!Submissions

-----------------------------------------------------------------------------
(* Properties *)

\* Every variable of the page stays in its range; the iframe stays inside the
\* Grafana below the base path, whatever form a link has (module GrafanaPane).
TypeOK ==
  /\ Pane!TypeOK /\ Gate!TypeOK /\ Picker!TypeOK
  /\ Answer!TypeOK /\ Rating!TypeOK /\ History!TypeOK

\* The picker shows what it searches for (module ContextPicker).
ShowsItsSearch == Picker!ShowsItsSearch

\* The context of a message is that of the page polled last that has one, and
\* what was picked for it (modules GrafanaPane and ContextPicker).
CarriesContext == Pane!ContextFollows /\ Picker!CarriesItsOwn

\* "Pass selected context in API request payload" (module ContextPicker).
SendsSelection == Picker!SendsSelection

\* A message can be rendered while it comes (module Bubble).
RendersIncrementally == Answer!RendersIncrementally

\* What is settled in an answer stays while the rest comes, artifacts that are as
\* the schema says are shown, and nothing else of it is lost; only an unfinished
\* item stops the renderer (module Bubble).
AnswersAreShown ==
  Answer!OnlyUnfinishedStops /\ Answer!SettledStays /\ Answer!ArtifactsAreShown

\* "Your feedback has been recorded": what is submitted is in the table, and
\* once; and the list of chats is what the server has (modules Feedback and
\* ChatHistory).
ShowsWhatIsStored ==
  /\ Rating!SubmittedIsRecorded /\ Rating!RecordedOnce
  /\ History!ListsWhatIsStored

\* A lasting login is noticed; polls, searches, submissions and requests end,
\* and labels fade: all parts come to rest again and again.
Settles ==
  []<>(/\ part = "pane" => Pane!AtRest
       /\ part = "gate" => Gate!AtRest
       /\ Picker!AtRest /\ Rating!AtRest /\ History!AtRest)
=============================================================================
