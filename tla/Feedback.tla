------------------------------ MODULE Feedback ------------------------------
(***************************************************************************)
(* Ratings of answers: hooks/useFeedback.ts, components/FeedbackModal.tsx, *)
(* the button and the dialog in ChatPanel.tsx, and the rows that           *)
(* internal/api/feedback.go adds for them.                                 *)
(*                                                                         *)
(* Each browser tab has a panel of its own; all of them write the whole of *)
(* their state to one key of localStorage.  A draft is its rating, the     *)
(* comment goes with it.  A tab without an entry for a message shows the   *)
(* fresh one.  The session is stored and its owner is logged in.           *)
(***************************************************************************)
EXTENDS Sequences, Naturals

CONSTANTS
  None,
  Tabs, Messages,
  MaxRating,
  MaxActs     \* bound: what the users do

VARIABLES
  storage,      \* localStorage
  loaded,       \* loaded[t]: what a tab that mounts has read of it, else None
  state,        \* state[t]: the entries of a tab, None when it is closed
  modal,        \* modal[t]: the message whose dialog is open
  submitting,   \* submitting[t]: the submission in progress
  rows,         \* rows[m]: the ratings in the table user_feedback
  acts,
  lost,         \* history: lost[m]: rows whose submission was not acknowledged
  edited,       \* history: messages rated again while they were submitted
  exposed       \* history: two tabs were open, or one closed before it had
                \* written back what it had read

tabVars == <<loaded, state, modal, submitting>>
historyVars == <<lost, edited, exposed>>
vars == <<storage, tabVars, rows, acts, historyVars>>

Fresh == [rating |-> 0, submitted |-> FALSE]
Nothing == [m \in Messages |-> Fresh]

Init ==
  /\ storage = Nothing
  /\ loaded = [t \in Tabs |-> None] /\ state = [t \in Tabs |-> None]
  /\ modal = [t \in Tabs |-> None] /\ submitting = [t \in Tabs |-> None]
  /\ rows = [m \in Messages |-> <<>>] /\ acts = 0
  /\ lost = [m \in Messages |-> 0] /\ edited = {} /\ exposed = FALSE

Act == acts < MaxActs /\ acts' = acts + 1

\* A new state of a tab is written by the effect that depends on it.
SetState(t, s) == state' = [state EXCEPT ![t] = s] /\ storage' = s

\* MUTANT of Mount: the effect that writes comes before the one that reads.
MountWriting(t) ==
  /\ Act /\ state[t] = None
  /\ SetState(t, Nothing)
  /\ loaded' = [loaded EXCEPT ![t] = Nothing]
  /\ exposed' = (exposed \/ \E u \in Tabs : state[u] # None)
  /\ UNCHANGED <<modal, submitting, rows, lost, edited>>

\* The first effects read the storage, and write the empty state over it.
Mount(t) ==
  /\ Act /\ state[t] = None
  /\ SetState(t, Nothing)
  /\ loaded' = [loaded EXCEPT ![t] = storage]
  /\ exposed' = (exposed \/ \E u \in Tabs : state[u] # None)
  /\ UNCHANGED <<modal, submitting, rows, lost, edited>>

\* The next render has what was read.
Load(t) ==
  /\ loaded[t] # None
  /\ SetState(t, loaded[t])
  /\ loaded' = [loaded EXCEPT ![t] = None]
  /\ UNCHANGED <<modal, submitting, rows, acts, historyVars>>

\* The entry of an answer, as the dialog and the button see it.
Draft(t, m) == state[t][m]

OpenModal(t, m) ==
  /\ Act /\ state[t] # None /\ loaded[t] = None /\ modal[t] = None
  /\ ~Draft(t, m).submitted
  /\ modal' = [modal EXCEPT ![t] = m]
  /\ UNCHANGED <<storage, loaded, state, submitting, rows, historyVars>>

CloseModal(t) ==
  /\ modal[t] # None
  /\ modal' = [modal EXCEPT ![t] = None]
  /\ UNCHANGED <<storage, loaded, state, submitting, rows, acts, historyVars>>

\* updateDraft, which nothing keeps from a draft that is being submitted.
Rate(t, value) ==
  /\ Act /\ modal[t] # None /\ ~Draft(t, modal[t]).submitted
  /\ Draft(t, modal[t]).rating # value
  /\ SetState(t, [state[t] EXCEPT ![modal[t]].rating = value])
  /\ edited' = IF submitting[t] # None THEN edited \cup {modal[t]} ELSE edited
  /\ UNCHANGED <<loaded, modal, submitting, rows, lost, exposed>>

\* submitFeedback
Submit(t) ==
  /\ Act /\ modal[t] # None /\ submitting[t] = None
  /\ ~Draft(t, modal[t]).submitted /\ Draft(t, modal[t]).rating # 0
  /\ submitting' = [submitting EXCEPT ![t] =
                   [message |-> modal[t], rating |-> Draft(t, modal[t]).rating, at |-> "sent"]]
  /\ UNCHANGED <<storage, loaded, state, modal, rows, historyVars>>

\* FeedbackHandler: every submission is a row of its own.
Store(t) ==
  /\ submitting[t] # None /\ submitting[t].at = "sent"
  /\ rows' = [rows EXCEPT ![submitting[t].message] = Append(@, submitting[t].rating)]
  /\ submitting' = [submitting EXCEPT ![t].at = "stored"]
  /\ UNCHANGED <<storage, loaded, state, modal, acts, historyVars>>

\* The answer is read: the entry is submitted, whatever it says by now, and
\* whichever dialog is open is closed.
Acknowledge(t) ==
  /\ submitting[t] # None /\ submitting[t].at = "stored"
  /\ SetState(t, [state[t] EXCEPT ![submitting[t].message].submitted = TRUE])
  /\ modal' = [modal EXCEPT ![t] = None]
  /\ submitting' = [submitting EXCEPT ![t] = None]
  /\ UNCHANGED <<loaded, rows, acts, historyVars>>

Unacknowledged(t) ==
  IF submitting[t] # None /\ submitting[t].at = "stored"
  THEN [lost EXCEPT ![submitting[t].message] = @ + 1] ELSE lost

\* The request fails, or its answer is lost: the user may try again.
Fail(t) ==
  /\ submitting[t] # None
  /\ submitting' = [submitting EXCEPT ![t] = None]
  /\ lost' = Unacknowledged(t)
  /\ UNCHANGED <<storage, loaded, state, modal, rows, acts, edited, exposed>>

CloseTab(t) ==
  /\ state[t] # None
  /\ state' = [state EXCEPT ![t] = None] /\ loaded' = [loaded EXCEPT ![t] = None]
  /\ modal' = [modal EXCEPT ![t] = None] /\ submitting' = [submitting EXCEPT ![t] = None]
  /\ lost' = Unacknowledged(t)
  /\ exposed' = (exposed \/ loaded[t] # None)
  /\ UNCHANGED <<storage, rows, acts, edited>>

Answered(t) == Acknowledge(t) \/ Fail(t)

Next ==
  \E t \in Tabs :
    \/ Mount(t) \/ Load(t) \/ CloseModal(t) \/ CloseTab(t)
    \/ \E m \in Messages : OpenModal(t, m)
    \/ \E value \in 1..MaxRating : Rate(t, value)
    \/ Submit(t) \/ Store(t) \/ Answered(t)

\* Panels render, and requests have an end.
Proceed == \E t \in Tabs : Load(t) \/ Answered(t)

AtRest == \A t \in Tabs : loaded[t] = None /\ submitting[t] = None

-----------------------------------------------------------------------------
(* Properties *)

Entries == [Messages -> [rating : 0..MaxRating, submitted : BOOLEAN]]
Submissions == [message : Messages, rating : 1..MaxRating, at : {"sent", "stored"}]

TypeOK ==
  /\ storage \in Entries
  /\ {loaded, state} \subseteq [Tabs -> Entries \cup {None}]
  /\ modal \in [Tabs -> Messages \cup {None}]
  /\ submitting \in [Tabs -> Submissions \cup {None}]
  /\ rows \in [Messages -> Seq(1..MaxRating)]
  /\ acts \in 0..MaxActs /\ lost \in [Messages -> Nat] /\ edited \subseteq Messages
  /\ exposed \in BOOLEAN

Panels == {state[t] : t \in {u \in Tabs : state[u] # None}} \cup {storage}

\* "Thanks! Your feedback has been recorded." (FeedbackModal.tsx:43): the
\* server has what an entry that is submitted shows, unless it was rated again
\* while it was on its way.
SubmittedIsRecorded ==
  \A s \in Panels, m \in Messages :
    s[m].submitted => \E i \in DOMAIN rows[m] : m \in edited \/ rows[m][i] = s[m].rating

\* An answer is rated once, and once more for each submission the user had to
\* repeat because its answer was lost; what was acknowledged survives a reload.
\* Two tabs at a time may each rate it, and forget what the other one did.
RecordedOnce ==
  ~exposed =>
    \A m \in Messages :
      LET mine == {t \in Tabs : submitting[t] # None /\ submitting[t].at = "stored"
                                /\ submitting[t].message = m}
          kept == \E s \in Panels : s[m].submitted
          read == \E t \in Tabs : loaded[t] # None /\ loaded[t][m].submitted
      IN Len(rows[m]) = lost[m] + IF kept \/ read \/ mine # {} THEN 1 ELSE 0
=============================================================================
