---------------------------- MODULE ChatHistory -----------------------------
(***************************************************************************)
(* The list of previous chats in ChatPanel.tsx, and the labels of the      *)
(* buttons that copy and export the evidence of an answer.                 *)
(*                                                                         *)
(* The list is loaded whenever its sheet is opened; requests to load it    *)
(* and to delete a chat overlap, and nothing puts their answers in order.  *)
(* What opening and deleting do to the conversation is in module           *)
(* ChatPanel.                                                              *)
(***************************************************************************)
EXTENDS SequencesExt, Naturals

CONSTANTS
  None,
  Chats,     \* the chats the server has at first
  Answers,   \* the answers on screen
  MaxClicks  \* bound: what the user does

VARIABLES
  stored,          \* the chats the server has
  showHistory, historyItems, historyLoading, historyError,
  lists,           \* list requests: what the server has answered, or None
  removals,        \* delete requests: the chat, and how far it is
  bundleStatus,    \* bundleStatus[m]: the label of an answer, or None
  timers,          \* the timeouts that take labels back
  copying,         \* answers whose bundle is on its way to the clipboard
  clicks,
  returned         \* history: deleted chats that an answer of before the
                   \* deletion put back, or whose deletion was not confirmed

listVars == <<stored, showHistory, historyItems, historyLoading, historyError,
              lists, removals, returned>>
bundleVars == <<bundleStatus, timers, copying>>
vars == <<listVars, bundleVars, clicks>>

Init ==
  /\ stored = Chats /\ showHistory = FALSE /\ historyItems = {}
  /\ historyLoading = FALSE /\ historyError = FALSE
  /\ lists = <<>> /\ removals = <<>> /\ returned = {} /\ clicks = 0
  /\ bundleStatus = [m \in Answers |-> None] /\ timers = <<>> /\ copying = {}

Click == clicks < MaxClicks /\ clicks' = clicks + 1

-----------------------------------------------------------------------------
(* The list *)

\* openHistory, and the effect that loads the list.
OpenHistory ==
  /\ Click /\ ~showHistory /\ showHistory' = TRUE
  /\ historyLoading' = TRUE /\ historyError' = FALSE
  /\ lists' = Append(lists, None)
  /\ UNCHANGED <<stored, historyItems, removals, returned, bundleVars>>

CloseHistory ==
  /\ showHistory /\ showHistory' = FALSE
  /\ UNCHANGED <<stored, historyItems, historyLoading, historyError, lists,
                 removals, returned, bundleVars, clicks>>

ServeList(i) ==
  /\ lists[i] = None /\ lists' = [lists EXCEPT ![i] = stored]
  /\ UNCHANGED <<stored, showHistory, historyItems, historyLoading, historyError,
                 removals, returned, bundleVars, clicks>>

\* loadHistory goes on; a request that has failed is an error over the old list.
Listed(i) ==
  /\ \/ /\ lists[i] # None
        /\ historyItems' = lists[i] /\ returned' = lists[i] \ stored
        /\ UNCHANGED historyError
     \/ historyError' = TRUE /\ UNCHANGED <<historyItems, returned>>
  /\ historyLoading' = FALSE /\ lists' = RemoveAt(lists, i)
  /\ UNCHANGED <<stored, showHistory, removals, bundleVars, clicks>>

\* handleDeleteHistory; the button stays while a deletion is in progress.
Delete(c) ==
  /\ Click /\ showHistory /\ ~historyLoading /\ ~historyError /\ c \in historyItems
  /\ removals' = Append(removals, [chat |-> c, at |-> "sent"])
  /\ UNCHANGED <<stored, showHistory, historyItems, historyLoading, historyError,
                 lists, returned, bundleVars>>

\* HistoryDeleteHandler: a chat that is not there is not found.
ServeRemoval(i) ==
  /\ removals[i].at = "sent"
  /\ removals' = [removals EXCEPT ![i].at =
                    IF removals[i].chat \in stored THEN "removed" ELSE "failed"]
  /\ stored' = stored \ {removals[i].chat}
  /\ UNCHANGED <<showHistory, historyItems, historyLoading, historyError, lists,
                 returned, bundleVars, clicks>>

\* The answer to a deletion is read, or the request fails.
Removed(i) ==
  LET c == removals[i].chat
  IN /\ \/ /\ removals[i].at = "removed" /\ historyItems' = historyItems \ {c}
           /\ UNCHANGED <<historyError, returned>>
        \/ /\ historyError' = TRUE /\ UNCHANGED historyItems
           /\ returned' = IF removals[i].at = "removed" THEN returned \cup {c} ELSE returned
     /\ removals' = RemoveAt(removals, i)
     /\ UNCHANGED <<stored, showHistory, historyLoading, lists, bundleVars, clicks>>

-----------------------------------------------------------------------------
(* The labels *)

\* markBundleStatus
Mark(m, status) ==
  /\ bundleStatus' = [bundleStatus EXCEPT ![m] = status]
  /\ timers' = Append(timers, [answer |-> m, status |-> status])

\* handleCopyEvidenceBundle waits for the clipboard.
Copy(m) ==
  /\ Click /\ m \notin copying /\ copying' = copying \cup {m}
  /\ UNCHANGED <<listVars, bundleStatus, timers>>

Copied(m) ==
  /\ m \in copying /\ copying' = copying \ {m}
  /\ \E status \in {"copied", "error"} : Mark(m, status)
  /\ UNCHANGED <<listVars, clicks>>

\* handleExportEvidenceBundle
Export(m) ==
  /\ Click /\ \E status \in {"exported", "error"} : Mark(m, status)
  /\ UNCHANGED <<listVars, copying>>

\* A timeout takes back the label it was started for; an earlier one of the
\* same kind takes it back early.
Expire(i) ==
  /\ timers' = RemoveAt(timers, i)
  /\ bundleStatus' = IF bundleStatus[timers[i].answer] = timers[i].status
                     THEN [bundleStatus EXCEPT ![timers[i].answer] = None] ELSE bundleStatus
  /\ UNCHANGED <<listVars, copying, clicks>>

Next ==
  \/ OpenHistory \/ CloseHistory
  \/ \E i \in DOMAIN lists : ServeList(i) \/ Listed(i)
  \/ \E c \in Chats : Delete(c)
  \/ \E i \in DOMAIN removals : ServeRemoval(i) \/ Removed(i)
  \/ \E m \in Answers : Copy(m) \/ Copied(m) \/ Export(m)
  \/ \E i \in DOMAIN timers : Expire(i)

\* Requests and the clipboard have an end, and timeouts go off.
Proceed ==
  \/ \E i \in DOMAIN lists : Listed(i)
  \/ \E i \in DOMAIN removals : Removed(i)
  \/ \E m \in Answers : Copied(m)
  \/ \E i \in DOMAIN timers : Expire(i)

\* Nothing is loading, and no label is left.
AtRest ==
  /\ ~historyLoading /\ lists = <<>> /\ removals = <<>>
  /\ \A m \in Answers : bundleStatus[m] = None

-----------------------------------------------------------------------------
(* Properties *)

TypeOK ==
  /\ {stored, historyItems, returned} \subseteq SUBSET Chats
  /\ {showHistory, historyLoading, historyError} \subseteq BOOLEAN
  /\ lists \in Seq((SUBSET Chats) \cup {None})
  /\ removals \in Seq([chat : Chats, at : {"sent", "removed", "failed"}])
  /\ bundleStatus \in [Answers -> {None, "copied", "exported", "error"}]
  /\ timers \in Seq([answer : Answers, status : {"copied", "exported", "error"}])
  /\ copying \subseteq Answers /\ clicks \in 0..MaxClicks

\* A chat that was deleted is offered again only by a list that was made before
\* the deletion and read after it, or when its deletion was not confirmed; and
\* a label is always some timeout's to take back.
ListsWhatIsStored ==
  /\ historyItems \subseteq stored \cup returned \cup {removals[i].chat : i \in DOMAIN removals}
  /\ \A m \in Answers : bundleStatus[m] # None =>
       \E i \in DOMAIN timers : timers[i] = [answer |-> m, status |-> bundleStatus[m]]
=============================================================================
