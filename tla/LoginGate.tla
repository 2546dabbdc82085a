----------------------------- MODULE LoginGate ------------------------------
(***************************************************************************)
(* The login check of ChatPanel.tsx over services/api.ts: the panel asks   *)
(* /api/me when it is mounted, every five seconds while it knows no user   *)
(* and is not asking, and when the user presses "Retry login".  A user     *)
(* once known stays: nothing looks again.                                  *)
(***************************************************************************)
EXTENDS Naturals

CONSTANT MaxUpsets  \* bound: the user logs in or out, or a check fails

VARIABLES
  loggedIn,     \* the browser has a Grafana session
  currentUser,  \* the panel knows who it is
  authLoading,  \* a check is in progress
  verdict,      \* what the server has said to it: "none", "user", "refused"
  upsets

vars == <<loggedIn, currentUser, authLoading, verdict, upsets>>

\* The first effect has asked.
Init ==
  /\ loggedIn \in BOOLEAN /\ currentUser = FALSE
  /\ authLoading = TRUE /\ verdict = "none" /\ upsets = 0

Upset == upsets < MaxUpsets /\ upsets' = upsets + 1

\* In the Grafana pane.
LogInOrOut ==
  /\ Upset /\ loggedIn' = ~loggedIn
  /\ UNCHANGED <<currentUser, authLoading, verdict>>

\* MUTANT of Ask: only the first check is made.
AskOnce == FALSE /\ UNCHANGED vars

\* The interval, or the button, which is disabled during a check.
Ask ==
  /\ ~currentUser /\ ~authLoading
  /\ authLoading' = TRUE
  /\ UNCHANGED <<loggedIn, currentUser, verdict, upsets>>

\* The server asks Grafana.
Serve ==
  /\ authLoading /\ verdict = "none"
  /\ verdict' = IF loggedIn THEN "user" ELSE "refused"
  /\ UNCHANGED <<loggedIn, currentUser, authLoading, upsets>>

\* No answer, or not JSON: the page of a proxy.
Fail ==
  /\ Upset /\ authLoading /\ verdict' = "refused"
  /\ UNCHANGED <<loggedIn, currentUser, authLoading>>

\* loadCurrentUser goes on.
Answered ==
  /\ verdict # "none"
  /\ currentUser' = (verdict = "user")
  /\ authLoading' = FALSE /\ verdict' = "none"
  /\ UNCHANGED <<loggedIn, upsets>>

Next == LogInOrOut \/ Ask \/ Serve \/ Fail \/ Answered

\* Timers go off, and requests have an end.
Proceed == Ask \/ Serve \/ Answered

\* A session that lasts is noticed, and the gate does not open without one.
AtRest == ~authLoading /\ (loggedIn => currentUser)

TypeOK ==
  /\ {loggedIn, currentUser, authLoading} \subseteq BOOLEAN
  /\ verdict \in {"none", "user", "refused"} /\ upsets \in 0..MaxUpsets
=============================================================================
