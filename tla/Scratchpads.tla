---------------------------- MODULE Scratchpads -----------------------------
(***************************************************************************)
(* Scratchpad dashboards: the tool scratchpad__upsert_panel of the agent   *)
(* (internal/agent/manager.go) over internal/dashboard/manager.go, and the *)
(* purger of cmd/assistant/main.go.                                        *)
(*                                                                         *)
(* Every call to Grafana or to the database is a step of its own.  A       *)
(* request makes its tool calls one after the other, requests overlap.     *)
(* A dashboard's uid is its place in the order of creation.  The unit of   *)
(* time is a day, and nothing lasts so long but the dashboards.            *)
(***************************************************************************)
EXTENDS Sequences, FiniteSets, Integers

CONSTANTS
  None,
  Sessions, Requests,
  User,              \* User[s]: the user of a session
  Ttl,               \* scratchpad_ttl_days
  MaxDays, MaxCalls, \* bounds: days; calls of the tool, in all
  MaxTrouble         \* bound: calls to Grafana or the database that fail, and
                     \* changes the users make in Grafana, in all

VARIABLES
  stored,      \* stored[s]: scratchpad_uid of the session's row
  dashboards,  \* the dashboards in Grafana, None once deleted
  folder,      \* the folder for them exists
  request,     \* request[r]: a chat request, or None
  day, due,    \* today, and whether the purger is to run today
  purger,      \* the run of the purger in progress, or None: its cutoff, what
               \* is left to delete, the dashboards as its search saw them
  calls, trouble,
  cleaned,     \* history: the cutoff of the last run that deleted all it should
  overlapped,  \* history: sessions that were given a scratchpad twice at once
  edited,      \* history: the dashboards with a change of their user
  clobbered    \* history: of these, the ones changed while a call had read them

historyVars == <<cleaned, overlapped, edited, clobbered>>
boundVars == <<calls, trouble>>
timeVars == <<day, due, purger>>
vars == <<stored, dashboards, folder, request, timeVars, boundVars, historyVars>>

Init ==
  /\ stored = [s \in Sessions |-> None] /\ dashboards = <<>> /\ folder = FALSE
  /\ request = [r \in Requests |-> None]
  /\ day = 0 /\ due = TRUE /\ purger = None
  /\ calls = 0 /\ trouble = 0
  /\ cleaned = 0 - Ttl /\ overlapped = {} /\ edited = {} /\ clobbered = {}

-----------------------------------------------------------------------------
(* Dashboards *)

Live == {uid \in DOMAIN dashboards : dashboards[uid] # None}

\* shortSessionID: all ids begin with the same eight characters, "session-".
Short(s) == "session-"
Title(s) == <<User[s], Short(s)>>

\* Grafana 10.4 refuses a second title in a folder, later versions do not.
Taken(s) == \E uid \in Live : Title(dashboards[uid].session) = Title(s)

\* buildTags of a new dashboard; it is told from others by its tags.
New(s) == [session |-> s, used |-> day, saved |-> day, edited |-> FALSE]

\* SearchDashboards by the tags of the session.
Hits(s) == {uid \in Live : dashboards[uid].session = s}

\* MUTANT of Merged: the old tag stays, in front of the new one.
MergedBehind(model) == [model EXCEPT !.saved = day]

\* mergeTags: the tag with the time of the last use replaces the one before.
\* (The tag of all scratchpads is added once more; nothing counts the tags.)
Merged(model) == [model EXCEPT !.used = day, !.saved = day]

-----------------------------------------------------------------------------
(* A call of the tool *)

In(r, place) == request[r] # None /\ request[r].pc = place
Go(r, new) == request' = [request EXCEPT ![r] = new]
To(r, place) == Go(r, [request[r] EXCEPT !.pc = place])

Fault == trouble < MaxTrouble /\ trouble' = trouble + 1

\* The call ends, with a result or an error, and the request goes on.
Return(r) == Go(r, [request[r] EXCEPT !.pc = "ready", !.uid = None, !.model = None])
NotFound(r) ==
  Go(r, [request[r] EXCEPT !.pc = "ready", !.uid = None, !.model = None, !.missed = TRUE])

Fails(r) == Fault /\ Return(r)

\* HandleChat loads the session.
Begin(r, s) ==
  /\ request[r] = None /\ calls < MaxCalls
  /\ Go(r, [session |-> s, pc |-> "ready", known |-> stored[s], uid |-> None, model |-> None,
            missed |-> FALSE, late |-> stored[s] # None /\ stored[s] \notin Live])
  /\ UNCHANGED <<stored, dashboards, folder, timeVars, boundVars, historyVars>>

\* upsert_panel: what the request knows is used as it is.
Call(r) ==
  /\ In(r, "ready") /\ calls < MaxCalls /\ calls' = calls + 1
  /\ Go(r, [request[r] EXCEPT !.uid = request[r].known,
                              !.pc = IF request[r].known = None THEN "search" ELSE "read"])
  /\ UNCHANGED <<stored, dashboards, folder, timeVars, trouble, historyVars>>

Creating(s) == {r \in Requests : request[r] # None /\ request[r].session = s
                                 /\ request[r].pc \in {"folder", "mkfolder", "create"}}

\* GetOrCreateScratchpad looks for one; it takes the first of several.
Search(r) ==
  LET s == request[r].session
  IN /\ In(r, "search")
     /\ \/ /\ \E uid \in Hits(s) : Go(r, [request[r] EXCEPT !.pc = "store", !.uid = uid])
           /\ UNCHANGED <<trouble, overlapped>>
        \/ /\ Hits(s) = {} /\ To(r, "folder") /\ UNCHANGED trouble
           /\ overlapped' = IF Creating(s) = {} THEN overlapped ELSE overlapped \cup {s}
        \/ Fails(r) /\ UNCHANGED overlapped
     /\ UNCHANGED <<stored, dashboards, folder, timeVars, calls, cleaned, edited, clobbered>>

\* ensureFolder
Folder(r) ==
  /\ In(r, "folder")
  /\ \/ To(r, IF folder THEN "create" ELSE "mkfolder") /\ UNCHANGED trouble
     \/ Fails(r)
  /\ UNCHANGED <<stored, dashboards, folder, timeVars, calls, historyVars>>

\* CreateFolder, which is refused when somebody else was faster.
MakeFolder(r) ==
  /\ In(r, "mkfolder")
  /\ \/ folder' = TRUE /\ To(r, "create") /\ UNCHANGED trouble
     \/ folder /\ Return(r) /\ UNCHANGED <<trouble, folder>>
     \/ folder' \in {folder, TRUE} /\ Fails(r)
  /\ UNCHANGED <<stored, dashboards, timeVars, calls, historyVars>>

\* CreateDashboard without overwrite; its answer may get lost.
Create(r) ==
  LET s == request[r].session
  IN /\ In(r, "create")
     /\ \/ /\ dashboards' = Append(dashboards, New(s)) /\ UNCHANGED trouble
           /\ Go(r, [request[r] EXCEPT !.pc = "store", !.uid = Len(dashboards) + 1])
        \/ Taken(s) /\ Return(r) /\ UNCHANGED <<trouble, dashboards>>
        \/ dashboards' \in {dashboards, Append(dashboards, New(s))} /\ Fails(r)
     /\ UNCHANGED <<stored, folder, timeVars, calls, historyVars>>

\* UpdateSessionScratchpad: a failure is logged, and the next call searches again.
Store(r) ==
  LET uid == request[r].uid
  IN /\ In(r, "store")
     /\ \/ /\ stored' = [stored EXCEPT ![request[r].session] = uid]
           /\ Go(r, [request[r] EXCEPT !.pc = "read", !.known = uid]) /\ UNCHANGED trouble
        \/ Fault /\ To(r, "read") /\ UNCHANGED stored
     /\ UNCHANGED <<dashboards, folder, timeVars, calls, historyVars>>

\* UpdatePanel: GetDashboard
Read(r) ==
  LET uid == request[r].uid
  IN /\ In(r, "read")
     /\ \/ /\ uid \in Live /\ UNCHANGED trouble
           /\ Go(r, [request[r] EXCEPT !.pc = "save", !.model = dashboards[uid]])
        \/ uid \notin Live /\ NotFound(r) /\ UNCHANGED trouble
        \/ Fails(r)
     /\ UNCHANGED <<stored, dashboards, folder, timeVars, calls, historyVars>>

\* The model that was read, with the panel and the tags changed.
Saved(r) == dashboards' = [dashboards EXCEPT ![request[r].uid] = Merged(request[r].model)]

\* UpdateDashboard overwrites whatever is there; the model has the id of its
\* dashboard, and one that was deleted meanwhile is not found.
Save(r) ==
  /\ In(r, "save")
  /\ \/ request[r].uid \in Live /\ Saved(r) /\ Return(r) /\ UNCHANGED trouble
     \/ request[r].uid \notin Live /\ NotFound(r) /\ UNCHANGED <<dashboards, trouble>>
     \/ request[r].uid \in Live /\ Saved(r) /\ Fails(r)
     \/ Fails(r) /\ UNCHANGED dashboards
  /\ UNCHANGED <<stored, folder, timeVars, calls, historyVars>>

\* The request is over.
End(r) ==
  /\ In(r, "ready") /\ Go(r, None)
  /\ UNCHANGED <<stored, dashboards, folder, timeVars, boundVars, historyVars>>

Step(r) ==
  \/ Search(r) \/ Folder(r) \/ MakeFolder(r) \/ Create(r) \/ Store(r)
  \/ Read(r) \/ Save(r) \/ End(r)

-----------------------------------------------------------------------------
(* The user in Grafana *)

Readers(uid) == {r \in Requests : In(r, "save") /\ request[r].uid = uid}

\* A panel of the user's own.
Edit(uid) ==
  /\ trouble < MaxTrouble /\ trouble' = trouble + 1 /\ uid \in Live
  /\ dashboards' = [dashboards EXCEPT ![uid].edited = TRUE]
  /\ edited' = edited \cup {uid}
  /\ clobbered' = IF Readers(uid) = {} THEN clobbered ELSE clobbered \cup {uid}
  /\ UNCHANGED <<stored, folder, request, timeVars, calls, cleaned, overlapped>>

-----------------------------------------------------------------------------
(* startScratchpadPurger *)

Cutoff == day - Ttl

\* What the purger finds by the tag of all scratchpads, and is to delete.
List ==
  /\ due /\ purger = None /\ due' = FALSE
  /\ \/ /\ purger' = [cutoff |-> Cutoff, whole |-> TRUE, seen |-> dashboards,
                      left |-> {uid \in Live : dashboards[uid].used < Cutoff}]
        /\ UNCHANGED trouble
     \/ Fault /\ UNCHANGED purger
  /\ UNCHANGED <<stored, dashboards, folder, request, day, calls, historyVars>>

Gone(uid) == dashboards' = [dashboards EXCEPT ![uid] = None]

\* What was found is deleted, whatever was done to it since; the answer may
\* get lost.
Delete(uid) ==
  /\ purger # None /\ uid \in purger.left
  /\ \/ /\ Gone(uid) /\ UNCHANGED trouble
        /\ purger' = [purger EXCEPT !.left = @ \ {uid}]
     \/ /\ Fault /\ (Gone(uid) \/ UNCHANGED dashboards)
        /\ purger' = [purger EXCEPT !.left = @ \ {uid}, !.whole = FALSE]
  /\ UNCHANGED <<stored, folder, request, day, due, calls, historyVars>>

Purged ==
  /\ purger # None /\ purger.left = {} /\ purger' = None
  /\ cleaned' = IF purger.whole THEN purger.cutoff ELSE cleaned
  /\ UNCHANGED <<stored, dashboards, folder, request, day, due, boundVars,
                 overlapped, edited, clobbered>>

Purge == List \/ (\E uid \in DOMAIN dashboards : Delete(uid)) \/ Purged

PurgerRests == ~due /\ purger = None

\* A day passes.
Tomorrow ==
  /\ day < MaxDays /\ day' = day + 1 /\ due' = TRUE
  /\ PurgerRests /\ \A r \in Requests : request[r] = None
  /\ UNCHANGED <<stored, dashboards, folder, request, purger, boundVars, historyVars>>

Next ==
  \/ \E r \in Requests : Step(r) \/ Call(r) \/ \E s \in Sessions : Begin(r, s)
  \/ \E uid \in DOMAIN dashboards : Edit(uid)
  \/ Purge \/ Tomorrow

-----------------------------------------------------------------------------
(* Properties *)

Dashboards == [session : Sessions, used : 0..MaxDays, saved : 0..MaxDays, edited : BOOLEAN]
Places == {"ready", "search", "folder", "mkfolder", "create", "store", "read", "save"}

Chats == [session : Sessions, pc : Places, known : Nat \cup {None}, uid : Nat \cup {None},
          model : Dashboards \cup {None}, missed : BOOLEAN, late : BOOLEAN]
Runs == [cutoff : Int, whole : BOOLEAN, seen : Seq(Dashboards \cup {None}), left : SUBSET Nat]

TypeOK ==
  /\ dashboards \in Seq(Dashboards \cup {None})
  /\ stored \in [Sessions -> DOMAIN dashboards \cup {None}]
  /\ request \in [Requests -> Chats \cup {None}]
  /\ \A r \in Requests : request[r] # None =>
       /\ {request[r].known, request[r].uid} \subseteq DOMAIN dashboards \cup {None}
       /\ request[r].pc \in {"store", "read", "save"} => request[r].uid # None
       /\ request[r].pc = "save" => request[r].model # None
  /\ purger \in Runs \cup {None} /\ purger # None => purger.left \subseteq DOMAIN purger.seen
  /\ {folder, due} \subseteq BOOLEAN /\ day \in 0..MaxDays
  /\ overlapped \subseteq Sessions /\ clobbered \subseteq edited

\* A session's scratchpad is its own, and it has one, unless two requests
\* looked for it in vain at once.
OnePerSession ==
  /\ \A s \in Sessions : stored[s] \in Live => dashboards[stored[s]].session = s
  /\ \A s \in Sessions \ overlapped : Cardinality(Hits(s)) <= 1

\* "automatically deleted after a configurable period of inactivity": what the
\* purger deletes was there when it looked, and had not been saved for that
\* long; what is saved after it looked goes all the same, and the property does
\* not ask that it be spared.  And nothing older than its lifetime outlives a
\* run in which every call succeeded.
PurgesTheUnused ==
  /\ purger # None => \A uid \in purger.left :
       purger.seen[uid] # None /\ purger.seen[uid].saved < purger.cutoff
  /\ \A uid \in Live : dashboards[uid].saved >= cleaned

\* A call overwrites the whole dashboard, but loses a change of its user only
\* if it was made between its reading and its writing.
EditsSurvive == \A uid \in (edited \ clobbered) \cap Live : dashboards[uid].edited

KeepsScratchpads == OnePerSession /\ PurgesTheUnused /\ EditsSurvive

\* "the assistant checks if a scratchpad dashboard exists for the current
\* session", "If none exists, it creates a new dashboard"
\* (docs/ARTIFACTS_AND_SCRATCHPAD.md:79): a request that begins when the
\* dashboard is gone does not fail for want of it.
CreatesIfNone ==
  \A r \in Requests : request[r] # None /\ request[r].late => ~request[r].missed
=============================================================================
