------------------------------ MODULE Sessions ------------------------------
(***************************************************************************)
(* Chat sessions in SQLite: internal/storage/sqlite.go over the connection *)
(* pool of database/sql, and everything that stores, reads or deletes      *)
(* sessions through it: the chat handler (agent/manager.go), the history   *)
(* and feedback handlers (internal/api) and the retention purger (main.go).*)
(*                                                                         *)
(* A process runs one statement after another.  Each statement takes a     *)
(* connection from the pool, runs atomically, and gives the connection     *)
(* back.  No two statements share a transaction, and a setting made by     *)
(* PRAGMA foreign_keys holds for the connection it was made on: all that   *)
(* distinguishes connections is whether it is "on" or "off".               *)
(*                                                                         *)
(* The retention time is long compared to a request: it may run out for    *)
(* conversations of an earlier run, and for nothing stored in this one.    *)
(* Texts, titles and the list of sessions are left out.                    *)
(***************************************************************************)
EXTENDS Integers, Sequences, FiniteSets

CONSTANTS
  Chats,       \* chat requests; each request is made once
  Others,      \* requests to the history and feedback handlers
  Purger,      \* the retention purger
  Earlier,     \* stands for the requests of an earlier run of the server
  Stored,      \* conversations of that run
  Users,
  None,        \* no user
  MaxIdle,     \* idle connections database/sql keeps (its default is 2)
  MaxFaults    \* bound: restarts, and statements that fail by themselves
               \* (the database is busy, the request is cancelled)

Requests == Chats \cup Others
Processes == Requests \cup {Purger}

ASSUME ProcessAssumption ==
  Chats \cap Others = {} /\ Purger \notin Requests /\ Earlier \notin Processes
ASSUME UserAssumption == None \notin Users
ASSUME SessionBounds ==
  /\ {Stored, MaxIdle, MaxFaults} \subseteq Nat
  /\ MaxIdle > 0

VARIABLES
  \* the pool
  free,       \* idle connections; the last one is taken first
  conn,       \* conn[p]: the connection p holds
  shared,     \* history: has more than one connection been open at once?
  \* the tables
  live,       \* ids in the sessions table
  owner,      \* owner[s], for every id handed out so far
  fresh,      \* ids whose updated_at is younger than the retention time
  rows,       \* messages, audit entries and feedback
  \* the processes
  pc,         \* the statement p is at
  kind,       \* what kind of request p is
  user,       \* whose
  sess,       \* the session it works on, 0 for none
  untouched,  \* history: requests whose AddMessage failed half way
  faults      \* restarts and failed statements so far

poolVars == <<free, conn, shared>>
tableVars == <<live, owner, fresh, rows>>
requestVars == <<kind, user, sess>>
faultVars == <<untouched, faults>>
vars == <<poolVars, tableVars, pc, requestVars, faultVars>>

Known == DOMAIN owner
NewID == Cardinality(Known) + 1

Kinds == {"chat", "delete", "detail", "feedback"}
AuditPlaces == {"prompt", "askAudit", "toolAudit", "replyAudit", "rateAudit"}
Touches == {"askTouch", "replyTouch", "scratchpad"}
Statements == AuditPlaces \cup Touches \cup
  {"get", "create", "meta", "load", "ask", "reply", "pragma", "drop", "sweep",
   "read", "rate"}

\* A row refers to a session: the question or the reply of a request, the
\* feedback it gives, or the audit entries it has made (one row stands for
\* them all).
Messages == {"ask", "reply"}
Row == [session : Known, what : Messages \cup {"audit", "rate"}, by : Users,
        of : Requests \cup {Earlier}]

-----------------------------------------------------------------------------
(* The pool of database/sql, and what every statement has in common *)

Holders == {p \in Processes : conn[p] # "none"}

\* The last idle connection, or a new one, whose foreign_keys are off.
Acquire(p) ==
  /\ pc[p] \in Statements /\ conn[p] = "none"
  /\ IF free # <<>>
     THEN /\ conn' = [conn EXCEPT ![p] = free[Len(free)]]
          /\ free' = SubSeq(free, 1, Len(free) - 1)
          /\ UNCHANGED shared
     ELSE /\ conn' = [conn EXCEPT ![p] = "off"]
          /\ shared' = (shared \/ Holders # {})
          /\ UNCHANGED free
  /\ UNCHANGED <<tableVars, pc, requestVars, faultVars>>

\* The connection goes back as it is or is closed when enough are idle.
ReleaseAs(p, setting) ==
  /\ conn' = [conn EXCEPT ![p] = "none"]
  /\ free' = IF Len(free) < MaxIdle THEN Append(free, setting) ELSE free
  /\ UNCHANGED shared
Release(p) == ReleaseAs(p, conn[p])

\* p runs the statement at place.
Runs(p, place) == pc[p] = place /\ conn[p] # "none"

\* p goes on to next.  A request that is over is forgotten; the purger waits
\* for its ticker.
Goto(p, next) ==
  /\ pc' = [pc EXCEPT ![p] = next]
  /\ kind' = CASE next = "over" -> [kind EXCEPT ![p] = "none"]
               [] next = "waiting" -> [kind EXCEPT ![p] = "purge"]
               [] OTHER -> kind
  /\ IF next = "over"
     THEN /\ user' = [user EXCEPT ![p] = None]
          /\ sess' = [sess EXCEPT ![p] = 0]
     ELSE UNCHANGED <<user, sess>>

Step(p, next) == Release(p) /\ Goto(p, next)

Exists(p) == sess[p] \in live
Own(p) == Exists(p) /\ owner[sess[p]] = user[p]

-----------------------------------------------------------------------------
(* Start and restart *)

\* MUTANT of Init: the migration leaves foreign_keys as they are.
InitUnenforced ==
  /\ free = <<"off">>
  /\ conn = [p \in Processes |-> "none"]
  /\ shared = FALSE
  /\ live = 1..Stored
  /\ owner \in [live -> Users]
  /\ fresh = {}
  /\ rows = {[session |-> s, what |-> m, by |-> owner[s], of |-> Earlier] :
             s \in live, m \in Messages}
  /\ pc = [p \in Processes |-> IF p = Purger THEN "pragma" ELSE "idle"]
  /\ kind = [p \in Processes |-> IF p = Purger THEN "startup" ELSE "none"]
  /\ user = [p \in Processes |-> None]
  /\ sess = [p \in Processes |-> 0]
  /\ untouched = {}
  /\ faults = 0

\* A database with the old conversations of an earlier run.  NewSQLite has
\* migrated it, which switches foreign_keys on for the first connection.
Init ==
  /\ free = <<"on">>
  /\ conn = [p \in Processes |-> "none"]
  /\ shared = FALSE
  /\ live = 1..Stored
  /\ owner \in [live -> Users]
  /\ fresh = {}
  /\ rows = {[session |-> s, what |-> m, by |-> owner[s], of |-> Earlier] :
             s \in live, m \in Messages}
  /\ pc = [p \in Processes |-> IF p = Purger THEN "pragma" ELSE "idle"]
  /\ kind = [p \in Processes |-> IF p = Purger THEN "startup" ELSE "none"]
  /\ user = [p \in Processes |-> None]
  /\ sess = [p \in Processes |-> 0]
  /\ untouched = {}
  /\ faults = 0

Fault == faults < MaxFaults /\ faults' = faults + 1

\* The server stops at any point and starts again with the same database.
Crash ==
  /\ Fault
  /\ free' = <<"on">>
  /\ conn' = [p \in Processes |-> "none"]
  /\ pc' = [p \in Processes |-> IF p = Purger THEN "pragma"
                                ELSE IF pc[p] = "idle" THEN "idle" ELSE "over"]
  /\ kind' = [kind EXCEPT ![Purger] = "startup"]
  /\ user' = [p \in Processes |-> None]
  /\ sess' = [p \in Processes |-> 0]
  /\ untouched' = untouched \cup {p \in Requests : pc[p] \in Touches}
  /\ UNCHANGED <<shared, tableVars>>

\* A request comes in, once the purge at start-up is over.
Begin(p) ==
  /\ pc[p] = "idle" /\ p # Purger /\ kind[Purger] = "purge"
  /\ \E k \in Kinds, u \in Users, s \in Known \cup {0} :
       /\ p \in Chats <=> k = "chat"
       /\ s = 0 => k = "chat"
       /\ kind' = [kind EXCEPT ![p] = k]
       /\ user' = [user EXCEPT ![p] = u]
       /\ sess' = [sess EXCEPT ![p] = s]
       /\ pc' = [pc EXCEPT ![p] = IF s = 0 THEN "create" ELSE "get"]
  /\ UNCHANGED <<poolVars, tableVars, faultVars>>

-----------------------------------------------------------------------------
(* Statements that read *)

\* MUTANT of GetForChat: a session of another user is used all the same.
GetForChatOfAnyone(p) ==
  /\ Runs(p, "get") /\ kind[p] = "chat"
  /\ \E next \in IF Exists(p) THEN {"meta", "load"} ELSE {"create"} : Step(p, next)
  /\ UNCHANGED <<tableVars, faultVars>>

\* The chat handler continues a session of its user, refuses one of another
\* user, and opens a new one when there is none.  It refreshes the session
\* first when the request comes from another dashboard.
GetForChat(p) ==
  /\ Runs(p, "get") /\ kind[p] = "chat"
  /\ \E next \in IF Own(p) THEN {"meta", "load"}
                 ELSE IF Exists(p) THEN {"over"} ELSE {"create"} : Step(p, next)
  /\ UNCHANGED <<tableVars, faultVars>>

First == [delete |-> "pragma", detail |-> "read", feedback |-> "rate"]

\* The other handlers answer "not found" unless the session is the user's.
GetForOther(p) ==
  /\ Runs(p, "get") /\ kind[p] \in DOMAIN First
  /\ Step(p, IF Own(p) THEN First[kind[p]] ELSE "over")
  /\ UNCHANGED <<tableVars, faultVars>>

\* The chat handler loads the conversation.
Load(p) ==
  /\ Runs(p, "load")
  /\ Step(p, "prompt")
  /\ UNCHANGED <<tableVars, faultVars>>

\* The detail handler answers with the messages of the session.
Read(p) ==
  /\ Runs(p, "read")
  /\ Step(p, "over")
  /\ UNCHANGED <<tableVars, faultVars>>

-----------------------------------------------------------------------------
(* Statements that write *)

\* MUTANT of Create: the handler goes on without the session it has created.
CreateUnassigned(p) ==
  /\ Runs(p, "create")
  /\ owner' = [s \in Known \cup {NewID} |-> IF s = NewID THEN user[p] ELSE owner[s]]
  /\ live' = live \cup {NewID}
  /\ fresh' = fresh \cup {NewID}
  /\ Step(p, "prompt")
  /\ UNCHANGED <<rows, faultVars>>

\* CreateSession.  The handler goes on when it fails.
Create(p) ==
  /\ Runs(p, "create")
  /\ sess' = [sess EXCEPT ![p] = NewID]
  /\ owner' = [s \in Known \cup {NewID} |-> IF s = NewID THEN user[p] ELSE owner[s]]
  /\ fresh' = fresh \cup {NewID}
  /\ \/ live' = live \cup {NewID} /\ UNCHANGED faultVars
     \/ Fault /\ UNCHANGED <<live, untouched>>
  /\ Release(p)
  /\ pc' = [pc EXCEPT ![p] = "prompt"]
  /\ UNCHANGED <<rows, kind, user>>

\* UPDATE sessions SET ..., updated_at = ? WHERE id = ?: no row, no change.
Update(p) == fresh' = fresh \cup ({sess[p]} \cap live)

\* MUTANT of Meta: the row is written whether it is there or not.
MetaUpserts(p) ==
  /\ Runs(p, "meta")
  /\ live' = live \cup {sess[p]}
  /\ fresh' = fresh \cup {sess[p]}
  /\ Step(p, "load")
  /\ UNCHANGED <<owner, rows, faultVars>>

\* UpdateSessionMeta.
Meta(p) ==
  /\ Runs(p, "meta")
  /\ Update(p)
  /\ Step(p, "load")
  /\ UNCHANGED <<live, owner, rows, faultVars>>

NewRow(p, what) ==
  [session |-> sess[p], what |-> what, by |-> user[p], of |-> p]

\* The reference to the session is checked on some connections only.
ReferenceOK(p) == Exists(p) \/ conn[p] = "off"

AddMessageNext ==
  [ask |-> <<"askTouch", "askAudit">>, reply |-> <<"replyTouch", "replyAudit">>]

\* AddMessage, first statement.  An error is ignored, and ends the call.
Insert(p) ==
  /\ pc[p] \in DOMAIN AddMessageNext /\ Runs(p, pc[p])
  /\ IF ReferenceOK(p)
     THEN rows' = rows \cup {NewRow(p, pc[p])} /\ Step(p, AddMessageNext[pc[p]][1])
     ELSE UNCHANGED rows /\ Step(p, AddMessageNext[pc[p]][2])
  /\ UNCHANGED <<live, owner, fresh, faultVars>>

TouchNext ==
  [askTouch |-> "askAudit", replyTouch |-> "replyAudit", scratchpad |-> "toolAudit"]

\* MUTANT of Touch: the session keeps its old updated_at.
TouchNothing(p) ==
  /\ pc[p] \in Touches /\ Runs(p, pc[p])
  /\ Step(p, TouchNext[pc[p]])
  /\ UNCHANGED <<tableVars, faultVars>>

\* AddMessage, second statement; and UpdateSessionScratchpad.
Touch(p) ==
  /\ pc[p] \in Touches /\ Runs(p, pc[p])
  /\ Update(p)
  /\ Step(p, TouchNext[pc[p]])
  /\ UNCHANGED <<live, owner, rows, faultVars>>

\* What the handlers do after an audit entry, stored or not.
AuditNext(p) ==
  CASE pc[p] = "prompt" -> "ask"
    [] pc[p] \in {"askAudit", "toolAudit"} -> "think"
    [] OTHER -> "over"

\* AddAuditEntry; one "prompt" stands for the entries of the prompt and of the
\* context.  The line in the audit file follows the row, and there is
\* none without it; the error is ignored.
Audit(p) ==
  /\ pc[p] \in AuditPlaces /\ Runs(p, pc[p])
  /\ IF ReferenceOK(p)
     THEN rows' = rows \cup {NewRow(p, "audit")} ELSE UNCHANGED rows
  /\ Step(p, AuditNext(p))
  /\ UNCHANGED <<live, owner, fresh, faultVars>>

\* AddFeedback, whose ids are unique.
Rate(p) ==
  /\ Runs(p, "rate")
  /\ IF ReferenceOK(p)
     THEN rows' = rows \cup {NewRow(p, "rate")} /\ Step(p, "rateAudit")
     ELSE UNCHANGED rows /\ Step(p, "over")
  /\ UNCHANGED <<live, owner, fresh, faultVars>>

\* The model and its tools, any number of times between the question and the
\* reply: nothing is stored of a request that fails, or of a reply without
\* text.
Think(p) ==
  /\ pc[p] = "think"
  /\ \E next \in {"scratchpad", "toolAudit", "reply", "over"} : Goto(p, next)
  /\ UNCHANGED <<poolVars, tableVars, faultVars>>

-----------------------------------------------------------------------------
(* Statements that delete *)

PragmaNext == [delete |-> "drop", purge |-> "sweep", startup |-> "sweep"]

\* PRAGMA foreign_keys = ON, for the connection it happens to run on.
Pragma(p) ==
  /\ Runs(p, "pragma")
  /\ ReleaseAs(p, "on") /\ Goto(p, PragmaNext[kind[p]])
  /\ UNCHANGED <<tableVars, faultVars>>

\* DELETE FROM sessions: the rows of the sessions go too, if the connection
\* enforces their references.
Delete(p, S) ==
  /\ live' = live \ S
  /\ rows' = IF conn[p] = "on" THEN {r \in rows : r.session \notin S} ELSE rows
  /\ UNCHANGED <<owner, fresh, faultVars>>

\* DeleteSession.
Drop(p) ==
  /\ Runs(p, "drop")
  /\ Delete(p, {sess[p]})
  /\ Step(p, "over")

\* PurgeOlderThan.
Sweep(p) ==
  /\ Runs(p, "sweep")
  /\ \E expired \in {{}, live \ fresh} : Delete(p, expired)
  /\ Step(p, "waiting")

\* The purger's ticker fires.
PurgeAgain ==
  /\ pc[Purger] = "waiting"
  /\ Goto(Purger, "pragma")
  /\ UNCHANGED <<poolVars, tableVars, faultVars>>

-----------------------------------------------------------------------------
(* Failures *)

\* Where a process goes on after a statement that failed by itself.
ErrorNext(p) ==
  CASE pc[p] = "get" /\ kind[p] = "chat" -> "create"
    [] pc[p] = "meta" -> "load"
    [] pc[p] \in DOMAIN AddMessageNext -> AddMessageNext[pc[p]][2]
    [] pc[p] \in Touches -> TouchNext[pc[p]]
    [] pc[p] \in AuditPlaces -> AuditNext(p)
    [] pc[p] = "pragma" -> PragmaNext[kind[p]]
    [] pc[p] = "sweep" -> "waiting"
    [] OTHER -> "over"

\* The statement of p fails.  Create says what happens then, and a failed load
\* or read of messages ends as if there were none.
Fails(p) ==
  /\ pc[p] \in Statements \ {"create", "load", "read"} /\ Runs(p, pc[p])
  /\ Fault
  /\ untouched' = IF pc[p] \in Touches THEN untouched \cup {p} ELSE untouched
  /\ Step(p, ErrorNext(p))
  /\ UNCHANGED tableVars

-----------------------------------------------------------------------------
(* The specification *)

Process(p) ==
  \/ Begin(p) \/ Acquire(p) \/ GetForChat(p) \/ GetForOther(p) \/ Load(p)
  \/ Read(p) \/ Create(p) \/ Meta(p) \/ Insert(p) \/ Touch(p) \/ Audit(p)
  \/ Rate(p) \/ Think(p) \/ Pragma(p) \/ Drop(p) \/ Sweep(p) \/ Fails(p)

Next == (\E p \in Processes : Process(p)) \/ PurgeAgain \/ Crash

Spec == Init /\ [][Next]_vars

-----------------------------------------------------------------------------
(* Properties *)

\* Past the check of its owner, where a request acts on its session.
Acting == (Statements \cup {"think"}) \ {"get", "create"}

PoolOK ==
  /\ free \in Seq({"on", "off"}) /\ Len(free) <= MaxIdle
  /\ conn \in [Processes -> {"on", "off", "none"}]
  /\ shared \in BOOLEAN

TablesOK ==
  /\ live \subseteq Known /\ Known \subseteq Nat
  /\ owner \in [Known -> Users]
  /\ fresh \subseteq Known
  /\ rows \subseteq Row

ProcessesOK ==
  /\ pc \in [Processes -> Statements \cup {"idle", "think", "over", "waiting"}]
  /\ kind \in [Processes -> Kinds \cup {"none", "startup", "purge"}]
  /\ user \in [Processes -> Users \cup {None}]
  /\ sess \in [Processes -> Known \cup {0}]
  /\ \A p \in Requests : pc[p] \in Acting => sess[p] \in Known /\ user[p] \in Users
  /\ untouched \subseteq Requests
  /\ faults \in 0..MaxFaults

\* Every variable stays in its range; no more connections are kept than the
\* pool may keep, and a request past its check has a user and a session.
TypeOK == PoolOK /\ TablesOK /\ ProcessesOK

\* Nobody's request stores into, reads or deletes a conversation of somebody
\* else, whatever happens to the session between two of its statements.
OwnSessionsOnly ==
  /\ \A r \in rows : r.by = owner[r.session]
  /\ \A p \in Requests : pc[p] \in Acting => user[p] = owner[sess[p]]

\* The database has no rows of a session that does not exist: "removes a
\* session and its messages (cascade)".
NoOrphans == \A r \in rows : r.session \in live

\* It has none as long as one connection was enough for everything.
OneConnectionNoOrphans == ~shared => NoOrphans

\* The chat handler is still storing this message, or was kept from it.
BeingStored(r) == r.of \in untouched \/ pc[r.of] \in Touches

\* The retention purge takes no session with a message of this run.
PurgeSparesActive ==
  [][\A r \in rows :
       r.what \in Messages /\ r.of # Earlier /\ pc[Purger] = "sweep"
         /\ pc'[Purger] = "waiting" /\ r.session \in live \ live' => BeingStored(r)]_vars

\* The conversations as the API shows them.
Talks ==
  [s \in live |-> {r \in rows : r.what \in Messages /\ r.session = s}]

Promised == INSTANCE Conversations WITH known <- Known, talks <- Talks

\* Whatever runs concurrently, fails or is restarted, conversations behave as
\* module Conversations promises.
Implements == Promised!Spec
=============================================================================
