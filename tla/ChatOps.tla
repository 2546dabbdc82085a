------------------------------ MODULE ChatOps -------------------------------
(***************************************************************************)
(* The ChatOps bridge, internal/chatops/bridge.go: a goroutine for each    *)
(* post that mentions the bot maps the thread of the post to a session,    *)
(* has the question answered there and posts the reply.                    *)
(*                                                                         *)
(* A turn is such a post, however and in whatever order it came (module    *)
(* Mattermost).  Its thread is the root post it replies to, or itself.     *)
(***************************************************************************)
EXTENDS ChatTurns

VARIABLES
  root,       \* root[r]: the thread of turn r once it is there, 0 before that
  task,       \* task[r]: where the handler of r is
  entries,    \* sessionMap: its threads, each with its session
  stale,      \* threads that were not active for an hour
  chunks,     \* chunks[r]: what streamFn has collected
  forked      \* history: threads with a reason for a second session

mapVars == <<entries, stale>>
opsVars == <<root, task, mapVars, chunks, forked>>

Threads == Turns

Init ==
  /\ TurnsInit
  /\ root = [r \in Turns |-> 0] /\ task = [r \in Turns |-> "none"]
  /\ entries = <<>> /\ stale = {}
  /\ chunks = [r \in Turns |-> <<>>]
  /\ forked = {}

-----------------------------------------------------------------------------
(* Bridge.handleMessage *)

\* parsePostedEvent has found the thread of a post, and handleMessage starts.
Receive(r) ==
  /\ task[r] = "none" /\ \A q \in 1..(r - 1) : task[q] # "none"
  /\ \E t \in 1..r : (t < r => root[t] = t) /\ root' = [root EXCEPT ![r] = t]
  /\ task' = [task EXCEPT ![r] = "mapping"]
  /\ UNCHANGED <<turnVars, mapVars, chunks, forked>>

\* A turn of thread t is being answered and t's entry does not know it yet.
Unsettled(t) == \E r \in Turns : root[r] = t /\ task[r] \in {"chatting", "noting"}

\* MUTANT of Session: the key of an entry is the channel.
SessionOfChannel(t) ==
  IF entries = <<>> THEN None ELSE entries[CHOOSE u \in DOMAIN entries : TRUE]

\* What the map holds for a thread.
Session(t) == IF t \in DOMAIN entries THEN entries[t] ELSE None

\* getOrCreate: a new entry holds an id the server does not know.
Map(r) ==
  /\ task[r] = "mapping"
  /\ LET t == root[r]
     IN /\ Ask(r, Session(t))
        /\ entries' = [u \in DOMAIN entries \cup {t} |-> Session(u)]
        /\ stale' = stale \ {t}
        /\ forked' = IF Session(t) = None /\ Unsettled(t) THEN forked \cup {t} ELSE forked
  /\ task' = [task EXCEPT ![r] = "chatting"]
  /\ UNCHANGED <<root, chunks>>

\* HandleChat up to its start chunk.
Begin(r) ==
  /\ task[r] = "chatting" /\ Open(r)
  /\ task' = [task EXCEPT ![r] = "noting"]
  /\ chunks' = [chunks EXCEPT ![r] = Append(@, "start")]
  /\ forked' = IF used'[r] = r /\ (named[r] \in stored \/ r \notin stored')
               THEN forked \cup {root[r]} ELSE forked
  /\ UNCHANGED <<root, mapVars>>

\* updateSessionID, unless the entry was evicted meanwhile.
Note(r) ==
  /\ task[r] = "noting"
  /\ LET t == root[r]
     IN IF t \in DOMAIN entries
        THEN entries' = [entries EXCEPT ![t] = used[r]] /\ stale' = stale \ {t}
        ELSE UNCHANGED mapVars
  /\ task' = [task EXCEPT ![r] = "collecting"]
  /\ UNCHANGED <<turnVars, root, chunks, forked>>

Collect(r) ==
  /\ task[r] \in {"chatting", "collecting"}
  /\ \E chunk \in ChunkTypes :
       /\ GoOn(r, chunk)
       /\ chunks' = [chunks EXCEPT ![r] = Append(@, chunk)]
  /\ UNCHANGED <<root, task, mapVars, forked>>

\* FormatResponse: the places of the chunks whose texts make up the post, in
\* their order, and of the tool calls listed below them.  Without any text the
\* post says that there is no response.
Format(collected) ==
  LET Said(i) == collected[i] \in {"token", "error"}
      body == {i \in DOMAIN collected :
                 \/ Said(i)
                 \/ /\ collected[i] = "complete"
                    /\ \A j \in 1..(i - 1) : ~Said(j) /\ collected[j] # "complete"}
      calls == {i \in DOMAIN collected : collected[i] = "call"}
  IN [text |-> body, tools |-> IF body = {} THEN {} ELSE calls]

\* SendMessage, which may fail.
Reply(r) ==
  /\ task[r] \in {"chatting", "collecting"} /\ phase[r] \in Final
  /\ task' = [task EXCEPT ![r] = "done"]
  /\ UNCHANGED <<turnVars, root, mapVars, chunks, forked>>

Handle(r) == Map(r) \/ Begin(r) \/ Note(r) \/ Collect(r) \/ Reply(r)
Proceed == \E r \in Turns : Handle(r)

-----------------------------------------------------------------------------
(* sessionMap.evictLoop *)

HourPasses ==
  /\ stale' = DOMAIN entries
  /\ stale # stale'
  /\ UNCHANGED <<turnVars, root, task, entries, chunks, forked>>

Evict ==
  /\ stale # {}
  /\ entries' = [t \in DOMAIN entries \ stale |-> entries[t]]
  /\ stale' = {}
  /\ forked' = forked \cup stale
  /\ UNCHANGED <<turnVars, root, task, chunks>>

-----------------------------------------------------------------------------

Next ==
  \/ Proceed \/ \E r \in Turns : Receive(r)
  \/ HourPasses \/ Evict

-----------------------------------------------------------------------------
(* Properties *)

\* Every variable of the bridge stays in its range.
TypeOK ==
  /\ TurnsTypeOK
  /\ root \in [Turns -> {0} \cup Threads]
  /\ task \in [Turns -> {"none", "mapping", "chatting", "noting", "collecting", "done"}]
  /\ DOMAIN entries \subseteq Threads /\ stale \cup forked \subseteq Threads
  /\ \A t \in DOMAIN entries : entries[t] \in ChatOrNone
  /\ \A r \in Turns : \A i \in DOMAIN chunks[r] : chunks[r][i] \in ChunkTypes

Opened == {r \in Turns : root[r] # 0 /\ used[r] # None}

\* A thread is one conversation and two threads are two: posts share a session
\* just when they share a thread, but for a thread whose entry was evicted,
\* whose first posts came at once, or for which the database failed.
ThreadsAreConversations ==
  \A r, q \in Opened :
    /\ used[r] = used[q] => root[r] = root[q]
    /\ root[r] = root[q] => used[r] = used[q] \/ root[r] \in forked

\* The reply has the text of the answer, once, and its error if it has one.
ReplyIsTheAnswer ==
  \A r \in Turns : task[r] = "done" =>
    LET text == Format(chunks[r]).text
        Says(i, types) == chunks[r][i] \in types
    IN /\ (\E i \in text : Says(i, {"error"})) <=> phase[r] \in Failed
       /\ \A i, j \in text : Says(i, {"complete"}) /\ Says(j, {"token", "complete"}) => i = j
       /\ (\E i \in DOMAIN chunks[r] : Says(i, {"token", "complete"})) =>
            \E i \in text : Says(i, {"token", "complete"})

\* Every post for the bot was dealt with.
AtRest == \A r \in Turns : task[r] \in {"none", "done"}
=============================================================================
