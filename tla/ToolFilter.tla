----------------------------- MODULE ToolFilter -----------------------------
(***************************************************************************)
(* internal/mcp/filtered_client.go: the tools of a server as the rest of   *)
(* the assistant sees them, after the configured allow and deny lists, and *)
(* the client below it, which asks the server and remembers what it said   *)
(* (internal/mcp/stdio_client.go).                                         *)
(*                                                                         *)
(* The callers are the server's start and tool calls that look for their   *)
(* client. A tool is [server, short]; an entry of a list is one, or names  *)
(* a short name (server is ""), which must not have two underscores in it: *)
(* such an entry is taken for a full name, which no tool has.              *)
(***************************************************************************)
EXTENDS Naturals

CONSTANTS
  None,
  Callers,
  Offers,      \* what the server may say it offers: sets of tools
  Lists,       \* pairs of an allow and a deny list, one of them not empty
  MaxLooks     \* bound: calls of DiscoverTools that ask the server

VARIABLES
  lists,        \* the configured lists
  tools,        \* of the client below
  cachedTools,  \* None is nil
  discoverMu,   \* the caller that holds it, or None
  at,           \* at[c]: where a caller is
  got,          \* got[c]: the list it has been given, or None
  looks,
  discoveries   \* history: lists that came from below

vars == <<lists, tools, cachedTools, discoverMu, at, got, looks, discoveries>>

Init ==
  /\ lists \in Lists /\ tools = {} /\ cachedTools = None /\ discoverMu = None
  /\ at = [c \in Callers |-> "out"] /\ got = [c \in Callers |-> None]
  /\ looks = 0 /\ discoveries = 0

-----------------------------------------------------------------------------
(* The lists *)

Short(tool) == [tool EXCEPT !.server = ""]

\* An exact entry, or a short one.
Named(tool, list) == tool \in list \/ Short(tool) \in list

isToolDenied(tool) == Named(tool, lists.deny)
isToolAllowed(tool) == ~isToolDenied(tool) /\ (lists.allow = {} \/ Named(tool, lists.allow))

Kept(offer) == {tool \in offer : isToolAllowed(tool)}

-----------------------------------------------------------------------------
(* DiscoverTools *)

To(c, place) == at' = [at EXCEPT ![c] = place]
Given(c, list) == To(c, "out") /\ got' = [got EXCEPT ![c] = list]

\* The cache is looked at; an empty list is in it, nil is not.
Look(c) ==
  /\ at[c] = "out" /\ looks < MaxLooks
  /\ \/ cachedTools # None /\ Given(c, cachedTools) /\ UNCHANGED looks
     \/ cachedTools = None /\ To(c, "lock") /\ looks' = looks + 1 /\ UNCHANGED got
  /\ UNCHANGED <<lists, tools, cachedTools, discoverMu, discoveries>>

Lock(c) ==
  /\ at[c] = "lock" /\ discoverMu = None /\ discoverMu' = c /\ To(c, "again")
  /\ UNCHANGED <<lists, tools, cachedTools, got, looks, discoveries>>

\* MUTANT of Again: the cache is not looked at again.
AgainNot(c) ==
  /\ at[c] = "again" /\ To(c, "ask")
  /\ UNCHANGED <<lists, tools, cachedTools, discoverMu, got, looks, discoveries>>

\* It is looked at once more under the lock.
Again(c) ==
  /\ at[c] = "again"
  /\ \/ cachedTools # None /\ Given(c, cachedTools) /\ discoverMu' = None
     \/ cachedTools = None /\ To(c, "ask") /\ UNCHANGED <<got, discoverMu>>
  /\ UNCHANGED <<lists, tools, cachedTools, looks, discoveries>>

\* The client below answers: with what it remembers, unless that is empty.
Answered(c) ==
  /\ at[c] = "ask"
  /\ tools' \in IF tools # {} THEN {tools} ELSE Offers
  /\ discoveries' = discoveries + 1 /\ To(c, "publish")
  /\ UNCHANGED <<lists, cachedTools, discoverMu, got, looks>>

\* MUTANT of Failed: the lock is not given back.
FailedLocked(c) ==
  /\ at[c] = "ask" /\ tools = {} /\ To(c, "out") /\ got' = [got EXCEPT ![c] = None]
  /\ UNCHANGED <<lists, tools, cachedTools, discoverMu, looks, discoveries>>

\* The server did not answer in time, or with an error.
Failed(c) ==
  /\ at[c] = "ask" /\ tools = {} /\ Given(c, None) /\ discoverMu' = None
  /\ UNCHANGED <<lists, tools, cachedTools, looks, discoveries>>

\* The list of the first one stays.
Publish(c) ==
  /\ at[c] = "publish"
  /\ cachedTools' = IF cachedTools = None THEN Kept(tools) ELSE cachedTools
  /\ Given(c, cachedTools') /\ discoverMu' = None
  /\ UNCHANGED <<lists, tools, looks, discoveries>>

Step(c) == Lock(c) \/ Again(c) \/ Answered(c) \/ Failed(c) \/ Publish(c)
Next == \E c \in Callers : Look(c) \/ Step(c)

-----------------------------------------------------------------------------
(* Properties *)

TypeOK ==
  /\ lists \in Lists /\ discoverMu \in Callers \cup {None}
  /\ at \in [Callers -> {"out", "lock", "again", "ask", "publish"}]
  /\ \A list \in {cachedTools} \cup {got[c] : c \in Callers} : list # None => list \subseteq tools
  /\ {looks, discoveries} \subseteq Nat

\* "Avoid duplicate upstream discovery work under concurrent callers": no list
\* is fetched that is not used, and all callers get the same one, in which
\* nothing is that is denied ("denylist overrides allowlist",
\* docs/DEPLOYMENT.md:86) or missing that is allowed.
DiscoversOnce ==
  /\ discoveries <= 1
  /\ \A c \in Callers : got[c] \in {None, cachedTools}
  /\ cachedTools # None => \A tool \in tools :
       tool \in cachedTools <=>
         LET names == {tool, Short(tool)}
         IN /\ names \cap lists.deny = {}
            /\ lists.allow = {} \/ names \cap lists.allow # {}
=============================================================================
