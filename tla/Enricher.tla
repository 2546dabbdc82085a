------------------------------ MODULE Enricher ------------------------------
(***************************************************************************)
(* internal/context/enricher.go: summaries of dashboards, cached for a     *)
(* while.  Chat requests and the page ask for them at the same time.       *)
(*                                                                         *)
(* Dashboards do not meet in the cache, so there is one, whose versions    *)
(* are numbered.  A fetch ends within the timeout of the Grafana client    *)
(* (internal/grafana/client.go); the unit of time divides both periods.    *)
(***************************************************************************)
EXTENDS Sequences, Naturals

CONSTANTS
  None,
  Callers,
  CacheTTL, Timeout,
  MaxTime, MaxVersions  \* bounds

VARIABLES
  now,
  ended,   \* ended[v]: when version v was replaced; the last one is current
  cache,   \* the entry, or None
  fetch,   \* fetch[c]: what a caller is doing, or None
  served   \* history: the last summary handed out, and when

vars == <<now, ended, cache, fetch, served>>

Current == Len(ended) + 1

Init ==
  /\ now = 0 /\ ended = <<>> /\ cache = None
  /\ fetch = [c \in Callers |-> None] /\ served = None

Serve(version) == served' = [version |-> version, at |-> now]

Cached == cache # None /\ now < cache.expiresAt

\* GetDashboardSummary finds an entry that has not expired,
Hit(c) ==
  /\ fetch[c] = None /\ Cached /\ Serve(cache.version)
  /\ UNCHANGED <<now, ended, cache, fetch>>

\* or does not, and asks Grafana, whoever else does;
Miss(c) ==
  /\ fetch[c] = None /\ ~Cached
  /\ fetch' = [fetch EXCEPT ![c] = [since |-> now, version |-> None]]
  /\ UNCHANGED <<now, ended, cache, served>>

\* Grafana reads the dashboard;
Answered(c) ==
  /\ fetch[c] # None /\ fetch[c].version = None
  /\ fetch' = [fetch EXCEPT ![c].version = Current]
  /\ UNCHANGED <<now, ended, cache, served>>

\* MUTANT of Store: a call that failed is remembered too.
StoreAnyway(c) ==
  /\ fetch[c] # None
  /\ cache' = [version |-> fetch[c].version, expiresAt |-> now + CacheTTL]
  /\ Serve(fetch[c].version)
  /\ fetch' = [fetch EXCEPT ![c] = None]
  /\ UNCHANGED <<now, ended>>

\* the answer is put in the cache, over what is there;
Store(c) ==
  /\ fetch[c] # None /\ fetch[c].version # None
  /\ cache' = [version |-> fetch[c].version, expiresAt |-> now + CacheTTL]
  /\ Serve(fetch[c].version)
  /\ fetch' = [fetch EXCEPT ![c] = None]
  /\ UNCHANGED <<now, ended>>

\* or the call has failed.
Fail(c) ==
  /\ fetch[c] # None /\ fetch' = [fetch EXCEPT ![c] = None]
  /\ UNCHANGED <<now, ended, cache, served>>

\* Somebody saves the dashboard in Grafana.
Change ==
  /\ Current < MaxVersions /\ ended' = Append(ended, now)
  /\ UNCHANGED <<now, cache, fetch, served>>

Tick ==
  /\ now < MaxTime /\ now' = now + 1
  /\ \A c \in Callers : fetch[c] # None => now < fetch[c].since + Timeout
  /\ UNCHANGED <<ended, cache, fetch, served>>

Step(c) == Answered(c) \/ Store(c) \/ Fail(c)
Next == Change \/ Tick \/ \E c \in Callers : Hit(c) \/ Miss(c) \/ Step(c)

-----------------------------------------------------------------------------
(* Properties *)

Entries == [version : Nat, expiresAt : Nat]
Fetches == [since : Nat, version : Nat \cup {None}]
Served == [version : Nat, at : Nat]

TypeOK ==
  /\ now \in 0..MaxTime /\ ended \in Seq(0..MaxTime)
  /\ cache \in Entries \cup {None} /\ served \in Served \cup {None}
  /\ fetch \in [Callers -> Fetches \cup {None}]
  /\ cache # None => cache.version \in 1..Current /\ cache.expiresAt <= now + CacheTTL
  /\ \A c \in Callers : fetch[c] # None =>
       fetch[c].since <= now /\ fetch[c].version \in 1..Current \cup {None}
  /\ served # None => served.version \in 1..Current /\ served.at <= now

\* Fetches may overtake each other and put an older summary over a newer one;
\* yet a summary is never older than the lifetime of an entry and one call.
SummariesAreFresh ==
  served # None => \/ served.version = Current
                   \/ served.at <= ended[served.version] + CacheTTL + Timeout
=============================================================================
