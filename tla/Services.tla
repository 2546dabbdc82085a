------------------------------ MODULE Services ------------------------------
(***************************************************************************)
(* What the server and its MCP servers share between requests, outside the *)
(* database and the MCP connections: the scratchpads in Grafana, the tools *)
(* of a filtered client, the cached summaries of dashboards, the access    *)
(* token of the Genesys client, and the buckets of the rate limiter.  They *)
(* share no state, so one at a time is enough.                             *)
(***************************************************************************)
EXTENDS Integers, Sequences, FiniteSets

CONSTANTS
  None,
  Sessions, Requests, User, Ttl, MaxDays, MaxCalls, MaxTrouble,  \* of Scratchpads
  Callers,                                    \* of the next three
  Offers, Lists, MaxLooks,                    \* of ToolFilter
  CacheTTL, Timeout, MaxTime, MaxVersions,    \* of Enricher
  ExpiresIn, Margin, MaxTokens,               \* of AccessToken
  Clients, Burst, Cost, Stale, CleanEvery, MaxTicks  \* of RateLimiter

VARIABLES
  part,  \* "scratchpads", "tools", "summaries", "token" or "buckets"
  stored, dashboards, folder, request, day, due, purger, calls, trouble,
  cleaned, overlapped, edited, clobbered,
  lists, tools, cachedTools, discoverMu, at, got, looks, discoveries,
  now, ended, cache, fetch, served,
  issued, accessToken, tokenExpiry, caller, used,
  clock, buckets, lastClean, admitted, window

\* The time (now) is of whichever part runs; the rate limiter has its own.
Scratchpad == INSTANCE Scratchpads
Filter == INSTANCE ToolFilter
Summary == INSTANCE Enricher
Token == INSTANCE AccessToken
Limiter == INSTANCE RateLimiter WITH now <- clock, MaxTime <- MaxTicks

scratchpadVars == <<stored, dashboards, folder, request, day, due, purger, calls, trouble,
                    cleaned, overlapped, edited, clobbered>>
filterVars == <<lists, tools, cachedTools, discoverMu, at, got, looks, discoveries>>
summaryVars == <<ended, cache, fetch, served>>
tokenVars == <<issued, accessToken, tokenExpiry, caller, used>>
limiterVars == <<clock, buckets, lastClean, admitted, window>>
vars == <<part, scratchpadVars, filterVars, now, summaryVars, tokenVars, limiterVars>>

ASSUME ServicesAssumption ==
  /\ {Ttl, MaxDays, MaxCalls, MaxTrouble, MaxLooks} \subseteq Nat
  /\ {CacheTTL, Timeout, MaxTime, MaxVersions, ExpiresIn, Margin, MaxTokens} \subseteq Nat
  /\ Ttl > 0 /\ Timeout > 0 /\ Timeout <= MaxTime
  /\ Margin >= Timeout /\ ExpiresIn > Margin
  /\ \A l \in Lists : l.allow \cup l.deny # {}
  /\ Limiter!RateLimiterAssumption

\* None is told from whatever may stand in its place.
ASSUME NoneAssumption ==
  /\ None \notin Callers /\ None \notin Nat
  /\ \A offer \in Offers : \A kept \in SUBSET offer : None # kept
  /\ None \notin Scratchpad!Dashboards /\ None \notin Scratchpad!Chats
  /\ None \notin Scratchpad!Runs
  /\ None \notin Summary!Entries /\ None \notin Summary!Fetches /\ None \notin Summary!Served
  /\ None \notin Token!Calls /\ None \notin Token!Uses

\* The variables of the other parts keep their first value.
Init ==
  /\ part \in {"scratchpads", "tools", "summaries", "token", "buckets"}
  /\ Scratchpad!Init /\ Filter!Init /\ Token!Init /\ Limiter!Init
  /\ ended = <<>> /\ cache = None /\ fetch = [c \in Callers |-> None] /\ served = None
  /\ part = "token" \/ now = 0
  /\ part = "tools" \/ lists = CHOOSE l \in Lists : TRUE

OnScratchpads == /\ part = "scratchpads"
                 /\ UNCHANGED <<part, filterVars, now, summaryVars, tokenVars, limiterVars>>
OnTools == /\ part = "tools"
           /\ UNCHANGED <<part, scratchpadVars, now, summaryVars, tokenVars, limiterVars>>
OnSummaries == /\ part = "summaries"
               /\ UNCHANGED <<part, scratchpadVars, filterVars, tokenVars, limiterVars>>
OnToken == /\ part = "token"
           /\ UNCHANGED <<part, scratchpadVars, filterVars, summaryVars, limiterVars>>
OnBuckets == /\ part = "buckets"
             /\ UNCHANGED <<part, scratchpadVars, filterVars, now, summaryVars, tokenVars>>

Next ==
  \/ OnScratchpads /\ Scratchpad!Next
  \/ OnTools /\ Filter!Next
  \/ OnSummaries /\ Summary!Next
  \/ OnToken /\ Token!Next
  \/ OnBuckets /\ Limiter!Next

\* Goroutines run, and calls have an end.
Fairness ==
  /\ WF_vars(OnScratchpads /\ Scratchpad!Purge)
  /\ \A r \in Requests : WF_vars(OnScratchpads /\ Scratchpad!Step(r))
  /\ \A c \in Callers : /\ WF_vars(OnTools /\ Filter!Step(c))
                         /\ WF_vars(OnSummaries /\ Summary!Step(c))
                         /\ WF_vars(OnToken /\ Token!Step(c))

Spec == Init /\ [][Next]_vars /\ Fairness

-----------------------------------------------------------------------------
(* Properties *)

\* Every variable of the services stays in its range.
TypeOK ==
  /\ Scratchpad!TypeOK /\ Filter!TypeOK /\ Token!TypeOK /\ Limiter!TypeOK
  /\ part = "summaries" => Summary!TypeOK

\* A session has one scratchpad, its own; the purger deletes what had not been
\* saved for its lifetime when it looked, and leaves no such one (module
\* Scratchpads).
KeepsScratchpads == Scratchpad!KeepsScratchpads

\* "If none exists, it creates a new dashboard" (module Scratchpads).
CreatesIfNone == Scratchpad!CreatesIfNone

\* Tools are discovered once, and filtered (module ToolFilter).
DiscoversOnce == Filter!DiscoversOnce

\* No summary and no token is used when it is too old (modules Enricher and
\* AccessToken).
NothingOutdated == Summary!SummariesAreFresh /\ Token!TokensAreValid

\* Clean-ups of the rate limiter give nobody a request, and cost nobody one
\* (module RateLimiter).
LimitsFairly == Limiter!LimitsFairly

\* Whatever fails, calls return, locks are given back, and the purger has its
\* run each day.
Settles ==
  /\ []<>(part = "scratchpads" => Scratchpad!PurgerRests)
  /\ \A r \in Requests : []<>(request[r] = None)
  /\ \A c \in Callers : []<>(at[c] = "out") /\ []<>(fetch[c] = None) /\ []<>(caller[c] = None)
=============================================================================
