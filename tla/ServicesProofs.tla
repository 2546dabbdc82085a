--------------------------- MODULE ServicesProofs ---------------------------
(***************************************************************************)
(* Proofs about module Services, for any number of requests, sessions and  *)
(* callers, and any periods: scratchpads, tools, summaries, access tokens  *)
(* and buckets, each from the invariant of its own part.                   *)
(***************************************************************************)
EXTENDS Services, FiniteSetTheorems, SequenceTheorems, TLAPS

-----------------------------------------------------------------------------
(* The inductive invariant, part by part *)

\* Who holds the lock is the one between its second look and its return; a list
\* has come from below, or none has and none is on its way.
FilterInv ==
  /\ Filter!TypeOK
  /\ \A c \in Callers : at[c] \in {"again", "ask", "publish"} <=> discoverMu = c
  /\ \A c \in Callers : at[c] \in {"ask", "publish"} => cachedTools = None
  /\ \A c \in Callers : at[c] = "publish" => discoveries = 1
  /\ \A c \in Callers : got[c] \in {None, cachedTools}
  /\ tools = {} \/ tools \in Offers
  /\ \A c \in Callers : at[c] = "publish" => tools \in Offers
  /\ discoveries <= 1
  /\ discoveries = 1 => cachedTools # None \/ \E c \in Callers : at[c] = "publish"
  /\ cachedTools # None => cachedTools = Filter!Kept(tools)

\* An answer is no older than its call, and a call takes no longer than it may;
\* the token in force is good for whoever is about to use it.
CallOK(c) ==
  caller[c] # None =>
    /\ caller[c].since <= now /\ now <= caller[c].since + Timeout
    /\ caller[c].token \in DOMAIN issued \cup {None}
    /\ caller[c].at = "token" =>
         caller[c].token # None /\ issued[caller[c].token] >= caller[c].since
    /\ caller[c].at = "expiry" => now <= issued[accessToken] + Timeout
    /\ caller[c].at = "use" => now <= issued[accessToken] + ExpiresIn

UsedOK ==
  used # None => used.token \in DOMAIN issued /\ used.at <= now /\ used.at <= issued[used.token] + ExpiresIn

\* The token in force outlives the expiry in force, whichever answers they are
\* from.
ExpiryOK ==
  /\ tokenExpiry <= now + ExpiresIn - Margin
  /\ tokenExpiry + Margin <= issued[accessToken] + Timeout + ExpiresIn

TokenTypes ==
  /\ now \in 0..MaxTime /\ issued \in Seq(0..MaxTime)
  /\ accessToken \in DOMAIN issued /\ tokenExpiry \in Int
  /\ caller \in [Callers -> Token!Calls \cup {None}] /\ used \in Token!Uses \cup {None}

TokenInv == TokenTypes /\ ExpiryOK /\ UsedOK /\ \A c \in Callers : CallOK(c)

\* A version that is no longer current was so when its fetch began, and what
\* was fetched is in the cache for no longer than its lifetime.
FetchOK(c) ==
  fetch[c] # None =>
    /\ fetch[c].since <= now /\ now <= fetch[c].since + Timeout
    /\ fetch[c].version \in 1..Summary!Current \cup {None}
    /\ fetch[c].version \notin {None, Summary!Current} => fetch[c].since <= ended[fetch[c].version]

CacheOK ==
  cache # None =>
    /\ cache.version \in 1..Summary!Current /\ cache.expiresAt <= now + CacheTTL
    /\ cache.version # Summary!Current =>
         cache.expiresAt <= ended[cache.version] + CacheTTL + Timeout

ServedOK ==
  served # None =>
    /\ served.version \in 1..Summary!Current /\ served.at <= now
    /\ served.version # Summary!Current =>
         served.at <= ended[served.version] + CacheTTL + Timeout

SummaryTypes ==
  /\ now \in 0..MaxTime /\ ended \in Seq(0..MaxTime)
  /\ cache \in Summary!Entries \cup {None} /\ served \in Summary!Served \cup {None}
  /\ fetch \in [Callers -> Summary!Fetches \cup {None}]

SummaryInv == SummaryTypes /\ CacheOK /\ ServedOK /\ \A c \in Callers : FetchOK(c)

\* What is known of a scratchpad is known of one's own.
Own(s, uid) == uid \in Scratchpad!Live => dashboards[uid].session = s

\* What a request knows and has read: the model holds the changes of the user,
\* unless they came later.
Sound(q) ==
  /\ q \in Scratchpad!Chats
  /\ q.known \in DOMAIN dashboards \cup {None} /\ q.uid \in DOMAIN dashboards \cup {None}
  /\ Own(q.session, q.known) /\ Own(q.session, q.uid)
  /\ q.pc \in {"store", "read", "save"} => q.uid # None
  /\ q.pc = "save" =>
       /\ q.model # None /\ q.model.session = q.session
       /\ q.uid \in edited \ clobbered => q.model.edited

\* What is known of a scratchpad: a save sets both dates, and what a whole run
\* leaves is in use.
Fine(uid) ==
  /\ dashboards[uid].used = dashboards[uid].saved
  /\ dashboards[uid].saved >= cleaned
  /\ uid \in edited \ clobbered => dashboards[uid].edited
  /\ purger # None =>
       (purger.whole /\ uid \notin purger.left => dashboards[uid].saved >= purger.cutoff)

\* What the purger is to delete was out of use when it looked.
Listed ==
  purger # None =>
    /\ purger.left \subseteq DOMAIN purger.seen
    /\ \A uid \in purger.left :
         purger.seen[uid] # None /\ purger.seen[uid].saved < purger.cutoff

\* Whoever creates a scratchpad is alone and there is none, unless two looked
\* for it in vain at once.
Single ==
  \A s \in Sessions \ overlapped :
    /\ \A u, v \in Scratchpad!Hits(s) : u = v
    /\ \A q, r \in Scratchpad!Creating(s) : q = r
    /\ Scratchpad!Hits(s) = {} \/ Scratchpad!Creating(s) = {}

ScratchpadTypes ==
  /\ dashboards \in Seq(Scratchpad!Dashboards \cup {None})
  /\ stored \in [Sessions -> DOMAIN dashboards \cup {None}]
  /\ request \in [Requests -> Scratchpad!Chats \cup {None}]
  /\ purger \in Scratchpad!Runs \cup {None}
  /\ purger # None => purger.left \subseteq DOMAIN dashboards /\ purger.cutoff <= day
  /\ folder \in BOOLEAN /\ due \in BOOLEAN /\ day \in 0..MaxDays
  /\ cleaned \in Int /\ cleaned <= day
  /\ overlapped \subseteq Sessions /\ clobbered \subseteq edited /\ edited \subseteq DOMAIN dashboards

ScratchpadInv ==
  /\ ScratchpadTypes /\ Single /\ Listed
  /\ \A s \in Sessions : Own(s, stored[s])
  /\ \A r \in Requests : request[r] # None => Sound(request[r])
  /\ \A uid \in Scratchpad!Live : Fine(uid)

\* The time is of the part that runs; the tool calls of the others have not
\* begun.
IInv ==
  /\ part \in {"scratchpads", "tools", "summaries", "token", "buckets"}
  /\ FilterInv /\ TokenInv /\ ScratchpadInv
  /\ part # "token" => caller = [c \in Callers |-> None]
  /\ IF part = "summaries" THEN SummaryInv ELSE served = None

-----------------------------------------------------------------------------
(* The tools *)

\* A list of tools is never None, however few there are in it.
LEMMA KeptIsAList ==
  ASSUME NEW offer \in Offers
  PROVE  /\ {tool \in offer : Filter!isToolAllowed(tool)} # None
         /\ {tool \in offer : Filter!isToolAllowed(tool)} \subseteq offer
<1>1. {tool \in offer : Filter!isToolAllowed(tool)} \in SUBSET offer
  OBVIOUS
<1> QED BY <1>1, NoneAssumption

LEMMA FilterKept ==
  ASSUME FilterInv, Filter!Next
  PROVE  FilterInv'
<1> USE DEF FilterInv, Filter!TypeOK, Filter!To, Filter!Given
<1>1. None \notin Callers
  BY NoneAssumption
<1>2. ASSUME NEW c \in Callers, Filter!Look(c) PROVE FilterInv'
  <2>1. UNCHANGED <<lists, tools, cachedTools, discoverMu, discoveries>>
    BY <1>2 DEF Filter!Look
  <2>2. (cachedTools = Filter!Kept(tools))' <=> cachedTools = Filter!Kept(tools)
    BY <2>1 DEF Filter!Kept, Filter!isToolAllowed, Filter!isToolDenied
  <2>3. CASE cachedTools # None /\ Filter!Given(c, cachedTools) /\ UNCHANGED looks
    <3>1. at' = at
      BY <1>2, <2>3 DEF Filter!Look
    <3> QED BY <2>1, <2>2, <2>3, <3>1
  <2>4. CASE cachedTools = None /\ Filter!To(c, "lock") /\ looks' = looks + 1 /\ UNCHANGED got
    BY <1>1, <1>2, <2>1, <2>4 DEF Filter!Look
  <2> QED BY <1>2, <2>3, <2>4 DEF Filter!Look
<1>3. ASSUME NEW c \in Callers, Filter!Lock(c) PROVE FilterInv'
  <2>1. (cachedTools = Filter!Kept(tools))' <=> cachedTools = Filter!Kept(tools)
    BY <1>3 DEF Filter!Lock, Filter!Kept, Filter!isToolAllowed, Filter!isToolDenied
  <2> QED BY <1>1, <1>3, <2>1 DEF Filter!Lock
<1>4. ASSUME NEW c \in Callers, Filter!Again(c) PROVE FilterInv'
  <2>1. (cachedTools = Filter!Kept(tools))' <=> cachedTools = Filter!Kept(tools)
    BY <1>4 DEF Filter!Again, Filter!Kept, Filter!isToolAllowed, Filter!isToolDenied
  <2>2. CASE cachedTools # None /\ Filter!Given(c, cachedTools) /\ discoverMu' = None
    BY <1>1, <1>4, <2>1, <2>2 DEF Filter!Again
  <2>3. CASE cachedTools = None /\ Filter!To(c, "ask") /\ UNCHANGED <<got, discoverMu>>
    BY <1>1, <1>4, <2>1, <2>3 DEF Filter!Again
  <2> QED BY <1>4, <2>2, <2>3 DEF Filter!Again
<1>5. ASSUME NEW c \in Callers, Filter!Answered(c) PROVE FilterInv'
  <2>1. /\ at[c] = "ask" /\ at' = [at EXCEPT ![c] = "publish"] /\ discoverMu = c /\ cachedTools = None
        /\ UNCHANGED <<lists, cachedTools, discoverMu, got, looks>> /\ discoveries' = discoveries + 1
    BY <1>5 DEF Filter!Answered
  <2>2. \A d \in Callers : at[d] \in {"again", "ask", "publish"} => d = c
    BY <2>1
  <2>3. discoveries = 0
    BY <2>1, <2>2
  <2>4. tools' \in Offers
    BY <1>5 DEF Filter!Answered
  <2>5. \A d \in Callers : got[d] = None
    BY <2>1
  <2>6. /\ \A d \in Callers : at'[d] \in {"again", "ask", "publish"} <=> discoverMu' = d
        /\ \A d \in Callers : at'[d] \in {"ask", "publish"} => d = c
        /\ at'[c] = "publish" /\ at' \in [Callers -> {"out", "lock", "again", "ask", "publish"}]
    BY <2>1, <2>2
  <2> QED BY <1>1, <2>1, <2>3, <2>4, <2>5, <2>6
<1>6. ASSUME NEW c \in Callers, Filter!Failed(c) PROVE FilterInv'
  BY <1>1, <1>6 DEF Filter!Failed
<1>7. ASSUME NEW c \in Callers, Filter!Publish(c) PROVE FilterInv'
  <2>1. /\ at[c] = "publish" /\ discoverMu = c /\ cachedTools = None /\ cachedTools' = Filter!Kept(tools)
        /\ at' = [at EXCEPT ![c] = "out"] /\ got' = [got EXCEPT ![c] = cachedTools'] /\ discoverMu' = None
        /\ UNCHANGED <<lists, tools, looks, discoveries>>
    BY <1>7 DEF Filter!Publish
  <2>2. cachedTools' # None /\ cachedTools' \subseteq tools
    <3>1. tools \in Offers
      BY <2>1
    <3> QED BY <2>1, <3>1, KeptIsAList DEF Filter!Kept
  <2>3. \A d \in Callers : at[d] \in {"again", "ask", "publish"} => d = c
    BY <2>1
  <2>4. cachedTools' = Filter!Kept(tools)'
    BY <2>1 DEF Filter!Kept, Filter!isToolAllowed, Filter!isToolDenied
  <2>5. /\ \A d \in Callers : at'[d] \notin {"again", "ask", "publish"}
        /\ at' \in [Callers -> {"out", "lock", "again", "ask", "publish"}]
    BY <2>1, <2>3
  <2>6. \A d \in Callers : got'[d] \in {None, cachedTools'}
    BY <2>1
  <2> QED BY <1>1, <2>1, <2>2, <2>4, <2>5, <2>6
<1> QED BY <1>2, <1>3, <1>4, <1>5, <1>6, <1>7 DEF Filter!Next, Filter!Step

\* With the lists as the documentation words them.
LEMMA DiscoversOnceHolds ==
  ASSUME FilterInv
  PROVE  DiscoversOnce
<1>1. discoveries <= 1 /\ \A c \in Callers : got[c] \in {None, cachedTools}
  BY DEF FilterInv
<1>2. cachedTools # None => \A tool \in tools :
        tool \in cachedTools <=>
          LET names == {tool, Filter!Short(tool)}
          IN  names \cap lists.deny = {} /\ (lists.allow = {} \/ names \cap lists.allow # {})
  BY DEF FilterInv, Filter!Kept, Filter!isToolAllowed, Filter!isToolDenied, Filter!Named
<1> QED BY <1>1, <1>2 DEF DiscoversOnce, Filter!DiscoversOnce

-----------------------------------------------------------------------------
(* The access token *)

\* The periods, as integers that add up.
LEMMA Periods ==
  /\ CacheTTL \in Nat /\ Timeout \in Nat /\ MaxTime \in Nat /\ ExpiresIn \in Nat /\ Margin \in Nat
  /\ Timeout <= MaxTime /\ Margin >= Timeout /\ ExpiresIn > Margin
BY ServicesAssumption

LEMMA TokenNumbers ==
  ASSUME TokenTypes
  PROVE  /\ now \in Nat /\ now <= MaxTime /\ tokenExpiry \in Int
         /\ \A t \in DOMAIN issued : issued[t] \in Nat
         /\ accessToken \in DOMAIN issued /\ DOMAIN issued \subseteq Nat
         /\ Timeout \in Nat /\ MaxTime \in Nat /\ ExpiresIn \in Nat /\ Margin \in Nat
         /\ Margin >= Timeout /\ ExpiresIn > Margin
<1>1. now \in 0..MaxTime /\ issued \in Seq(0..MaxTime) /\ accessToken \in DOMAIN issued /\ tokenExpiry \in Int
  BY DEF TokenTypes
<1>2. DOMAIN issued = 1..Len(issued) /\ Len(issued) \in Nat
  BY <1>1
<1>3. \A t \in 1..Len(issued) : issued[t] \in 0..MaxTime
  BY <1>1, ElementOfSeq
<1> QED BY <1>1, <1>2, <1>3, Periods

\* A call that c makes is one, with fields of their types.
LEMMA CallFields ==
  ASSUME TokenTypes, NEW c \in Callers, caller[c] # None
  PROVE  /\ caller[c].at \in {"ask", "token", "expiry", "use"} /\ caller[c].since \in Nat
         /\ caller[c].token \in Nat \cup {None} /\ caller[c] \in Token!Calls
BY DEF TokenTypes, Token!Calls

\* Tokens stay what they are, and no time passes.
Longer ==
  /\ DOMAIN issued \subseteq DOMAIN issued' /\ \A t \in DOMAIN issued : issued'[t] = issued[t]
  /\ now' = now

\* A token that has just arrived is as good as the one before for the others.
LEMMA OthersGoOn ==
  ASSUME TokenTypes, Longer, NEW d \in Callers, CallOK(d), caller'[d] = caller[d],
         accessToken' = accessToken \/ now <= issued'[accessToken'] + Timeout,
         issued'[accessToken'] \in Nat
  PROVE  CallOK(d)'
<1>1. CASE caller[d] = None
  BY <1>1 DEF CallOK
<1>2. CASE caller[d] # None
  <2>1. /\ caller[d].since <= now /\ now <= caller[d].since + Timeout
        /\ caller[d].token \in DOMAIN issued \cup {None}
        /\ caller[d].at = "token" => caller[d].token # None /\ issued[caller[d].token] >= caller[d].since
        /\ caller[d].at = "expiry" => now <= issued[accessToken] + Timeout
        /\ caller[d].at = "use" => now <= issued[accessToken] + ExpiresIn
    BY <1>2 DEF CallOK
  <2>2. /\ caller[d].at = "expiry" => now <= issued'[accessToken'] + Timeout
        /\ caller[d].at = "use" => now <= issued'[accessToken'] + ExpiresIn
    BY <2>1, TokenNumbers DEF Longer
  <2> QED BY <2>1, <2>2 DEF CallOK, Longer
<1> QED BY <1>1, <1>2

LEMMA UsedStays ==
  ASSUME TokenTypes, Longer, UsedOK, used' = used
  PROVE  UsedOK'
BY DEF UsedOK, Longer

\* One caller moves, to the record new, and no token arrives.
LEMMA OneMoves ==
  ASSUME TokenInv, NEW c \in Callers, NEW new \in Token!Calls \cup {None},
         caller' = [caller EXCEPT ![c] = new], CallOK(c)',
         UNCHANGED <<now, issued, accessToken, tokenExpiry, used>>
  PROVE  TokenInv'
<1>1. Longer
  BY DEF Longer
<1>2. \A d \in Callers : CallOK(d)'
  <2>1. ASSUME NEW d \in Callers, d # c PROVE CallOK(d)'
    BY <1>1, <2>1, OthersGoOn, TokenNumbers DEF TokenInv, TokenTypes
  <2> QED BY <2>1
<1> QED BY <1>2 DEF TokenInv, TokenTypes, ExpiryOK, UsedOK, Token!Calls, Token!Uses

LEMMA TokenKept ==
  ASSUME TokenInv, Token!Next
  PROVE  TokenInv'
<1>1. TokenTypes /\ ExpiryOK /\ UsedOK /\ \A c \in Callers : CallOK(c)
  BY DEF TokenInv
<1>2. None \notin Nat /\ None \notin Token!Calls /\ None \notin Token!Uses
  BY NoneAssumption
<1>3. ASSUME NEW c \in Callers, Token!Begin(c) PROVE TokenInv'
  <2> DEFINE new == [at |-> IF now > tokenExpiry THEN "ask" ELSE "use", since |-> now, token |-> None]
  <2>1. new \in Token!Calls
    BY <1>1, TokenNumbers DEF Token!Calls
  <2>2. caller' = [caller EXCEPT ![c] = new] /\ UNCHANGED <<now, issued, accessToken, tokenExpiry, used>>
    BY <1>3 DEF Token!Begin
  <2>3. caller'[c] = new
    BY <1>1, <2>2 DEF TokenTypes
  <2>4. new.at = "use" => now <= issued[accessToken] + ExpiresIn
    BY <1>1, TokenNumbers DEF ExpiryOK
  <2>5. CallOK(c)'
    BY <1>1, <2>2, <2>3, <2>4, TokenNumbers DEF CallOK
  <2> QED BY <2>1, <2>2, <2>5, OneMoves
<1>4. ASSUME NEW c \in Callers, Token!Fail(c) PROVE TokenInv'
  <2>1. caller' = [caller EXCEPT ![c] = None] /\ UNCHANGED <<now, issued, accessToken, tokenExpiry, used>>
    BY <1>4 DEF Token!Fail
  <2>2. CallOK(c)'
    BY <1>1, <2>1 DEF CallOK, TokenTypes
  <2> QED BY <2>1, <2>2, OneMoves
<1>5. ASSUME NEW c \in Callers, Token!Issue(c) PROVE TokenInv'
  <2> DEFINE new == [caller[c] EXCEPT !.at = "token", !.token = Len(issued) + 1]
  <2>1. /\ caller[c] # None /\ issued' = Append(issued, now) /\ caller' = [caller EXCEPT ![c] = new]
        /\ UNCHANGED <<now, accessToken, tokenExpiry, used>>
    BY <1>5 DEF Token!Issue, Token!Is
  <2>2. issued \in Seq(0..MaxTime) /\ now \in 0..MaxTime
    BY <1>1 DEF TokenTypes
  <2>3. /\ issued' \in Seq(0..MaxTime) /\ Len(issued') = Len(issued) + 1 /\ issued'[Len(issued) + 1] = now
        /\ \A t \in 1..Len(issued) : issued'[t] = issued[t]
    BY <2>1, <2>2, AppendProperties
  <2>4. Longer /\ Len(issued) + 1 \in DOMAIN issued'
    BY <2>1, <2>2, <2>3 DEF Longer
  <2>5. new \in Token!Calls /\ new.since = caller[c].since /\ new.at = "token" /\ new.token = Len(issued) + 1
    <3>1. Len(issued) + 1 \in Nat
      BY <2>2
    <3>2. caller[c] \in Token!Calls
      BY <1>1, <2>1, CallFields
    <3> QED BY <3>1, <3>2 DEF Token!Calls
  <2>6. CallOK(c)'
    <3>1. caller'[c] = new
      BY <1>1, <2>1 DEF TokenTypes
    <3>2. caller[c].since <= now /\ now <= caller[c].since + Timeout
      BY <1>1, <2>1 DEF CallOK
    <3>3. Len(issued) + 1 # None
      BY <1>2, <2>2
    <3> QED BY <2>1, <2>3, <2>4, <2>5, <3>1, <3>2, <3>3 DEF CallOK
  <2>7. \A d \in Callers : CallOK(d)'
    <3>1. ASSUME NEW d \in Callers, d # c PROVE CallOK(d)'
      <4>1. caller'[d] = caller[d] /\ issued'[accessToken'] \in Nat
        BY <1>1, <2>1, <2>4, <3>1, TokenNumbers DEF TokenTypes, Longer
      <4> QED BY <1>1, <2>1, <2>4, <4>1, OthersGoOn
    <3> QED BY <2>6, <3>1
  <2>8. TokenTypes' /\ ExpiryOK' /\ UsedOK'
    BY <1>1, <2>1, <2>3, <2>4, <2>5, UsedStays DEF TokenTypes, ExpiryOK, Longer, Token!Calls, Token!Uses
  <2> QED BY <2>7, <2>8 DEF TokenInv
<1>6. ASSUME NEW c \in Callers, Token!SetToken(c) PROVE TokenInv'
  <2> DEFINE new == [caller[c] EXCEPT !.at = "expiry"]
  <2>1. /\ caller[c] # None /\ caller[c].at = "token" /\ accessToken' = caller[c].token
        /\ caller' = [caller EXCEPT ![c] = new] /\ UNCHANGED <<now, issued, tokenExpiry, used>>
    BY <1>6 DEF Token!SetToken, Token!Is, Token!To
  <2>2. new \in Token!Calls /\ new.since = caller[c].since /\ new.at = "expiry" /\ new.token = caller[c].token
    BY <1>1, <2>1, CallFields DEF Token!Calls
  <2>3. /\ caller[c].since <= now /\ now <= caller[c].since + Timeout
        /\ caller[c].token \in DOMAIN issued /\ issued[caller[c].token] >= caller[c].since
    BY <1>1, <2>1 DEF CallOK
  <2>4. now <= issued'[accessToken'] + Timeout /\ accessToken' \in DOMAIN issued /\ issued'[accessToken'] \in Nat
    BY <1>1, <2>1, <2>3, CallFields, TokenNumbers
  <2>5. Longer
    BY <2>1 DEF Longer
  <2>6. CallOK(c)'
    <3>1. caller'[c] = new
      BY <1>1, <2>1 DEF TokenTypes
    <3> QED BY <2>1, <2>2, <2>3, <2>4, <3>1 DEF CallOK
  <2>7. \A d \in Callers : CallOK(d)'
    <3>1. ASSUME NEW d \in Callers, d # c PROVE CallOK(d)'
      <4>1. caller'[d] = caller[d]
        BY <1>1, <2>1, <3>1 DEF TokenTypes
      <4> QED BY <1>1, <2>4, <2>5, <4>1, OthersGoOn
    <3> QED BY <2>6, <3>1
  <2>8. ExpiryOK'
    <3>1. tokenExpiry <= now + ExpiresIn - Margin
      BY <1>1 DEF ExpiryOK
    <3>2. tokenExpiry + Margin <= issued'[accessToken'] + Timeout + ExpiresIn
      BY <1>1, <2>4, <3>1, TokenNumbers
    <3> QED BY <2>1, <3>1, <3>2 DEF ExpiryOK
  <2>9. TokenTypes' /\ UsedOK'
    BY <1>1, <2>1, <2>2, <2>4, <2>5, UsedStays DEF TokenTypes, Token!Calls, Token!Uses
  <2> QED BY <2>7, <2>8, <2>9 DEF TokenInv
<1>7. ASSUME NEW c \in Callers, Token!SetExpiry(c) PROVE TokenInv'
  <2> DEFINE new == [caller[c] EXCEPT !.at = "use"]
  <2>1. /\ caller[c] # None /\ caller[c].at = "expiry" /\ tokenExpiry' = now + ExpiresIn - Margin
        /\ caller' = [caller EXCEPT ![c] = new] /\ UNCHANGED <<now, issued, accessToken, used>>
    BY <1>7 DEF Token!SetExpiry, Token!Expiry, Token!Is, Token!To
  <2>2. new \in Token!Calls /\ new.since = caller[c].since /\ new.at = "use" /\ new.token = caller[c].token
    BY <1>1, <2>1, CallFields DEF Token!Calls
  <2>3. /\ caller[c].since <= now /\ now <= caller[c].since + Timeout
        /\ caller[c].token \in DOMAIN issued \cup {None} /\ now <= issued[accessToken] + Timeout
    BY <1>1, <2>1 DEF CallOK
  <2>4. now <= issued[accessToken] + ExpiresIn
    BY <1>1, <2>3, TokenNumbers
  <2>5. CallOK(c)'
    <3>1. caller'[c] = new
      BY <1>1, <2>1 DEF TokenTypes
    <3> QED BY <2>1, <2>2, <2>3, <2>4, <3>1 DEF CallOK
  <2>6. Longer
    BY <2>1 DEF Longer
  <2>7. \A d \in Callers : CallOK(d)'
    <3>1. ASSUME NEW d \in Callers, d # c PROVE CallOK(d)'
      <4>1. caller'[d] = caller[d] /\ issued'[accessToken'] \in Nat
        BY <1>1, <2>1, <3>1, TokenNumbers DEF TokenTypes
      <4> QED BY <1>1, <2>1, <2>6, <4>1, OthersGoOn
    <3> QED BY <2>5, <3>1
  <2>8. ExpiryOK'
    BY <1>1, <2>1, <2>3, TokenNumbers DEF ExpiryOK
  <2>9. TokenTypes'
    <3>1. now + ExpiresIn - Margin \in Int
      BY <1>1, TokenNumbers
    <3> QED BY <1>1, <2>1, <2>2, <3>1 DEF TokenTypes, Token!Calls, Token!Uses
  <2>10. UsedOK'
    BY <1>1, <2>1, <2>6, UsedStays
  <2> QED BY <2>7, <2>8, <2>9, <2>10 DEF TokenInv
<1>8. ASSUME NEW c \in Callers, Token!Use(c) PROVE TokenInv'
  <2>1. /\ caller[c] # None /\ caller[c].at = "use" /\ used' = [token |-> accessToken, at |-> now]
        /\ caller' = [caller EXCEPT ![c] = None] /\ UNCHANGED <<now, issued, accessToken, tokenExpiry>>
    BY <1>8 DEF Token!Use, Token!Is
  <2>2. now <= issued[accessToken] + ExpiresIn
    BY <1>1, <2>1 DEF CallOK
  <2>3. used' \in Token!Uses /\ UsedOK'
    BY <1>1, <2>1, <2>2, TokenNumbers DEF UsedOK, Token!Uses
  <2>4. \A d \in Callers : CallOK(d)'
    BY <1>1, <2>1 DEF CallOK, TokenTypes
  <2>5. TokenTypes' /\ ExpiryOK'
    BY <1>1, <2>1, <2>3 DEF TokenTypes, ExpiryOK, Token!Calls, Token!Uses
  <2> QED BY <2>3, <2>4, <2>5 DEF TokenInv
<1>9. CASE Token!Tick
  <2>1. /\ now < MaxTime /\ now' = now + 1 /\ UNCHANGED <<issued, accessToken, tokenExpiry, caller, used>>
        /\ \A c \in Callers : caller[c] # None =>
             caller[c].at \in {"ask", "token"} /\ now < caller[c].since + Timeout
    BY <1>9 DEF Token!Tick, Token!Waiting, Token!Is
  <2>2. ASSUME NEW c \in Callers PROVE CallOK(c)'
    <3>1. CASE caller[c] = None
      BY <2>1, <3>1 DEF CallOK
    <3>2. CASE caller[c] # None
      <4>1. caller[c].since <= now + 1 /\ now + 1 <= caller[c].since + Timeout
        BY <1>1, <2>1, <3>2, CallFields, TokenNumbers DEF CallOK
      <4> QED BY <1>1, <2>1, <3>2, <4>1 DEF CallOK
    <3> QED BY <3>1, <3>2
  <2>3. TokenTypes'
    <3>1. now + 1 \in 0..MaxTime
      BY <1>1, <2>1, TokenNumbers
    <3> QED BY <1>1, <2>1, <3>1 DEF TokenTypes, Token!Calls, Token!Uses
  <2>4. ExpiryOK'
    BY <1>1, <2>1, TokenNumbers DEF ExpiryOK
  <2>5. UsedOK'
    <3>1. used # None => used.at \in Nat
      BY <1>1 DEF TokenTypes, Token!Uses
    <3> QED BY <1>1, <2>1, <3>1, TokenNumbers DEF UsedOK
  <2> QED BY <2>2, <2>3, <2>4, <2>5 DEF TokenInv
<1> QED BY <1>3, <1>4, <1>5, <1>6, <1>7, <1>8, <1>9 DEF Token!Next, Token!Step

LEMMA TokenHolds ==
  ASSUME TokenInv
  PROVE  Token!TypeOK /\ Token!TokensAreValid
<1>1. \A c \in Callers : caller[c] # None =>
        caller[c].since <= now /\ caller[c].token \in DOMAIN issued \cup {None}
  BY DEF TokenInv, CallOK
<1> QED BY <1>1 DEF TokenInv, TokenTypes, UsedOK, Token!TypeOK, Token!TokensAreValid

\* Where no call is made the passing of time changes nothing.
LEMMA TokenRests ==
  ASSUME TokenInv, caller = [c \in Callers |-> None], UNCHANGED tokenVars,
         now' \in 0..MaxTime, now <= now'
  PROVE  TokenInv'
<1>1. \A c \in Callers : caller'[c] = None
  BY DEF tokenVars
<1>2. \A c \in Callers : CallOK(c)'
  BY <1>1 DEF CallOK
<1>3. TokenTypes /\ ExpiryOK /\ UsedOK
  BY DEF TokenInv
<1>4. used # None => used.at \in Nat
  BY <1>3 DEF TokenTypes, Token!Uses
<1>5. ExpiryOK'
  BY <1>3, TokenNumbers DEF tokenVars, ExpiryOK
<1>6. UsedOK'
  BY <1>3, <1>4, TokenNumbers DEF tokenVars, UsedOK
<1>7. TokenTypes'
  BY <1>3 DEF tokenVars, TokenTypes, Token!Calls, Token!Uses
<1> QED BY <1>2, <1>5, <1>6, <1>7 DEF TokenInv

-----------------------------------------------------------------------------
(* The summaries *)

LEMMA SummaryNumbers ==
  ASSUME SummaryTypes
  PROVE  /\ now \in Nat /\ now <= MaxTime /\ Len(ended) \in Nat /\ DOMAIN ended = 1..Len(ended)
         /\ \A v \in 1..Len(ended) : ended[v] \in Nat
         /\ Timeout \in Nat /\ CacheTTL \in Nat /\ MaxTime \in Nat
         /\ Summary!Current = Len(ended) + 1
<1>1. now \in 0..MaxTime /\ ended \in Seq(0..MaxTime)
  BY DEF SummaryTypes
<1>2. \A v \in 1..Len(ended) : ended[v] \in 0..MaxTime
  BY <1>1, ElementOfSeq
<1> QED BY <1>1, <1>2, Periods DEF Summary!Current

LEMMA SummaryFields ==
  ASSUME SummaryTypes
  PROVE  /\ \A c \in Callers : fetch[c] # None =>
              fetch[c] \in Summary!Fetches /\ fetch[c].since \in Nat /\ fetch[c].version \in Nat \cup {None}
         /\ cache # None => cache.version \in Nat /\ cache.expiresAt \in Nat
         /\ served # None => served.version \in Nat /\ served.at \in Nat
BY DEF SummaryTypes, Summary!Fetches, Summary!Entries, Summary!Served

\* What was fetched goes into the cache no longer after it was replaced than a
\* call takes.
LEMMA StoreKept ==
  ASSUME SummaryInv, NEW c \in Callers, Summary!Store(c)
  PROVE  SummaryInv'
<1>1. SummaryTypes /\ CacheOK /\ ServedOK /\ \A d \in Callers : FetchOK(d)
  BY DEF SummaryInv
<1> DEFINE v == fetch[c].version
<1>2. /\ fetch[c] # None /\ v # None /\ cache' = [version |-> v, expiresAt |-> now + CacheTTL]
      /\ served' = [version |-> v, at |-> now] /\ fetch' = [fetch EXCEPT ![c] = None]
      /\ UNCHANGED <<now, ended>>
  BY DEF Summary!Store, Summary!Serve
<1>3. v \in 1..Summary!Current /\ (v # Summary!Current => now <= ended[v] + Timeout)
  <2>1. fetch[c].since <= now /\ now <= fetch[c].since + Timeout /\ v \in 1..Summary!Current
        /\ (v # Summary!Current => fetch[c].since <= ended[v])
    BY <1>1, <1>2 DEF FetchOK
  <2>2. v # Summary!Current => ended[v] \in Nat
    BY <1>1, <2>1, SummaryNumbers
  <2> QED BY <1>1, <1>2, <2>1, <2>2, SummaryNumbers, SummaryFields
<1> HIDE DEF v
<1>4. Summary!Current' = Summary!Current
  BY <1>2 DEF Summary!Current
<1>5. v \in Nat /\ (v # Summary!Current => ended[v] \in Nat)
  BY <1>1, <1>3, SummaryNumbers
<1>6. CacheOK'
  BY <1>1, <1>2, <1>3, <1>4, <1>5, SummaryNumbers DEF CacheOK
<1>7. ServedOK'
  BY <1>1, <1>2, <1>3, <1>4, <1>5, SummaryNumbers DEF ServedOK
<1>8. SummaryTypes'
  BY <1>1, <1>2, <1>5, SummaryNumbers DEF SummaryTypes, Summary!Entries, Summary!Served, Summary!Fetches
<1>9. \A d \in Callers : FetchOK(d)'
  BY <1>1, <1>2, <1>4 DEF SummaryTypes, FetchOK
<1> QED BY <1>6, <1>7, <1>8, <1>9 DEF SummaryInv

LEMMA SummaryKept ==
  ASSUME SummaryInv, Summary!Next
  PROVE  SummaryInv'
<1>1. SummaryTypes /\ CacheOK /\ ServedOK /\ \A c \in Callers : FetchOK(c)
  BY DEF SummaryInv
<1>2. None \notin Nat
  BY NoneAssumption
<1>3. ASSUME NEW c \in Callers, Summary!Hit(c) PROVE SummaryInv'
  <2>1. /\ cache # None /\ now < cache.expiresAt /\ served' = [version |-> cache.version, at |-> now]
        /\ UNCHANGED <<now, ended, cache, fetch>>
    BY <1>3 DEF Summary!Hit, Summary!Cached, Summary!Serve
  <2>2. Summary!Current' = Summary!Current
    BY <2>1 DEF Summary!Current
  <2>3. cache.version \in 1..Summary!Current /\ (cache.version # Summary!Current => ended[cache.version] \in Nat)
    BY <1>1, <2>1, SummaryNumbers DEF CacheOK
  <2>4. ServedOK'
    <3>1. cache.version # Summary!Current => now <= ended[cache.version] + CacheTTL + Timeout
      BY <1>1, <2>1, <2>3, SummaryNumbers, SummaryFields DEF CacheOK
    <3> QED BY <1>1, <2>1, <2>2, <2>3, <3>1, SummaryNumbers DEF ServedOK
  <2>5. SummaryTypes'
    BY <1>1, <2>1, SummaryNumbers, SummaryFields DEF SummaryTypes, Summary!Served, Summary!Entries, Summary!Fetches
  <2>6. CacheOK' /\ \A d \in Callers : FetchOK(d)'
    BY <1>1, <2>1, <2>2 DEF CacheOK, FetchOK
  <2> QED BY <2>4, <2>5, <2>6 DEF SummaryInv
<1>4. ASSUME NEW c \in Callers, Summary!Miss(c) \/ Summary!Answered(c) \/ Summary!Fail(c) PROVE SummaryInv'
  <2>1. UNCHANGED <<now, ended, cache, served>>
    BY <1>4 DEF Summary!Miss, Summary!Answered, Summary!Fail
  <2>2. Summary!Current' = Summary!Current
    BY <2>1 DEF Summary!Current
  <2>3. CacheOK' /\ ServedOK'
    BY <1>1, <2>1, <2>2 DEF CacheOK, ServedOK
  <2>4. PICK new \in Summary!Fetches \cup {None} : fetch' = [fetch EXCEPT ![c] = new] /\ FetchOK(c)'
    <3>1. CASE Summary!Miss(c)
      <4> DEFINE new == [since |-> now, version |-> None]
      <4>1. new \in Summary!Fetches
        BY <1>1, SummaryNumbers DEF Summary!Fetches
      <4>2. fetch' = [fetch EXCEPT ![c] = new] /\ fetch'[c] = new
        BY <1>1, <3>1 DEF Summary!Miss, SummaryTypes
      <4>3. FetchOK(c)'
        BY <1>1, <2>1, <4>2, SummaryNumbers DEF FetchOK
      <4> QED BY <4>1, <4>2, <4>3
    <3>2. CASE Summary!Answered(c)
      <4> DEFINE new == [fetch[c] EXCEPT !.version = Summary!Current]
      <4>1. fetch[c] # None /\ fetch' = [fetch EXCEPT ![c] = new] /\ fetch'[c] = new
        BY <1>1, <3>2 DEF Summary!Answered, SummaryTypes
      <4>2. Summary!Current \in 1..Summary!Current /\ Summary!Current \in Nat
        BY <1>1, SummaryNumbers
      <4>3. new \in Summary!Fetches /\ new.since = fetch[c].since /\ new.version = Summary!Current
        BY <1>1, <4>1, <4>2, SummaryFields DEF Summary!Fetches
      <4>4. FetchOK(c)'
        BY <1>1, <2>1, <2>2, <4>1, <4>2, <4>3 DEF FetchOK
      <4> QED BY <4>1, <4>3, <4>4
    <3>3. CASE Summary!Fail(c)
      <4>1. fetch' = [fetch EXCEPT ![c] = None] /\ fetch'[c] = None
        BY <1>1, <3>3 DEF Summary!Fail, SummaryTypes
      <4>2. FetchOK(c)'
        BY <4>1 DEF FetchOK
      <4> QED BY <4>1, <4>2
    <3> QED BY <1>4, <3>1, <3>2, <3>3
  <2>5. \A d \in Callers : FetchOK(d)'
    <3>1. ASSUME NEW d \in Callers, d # c PROVE FetchOK(d)'
      <4>1. fetch'[d] = fetch[d]
        BY <1>1, <2>4, <3>1 DEF SummaryTypes
      <4> QED BY <1>1, <2>1, <2>2, <4>1 DEF FetchOK
    <3> QED BY <2>4, <3>1
  <2>6. SummaryTypes'
    BY <1>1, <2>1, <2>4 DEF SummaryTypes, Summary!Served, Summary!Entries, Summary!Fetches
  <2> QED BY <2>3, <2>5, <2>6 DEF SummaryInv
<1>5. CASE Summary!Change
  <2>1. ended' = Append(ended, now) /\ UNCHANGED <<now, cache, fetch, served>>
    BY <1>5 DEF Summary!Change
  <2>2. now \in 0..MaxTime /\ ended \in Seq(0..MaxTime)
    BY <1>1 DEF SummaryTypes
  <2>3. /\ ended' \in Seq(0..MaxTime) /\ Len(ended') = Len(ended) + 1 /\ ended'[Len(ended) + 1] = now
        /\ \A v \in 1..Len(ended) : ended'[v] = ended[v]
    BY <2>1, <2>2, AppendProperties
  <2>4. /\ Summary!Current' = Summary!Current + 1 /\ ended'[Summary!Current] = now
        /\ \A v \in 1..Summary!Current : v # Summary!Current => ended'[v] = ended[v] /\ ended[v] \in Nat
        /\ 1..Summary!Current \subseteq 1..Summary!Current' /\ Summary!Current \in Nat
        /\ Summary!Current' \notin 1..Summary!Current
    BY <1>1, <2>3, SummaryNumbers DEF Summary!Current
  <2>5. CacheOK'
    BY <1>1, <2>1, <2>4, SummaryNumbers, SummaryFields DEF CacheOK
  <2>6. ServedOK'
    BY <1>1, <2>1, <2>4, SummaryNumbers, SummaryFields DEF ServedOK
  <2>7. ASSUME NEW c \in Callers PROVE FetchOK(c)'
    BY <1>1, <1>2, <2>1, <2>4, SummaryNumbers, SummaryFields DEF FetchOK
  <2>8. SummaryTypes'
    BY <1>1, <2>1, <2>3 DEF SummaryTypes, Summary!Served, Summary!Entries, Summary!Fetches
  <2> QED BY <2>5, <2>6, <2>7, <2>8 DEF SummaryInv
<1>6. CASE Summary!Tick
  <2>1. /\ now < MaxTime /\ now' = now + 1 /\ UNCHANGED <<ended, cache, fetch, served>>
        /\ \A c \in Callers : fetch[c] # None => now < fetch[c].since + Timeout
    BY <1>6 DEF Summary!Tick
  <2>2. Summary!Current' = Summary!Current
    BY <2>1 DEF Summary!Current
  <2>3. CacheOK'
    BY <1>1, <2>1, <2>2, SummaryNumbers, SummaryFields DEF CacheOK
  <2>4. ServedOK'
    BY <1>1, <2>1, <2>2, SummaryNumbers, SummaryFields DEF ServedOK
  <2>5. ASSUME NEW c \in Callers PROVE FetchOK(c)'
    BY <1>1, <2>1, <2>2, SummaryNumbers, SummaryFields DEF FetchOK
  <2>6. SummaryTypes'
    <3>1. now + 1 \in 0..MaxTime
      BY <1>1, <2>1, SummaryNumbers
    <3> QED BY <1>1, <2>1, <3>1 DEF SummaryTypes, Summary!Served, Summary!Entries, Summary!Fetches
  <2> QED BY <2>3, <2>4, <2>5, <2>6 DEF SummaryInv
<1> QED BY <1>3, <1>4, <1>5, <1>6, StoreKept DEF Summary!Next, Summary!Step

LEMMA SummaryHolds ==
  ASSUME SummaryInv
  PROVE  Summary!TypeOK /\ Summary!SummariesAreFresh
<1>1. SummaryTypes /\ CacheOK /\ ServedOK /\ \A c \in Callers : FetchOK(c)
  BY DEF SummaryInv
<1>2. Summary!SummariesAreFresh
  BY <1>1 DEF ServedOK, Summary!SummariesAreFresh
<1>3. Summary!TypeOK
  BY <1>1 DEF SummaryTypes, CacheOK, ServedOK, FetchOK, Summary!TypeOK
<1> QED BY <1>2, <1>3

-----------------------------------------------------------------------------
(* Scratchpads: what a step leaves as it is *)

LEMMA ScratchpadNumbers ==
  ASSUME ScratchpadTypes
  PROVE  /\ DOMAIN dashboards = 1..Len(dashboards) /\ Len(dashboards) \in Nat
         /\ \A uid \in Scratchpad!Live : dashboards[uid] \in Scratchpad!Dashboards
         /\ Scratchpad!Live \subseteq DOMAIN dashboards
         /\ None \notin DOMAIN dashboards
         /\ day \in Nat /\ day <= MaxDays /\ MaxDays \in Nat /\ Ttl \in Nat /\ cleaned \in Int
<1>1. dashboards \in Seq(Scratchpad!Dashboards \cup {None}) /\ day \in 0..MaxDays /\ cleaned \in Int
  BY DEF ScratchpadTypes
<1>2. DOMAIN dashboards = 1..Len(dashboards) /\ Len(dashboards) \in Nat
  BY <1>1
<1>3. \A uid \in 1..Len(dashboards) : dashboards[uid] \in Scratchpad!Dashboards \cup {None}
  BY <1>1, ElementOfSeq
<1>4. MaxDays \in Nat /\ Ttl \in Nat
  BY ServicesAssumption
<1> QED BY <1>1, <1>2, <1>3, <1>4, NoneAssumption DEF Scratchpad!Live

\* No scratchpad comes back or changes hands.
Keeps ==
  /\ DOMAIN dashboards \subseteq DOMAIN dashboards' /\ None \notin DOMAIN dashboards'
  /\ \A uid \in DOMAIN dashboards : uid \in Scratchpad!Live' =>
       uid \in Scratchpad!Live /\ dashboards'[uid].session = dashboards[uid].session

LEMMA OwnKept ==
  ASSUME Keeps, NEW s, NEW uid \in DOMAIN dashboards \cup {None}, Own(s, uid)
  PROVE  Own(s, uid)'
BY DEF Keeps, Own, Scratchpad!Live

LEMMA SoundKept ==
  ASSUME Keeps, NEW q, Sound(q),
         q.pc = "save" /\ q.uid \in edited' \ clobbered' => q.uid \in edited \ clobbered
  PROVE  Sound(q)'
<1>1. Own(q.session, q.known)' /\ Own(q.session, q.uid)'
  BY OwnKept DEF Sound
<1>2. q.known \in DOMAIN dashboards' \cup {None} /\ q.uid \in DOMAIN dashboards' \cup {None}
  BY DEF Sound, Keeps
<1>3. Scratchpad!Chats' = Scratchpad!Chats
  BY DEF Scratchpad!Chats, Scratchpad!Places, Scratchpad!Dashboards
<1> QED BY <1>1, <1>2, <1>3 DEF Sound

LEMMA SingleKept ==
  ASSUME Single, Keeps, DOMAIN dashboards' = DOMAIN dashboards, overlapped' = overlapped,
         \A s \in Sessions : Scratchpad!Creating(s)' \subseteq Scratchpad!Creating(s)
  PROVE  Single'
<1>1. \A s \in Sessions : Scratchpad!Hits(s)' \subseteq Scratchpad!Hits(s)
  BY DEF Scratchpad!Hits, Keeps, Scratchpad!Live
<1> QED BY <1>1 DEF Single

\* The places of a request that is about to create a scratchpad.
Creates == {"folder", "mkfolder", "create"}

LEMMA CreatingShrinks ==
  ASSUME ScratchpadTypes, NEW r \in Requests, NEW new,
         request' = [request EXCEPT ![r] = new],
         new # None /\ new.pc \in Creates =>
           request[r] # None /\ request[r].pc \in Creates /\ new.session = request[r].session
  PROVE  \A s \in Sessions : Scratchpad!Creating(s)' \subseteq Scratchpad!Creating(s)
<1>1. request'[r] = new /\ \A q \in Requests : q # r => request'[q] = request[q]
  BY DEF ScratchpadTypes
<1> QED BY <1>1 DEF Scratchpad!Creating, Creates

\* A request moves on, and Grafana stays as it is.
LEMMA RequestMoves ==
  ASSUME ScratchpadInv, NEW r \in Requests, NEW new \in Scratchpad!Chats \cup {None},
         request' = [request EXCEPT ![r] = new], new # None => Sound(new),
         UNCHANGED <<dashboards, day, due, purger, cleaned, edited, clobbered>>,
         \/ stored' = stored
         \/ \E s \in Sessions, uid \in DOMAIN dashboards :
              Own(s, uid) /\ stored' = [stored EXCEPT ![s] = uid],
         folder' \in BOOLEAN, overlapped' \subseteq Sessions, Single'
  PROVE  ScratchpadInv'
<1>1. /\ ScratchpadTypes /\ \A s \in Sessions : Own(s, stored[s])
      /\ \A q \in Requests : request[q] # None => Sound(request[q])
      /\ \A uid \in Scratchpad!Live : Fine(uid)
      /\ Listed'
  BY DEF ScratchpadInv, Listed
<1>2. /\ \A s, uid : Own(s, uid)' <=> Own(s, uid)
      /\ \A uid : Fine(uid)' <=> Fine(uid)
      /\ Scratchpad!Live' = Scratchpad!Live
  BY DEF Own, Fine, Scratchpad!Live
<1>3. /\ Scratchpad!Chats' = Scratchpad!Chats /\ Scratchpad!Runs' = Scratchpad!Runs
      /\ Scratchpad!Dashboards' = Scratchpad!Dashboards
  BY DEF Scratchpad!Chats, Scratchpad!Places, Scratchpad!Dashboards, Scratchpad!Runs
<1>4. /\ stored' \in [Sessions -> DOMAIN dashboards \cup {None}]
      /\ \A s \in Sessions : Own(s, stored'[s])
  BY <1>1 DEF ScratchpadTypes
<1>5. /\ request' \in [Requests -> Scratchpad!Chats \cup {None}]
      /\ \A q \in Requests : request'[q] # None => Sound(request'[q])
  BY <1>1 DEF ScratchpadTypes
<1>6. ScratchpadTypes'
  BY <1>1, <1>3, <1>4, <1>5 DEF ScratchpadTypes
<1>7. (\A q \in Requests : request[q] # None => Sound(request[q]))'
  BY <1>2, <1>3, <1>5 DEF Sound, Own
<1>8. (\A s \in Sessions : Own(s, stored[s]))'
  BY <1>2, <1>4 DEF Own
<1>9. (\A uid \in Scratchpad!Live : Fine(uid))'
  BY <1>1, <1>2 DEF Fine
<1> QED BY <1>1, <1>6, <1>7, <1>8, <1>9 DEF ScratchpadInv

\* The same for one that is not about to create a scratchpad if it was not before.
LEMMA RequestGoesOn ==
  ASSUME ScratchpadInv, NEW r \in Requests, NEW new \in Scratchpad!Chats \cup {None},
         request' = [request EXCEPT ![r] = new], new # None => Sound(new),
         new # None /\ new.pc \in Creates =>
           request[r] # None /\ request[r].pc \in Creates /\ new.session = request[r].session,
         UNCHANGED <<dashboards, day, due, purger, cleaned, overlapped, edited, clobbered>>,
         \/ stored' = stored
         \/ \E s \in Sessions, uid \in DOMAIN dashboards :
              Own(s, uid) /\ stored' = [stored EXCEPT ![s] = uid],
         folder' \in BOOLEAN
  PROVE  ScratchpadInv'
<1>1. ScratchpadTypes /\ Single
  BY DEF ScratchpadInv
<1>2. Keeps
  BY <1>1, ScratchpadNumbers DEF Keeps, Scratchpad!Live
<1>3. Single'
  BY <1>1, <1>2, CreatingShrinks, SingleKept
<1>4. overlapped' \subseteq Sessions
  BY <1>1 DEF ScratchpadTypes
<1> QED BY <1>3, <1>4, RequestMoves

LEMMA ChatFields ==
  ASSUME ScratchpadInv, NEW r \in Requests, request[r] # None
  PROVE  /\ request[r] \in Scratchpad!Chats /\ Sound(request[r])
         /\ request[r].session \in Sessions /\ request[r].pc \in Scratchpad!Places
         /\ request[r].known \in DOMAIN dashboards \cup {None} /\ request[r].uid \in DOMAIN dashboards \cup {None}
         /\ request[r].known \in Nat \cup {None} /\ request[r].uid \in Nat \cup {None}
         /\ request[r].model \in Scratchpad!Dashboards \cup {None}
         /\ request[r].missed \in BOOLEAN /\ request[r].late \in BOOLEAN
<1>1. Sound(request[r])
  BY DEF ScratchpadInv
<1>2. request[r] \in Scratchpad!Chats
  BY <1>1 DEF Sound
<1> QED BY <1>1, <1>2 DEF Sound, Scratchpad!Chats

\* A request that goes to another place keeps what it knows.
LEMMA PlaceIsSound ==
  ASSUME ScratchpadInv, NEW r \in Requests, request[r] # None, NEW place \in Scratchpad!Places,
         place # "save", place \in {"store", "read"} => request[r].uid # None
  PROVE  LET new == [request[r] EXCEPT !.pc = place]
         IN  new \in Scratchpad!Chats /\ new.pc = place /\ new.session = request[r].session /\ Sound(new)
<1> DEFINE new == [request[r] EXCEPT !.pc = place]
<1>1. new \in Scratchpad!Chats
  BY ChatFields DEF Scratchpad!Chats
<1>2. /\ new.pc = place /\ new.session = request[r].session /\ new.known = request[r].known
      /\ new.uid = request[r].uid
  BY ChatFields DEF Scratchpad!Chats
<1>3. Sound(new)
  BY <1>1, <1>2, ChatFields DEF Sound
<1> QED BY <1>1, <1>2, <1>3

\* A call that returns leaves the request with what it knows.
LEMMA ReturnIsSound ==
  ASSUME ScratchpadInv, NEW r \in Requests, request[r] # None,
         Scratchpad!Return(r) \/ Scratchpad!NotFound(r)
  PROVE  \E new \in Scratchpad!Chats :
           /\ request' = [request EXCEPT ![r] = new] /\ Sound(new)
           /\ new.pc = "ready" /\ new.session = request[r].session
           /\ new.known = request[r].known /\ new.uid = None
<1>1. None \notin Scratchpad!Dashboards
  BY NoneAssumption
<1>2. CASE Scratchpad!Return(r)
  <2> DEFINE new == [request[r] EXCEPT !.pc = "ready", !.uid = None, !.model = None]
  <2>1. new \in Scratchpad!Chats
    BY ChatFields DEF Scratchpad!Chats, Scratchpad!Places
  <2>2. new.pc = "ready" /\ new.session = request[r].session /\ new.known = request[r].known /\ new.uid = None
    BY ChatFields DEF Scratchpad!Chats
  <2>3. Own(new.session, None) /\ Own(new.session, request[r].known)
    BY <2>2, ChatFields, ScratchpadNumbers DEF Sound, Own, ScratchpadInv
  <2>4. Sound(new)
    BY <2>1, <2>2, <2>3, ChatFields DEF Sound
  <2> QED BY <1>2, <2>1, <2>2, <2>4 DEF Scratchpad!Return, Scratchpad!Go
<1>3. CASE Scratchpad!NotFound(r)
  <2> DEFINE new == [request[r] EXCEPT !.pc = "ready", !.uid = None, !.model = None, !.missed = TRUE]
  <2>1. new \in Scratchpad!Chats
    BY ChatFields DEF Scratchpad!Chats, Scratchpad!Places
  <2>2. new.pc = "ready" /\ new.session = request[r].session /\ new.known = request[r].known /\ new.uid = None
    BY ChatFields DEF Scratchpad!Chats
  <2>3. Own(new.session, None) /\ Own(new.session, request[r].known)
    BY <2>2, ChatFields, ScratchpadNumbers DEF Sound, Own, ScratchpadInv
  <2>4. Sound(new)
    BY <2>1, <2>2, <2>3, ChatFields DEF Sound
  <2> QED BY <1>3, <2>1, <2>2, <2>4 DEF Scratchpad!NotFound, Scratchpad!Go
<1> QED BY <1>2, <1>3

LEMMA ReturnKept ==
  ASSUME ScratchpadInv, NEW r \in Requests, request[r] # None,
         Scratchpad!Return(r) \/ Scratchpad!NotFound(r),
         UNCHANGED <<stored, dashboards, day, due, purger, cleaned, overlapped, edited, clobbered>>,
         folder' \in BOOLEAN
  PROVE  ScratchpadInv'
<1>1. PICK new \in Scratchpad!Chats :
        request' = [request EXCEPT ![r] = new] /\ Sound(new) /\ new.pc = "ready"
  BY ReturnIsSound
<1>2. new.pc \notin Creates
  BY <1>1 DEF Creates
<1> QED BY <1>1, <1>2, RequestGoesOn

-----------------------------------------------------------------------------
(* Scratchpads: the steps that leave Grafana as it is *)

LEMMA BeginKept ==
  ASSUME ScratchpadInv, NEW r \in Requests, NEW s \in Sessions, Scratchpad!Begin(r, s)
  PROVE  ScratchpadInv'
<1> DEFINE new == [session |-> s, pc |-> "ready", known |-> stored[s], uid |-> None, model |-> None,
                   missed |-> FALSE, late |-> stored[s] # None /\ stored[s] \notin Scratchpad!Live]
<1>1. /\ request' = [request EXCEPT ![r] = new]
      /\ UNCHANGED <<stored, dashboards, folder, day, due, purger, cleaned, overlapped, edited, clobbered>>
  BY DEF Scratchpad!Begin, Scratchpad!Go, Scratchpad!timeVars, Scratchpad!historyVars
<1>2. ScratchpadTypes /\ Own(s, stored[s])
  BY DEF ScratchpadInv
<1>3. stored[s] \in DOMAIN dashboards \cup {None} /\ stored[s] \in Nat \cup {None} /\ None \notin DOMAIN dashboards
  BY <1>2, ScratchpadNumbers DEF ScratchpadTypes
<1>4. new \in Scratchpad!Chats
  BY <1>3 DEF Scratchpad!Chats, Scratchpad!Places
<1>5. Own(s, None)
  BY <1>2, ScratchpadNumbers DEF Own
<1>6. Sound(new)
  BY <1>2, <1>3, <1>4, <1>5 DEF Sound
<1>7. new.pc \notin Creates /\ folder \in BOOLEAN
  BY <1>2 DEF Creates, ScratchpadTypes
<1> QED BY <1>1, <1>4, <1>6, <1>7, RequestGoesOn

LEMMA CallKept ==
  ASSUME ScratchpadInv, NEW r \in Requests, Scratchpad!Call(r)
  PROVE  ScratchpadInv'
<1> DEFINE place == IF request[r].known = None THEN "search" ELSE "read"
           new == [request[r] EXCEPT !.uid = request[r].known, !.pc = place]
<1>1. /\ request[r] # None /\ request' = [request EXCEPT ![r] = new]
      /\ UNCHANGED <<stored, dashboards, folder, day, due, purger, cleaned, overlapped, edited, clobbered>>
  BY DEF Scratchpad!Call, Scratchpad!In, Scratchpad!Go, Scratchpad!timeVars, Scratchpad!historyVars
<1>2. new \in Scratchpad!Chats
  BY <1>1, ChatFields DEF Scratchpad!Chats, Scratchpad!Places
<1>3. /\ new.session = request[r].session /\ new.pc = place /\ new.known = request[r].known
      /\ new.uid = request[r].known
  BY <1>1, ChatFields DEF Scratchpad!Chats
<1>4. Sound(new)
  BY <1>1, <1>2, <1>3, ChatFields DEF Sound
<1>5. new.pc \notin Creates /\ folder \in BOOLEAN
  BY <1>3 DEF Creates, ScratchpadInv, ScratchpadTypes
<1> QED BY <1>1, <1>2, <1>4, <1>5, RequestGoesOn

\* A scratchpad that is found is one's own; who finds none while another is
\* about to create one makes the session one of those with two.
LEMMA SearchKept ==
  ASSUME ScratchpadInv, NEW r \in Requests, Scratchpad!Search(r)
  PROVE  ScratchpadInv'
<1> DEFINE s == request[r].session
<1>1. /\ request[r] # None /\ request[r].pc = "search"
      /\ UNCHANGED <<stored, dashboards, folder, day, due, purger, cleaned, edited, clobbered>>
  BY DEF Scratchpad!Search, Scratchpad!In, Scratchpad!timeVars
<1>2. ScratchpadTypes /\ Single /\ folder \in BOOLEAN /\ s \in Sessions
  BY <1>1, ChatFields DEF ScratchpadInv, ScratchpadTypes
<1>3. ASSUME NEW uid \in Scratchpad!Hits(s), overlapped' = overlapped,
             Scratchpad!Go(r, [request[r] EXCEPT !.pc = "store", !.uid = uid])
      PROVE  ScratchpadInv'
  <2> DEFINE new == [request[r] EXCEPT !.pc = "store", !.uid = uid]
  <2>1. uid \in DOMAIN dashboards /\ Own(s, uid) /\ uid \in Nat /\ uid # None
    BY <1>2, <1>3, ScratchpadNumbers DEF Scratchpad!Hits, Own
  <2>2. new \in Scratchpad!Chats
    BY <1>1, <2>1, ChatFields DEF Scratchpad!Chats, Scratchpad!Places
  <2>3. new.session = s /\ new.pc = "store" /\ new.known = request[r].known /\ new.uid = uid
    BY <1>1, ChatFields DEF Scratchpad!Chats
  <2>4. Sound(new)
    BY <1>1, <2>1, <2>2, <2>3, ChatFields DEF Sound
  <2>5. new.pc \notin Creates /\ request' = [request EXCEPT ![r] = new]
    BY <1>3, <2>3 DEF Creates, Scratchpad!Go
  <2> QED BY <1>1, <1>2, <1>3, <2>2, <2>4, <2>5, RequestGoesOn
<1>4. CASE /\ Scratchpad!Hits(s) = {} /\ Scratchpad!To(r, "folder")
           /\ overlapped' = IF Scratchpad!Creating(s) = {} THEN overlapped ELSE overlapped \cup {s}
  <2> DEFINE new == [request[r] EXCEPT !.pc = "folder"]
  <2>1. /\ new \in Scratchpad!Chats /\ Sound(new) /\ new.session = s
        /\ request' = [request EXCEPT ![r] = new]
    BY <1>1, <1>4, PlaceIsSound DEF Scratchpad!To, Scratchpad!Go, Scratchpad!Places
  <2>2. \A t : Scratchpad!Hits(t)' = Scratchpad!Hits(t)
    BY <1>1 DEF Scratchpad!Hits, Scratchpad!Live
  <2>3. request'[r] = new /\ \A q \in Requests : q # r => request'[q] = request[q]
    BY <1>2, <2>1 DEF ScratchpadTypes
  <2>4. PICK own \in Sessions : own = s
    BY <1>2
  <2>5. ASSUME NEW t \in Sessions, t # own PROVE Scratchpad!Creating(t)' = Scratchpad!Creating(t)
    BY <1>1, <2>1, <2>3, <2>4, <2>5 DEF Scratchpad!Creating
  <2>6. ASSUME NEW t \in Sessions, t \notin overlapped'
        PROVE  /\ \A u, v \in Scratchpad!Hits(t)' : u = v
               /\ \A q, p \in Scratchpad!Creating(t)' : q = p
               /\ Scratchpad!Hits(t)' = {} \/ Scratchpad!Creating(t)' = {}
    <3>1. CASE t = own
      <4>1. Scratchpad!Creating(t) = {} /\ Scratchpad!Hits(t)' = {}
        BY <1>4, <2>2, <2>4, <2>6, <3>1
      <4>2. Scratchpad!Creating(t)' \subseteq Scratchpad!Creating(t) \cup {r}
        BY <2>3 DEF Scratchpad!Creating
      <4> QED BY <4>1, <4>2
    <3>2. CASE t # own
      <4>1. t \in Sessions \ overlapped
        BY <1>4, <2>6
      <4> QED BY <1>2, <2>2, <2>5, <3>2, <4>1 DEF Single
    <3> QED BY <3>1, <3>2
  <2>7. Single'
    BY <2>6 DEF Single
  <2>8. overlapped' \subseteq Sessions
    BY <1>2, <1>4 DEF ScratchpadTypes
  <2> QED BY <1>1, <1>2, <2>1, <2>7, <2>8, RequestMoves
<1>5. CASE Scratchpad!Fails(r) /\ UNCHANGED overlapped
  BY <1>1, <1>2, <1>5, ReturnKept DEF Scratchpad!Fails
<1> QED BY <1>3, <1>4, <1>5 DEF Scratchpad!Search

LEMMA FolderKept ==
  ASSUME ScratchpadInv, NEW r \in Requests, Scratchpad!Folder(r) \/ Scratchpad!MakeFolder(r)
  PROVE  ScratchpadInv'
<1>1. /\ request[r] # None /\ request[r].pc \in Creates
      /\ UNCHANGED <<stored, dashboards, day, due, purger, cleaned, overlapped, edited, clobbered>>
  BY DEF Scratchpad!Folder, Scratchpad!MakeFolder, Scratchpad!In, Scratchpad!timeVars, Scratchpad!historyVars, Creates
<1>2. folder \in BOOLEAN /\ folder' \in BOOLEAN
  BY DEF Scratchpad!Folder, Scratchpad!MakeFolder, ScratchpadInv, ScratchpadTypes
<1>3. ASSUME NEW place \in {"mkfolder", "create"}, Scratchpad!To(r, place)
      PROVE  ScratchpadInv'
  <2> DEFINE new == [request[r] EXCEPT !.pc = place]
  <2>1. new \in Scratchpad!Chats /\ Sound(new) /\ new.session = request[r].session /\ request' = [request EXCEPT ![r] = new]
    BY <1>1, <1>3, PlaceIsSound DEF Scratchpad!To, Scratchpad!Go, Scratchpad!Places
  <2> QED BY <1>1, <1>2, <2>1, RequestGoesOn
<1>4. ASSUME Scratchpad!Return(r) PROVE ScratchpadInv'
  BY <1>1, <1>2, <1>4, ReturnKept
<1>5. \/ Scratchpad!To(r, "create") \/ Scratchpad!To(r, "mkfolder") \/ Scratchpad!Return(r)
  BY DEF Scratchpad!Folder, Scratchpad!MakeFolder, Scratchpad!Fails
<1> QED BY <1>3, <1>4, <1>5

\* The row of the session gets what the request found or created.
LEMMA StoreRowKept ==
  ASSUME ScratchpadInv, NEW r \in Requests, Scratchpad!Store(r)
  PROVE  ScratchpadInv'
<1> DEFINE s == request[r].session
           uid == request[r].uid
<1>1. /\ request[r] # None /\ request[r].pc = "store"
      /\ UNCHANGED <<dashboards, folder, day, due, purger, cleaned, overlapped, edited, clobbered>>
  BY DEF Scratchpad!Store, Scratchpad!In, Scratchpad!timeVars, Scratchpad!historyVars
<1>2. folder \in BOOLEAN /\ uid \in DOMAIN dashboards /\ Own(s, uid) /\ s \in Sessions /\ uid # None
  BY <1>1, ChatFields DEF Sound, ScratchpadInv, ScratchpadTypes
<1>3. CASE /\ stored' = [stored EXCEPT ![s] = uid]
           /\ Scratchpad!Go(r, [request[r] EXCEPT !.pc = "read", !.known = uid])
  <2> DEFINE new == [request[r] EXCEPT !.pc = "read", !.known = uid]
  <2>1. new \in Scratchpad!Chats
    BY <1>1, ChatFields DEF Scratchpad!Chats, Scratchpad!Places
  <2>2. new.session = s /\ new.pc = "read" /\ new.known = uid /\ new.uid = uid
    BY <1>1, ChatFields DEF Scratchpad!Chats
  <2>3. Sound(new)
    BY <1>2, <2>1, <2>2 DEF Sound
  <2>4. new.pc \notin Creates /\ request' = [request EXCEPT ![r] = new]
    BY <1>3, <2>2 DEF Creates, Scratchpad!Go
  <2> QED BY <1>1, <1>2, <1>3, <2>1, <2>3, <2>4, RequestGoesOn
<1>4. CASE Scratchpad!To(r, "read") /\ UNCHANGED stored
  <2> DEFINE new == [request[r] EXCEPT !.pc = "read"]
  <2>1. new \in Scratchpad!Chats /\ Sound(new) /\ new.pc = "read" /\ request' = [request EXCEPT ![r] = new]
    BY <1>1, <1>2, <1>4, PlaceIsSound DEF Scratchpad!To, Scratchpad!Go, Scratchpad!Places
  <2> QED BY <1>1, <1>2, <1>4, <2>1, RequestGoesOn DEF Creates
<1> QED BY <1>3, <1>4 DEF Scratchpad!Store

\* What is read holds the changes of the user.
LEMMA ReadKept ==
  ASSUME ScratchpadInv, NEW r \in Requests, Scratchpad!Read(r)
  PROVE  ScratchpadInv'
<1> DEFINE uid == request[r].uid
           new == [request[r] EXCEPT !.pc = "save", !.model = dashboards[uid]]
<1>1. /\ request[r] # None /\ request[r].pc = "read"
      /\ UNCHANGED <<stored, dashboards, folder, day, due, purger, cleaned, overlapped, edited, clobbered>>
  BY DEF Scratchpad!Read, Scratchpad!In, Scratchpad!timeVars, Scratchpad!historyVars
<1>2. ScratchpadTypes /\ folder \in BOOLEAN
  BY DEF ScratchpadInv, ScratchpadTypes
<1>3. CASE uid \in Scratchpad!Live /\ Scratchpad!Go(r, new)
  <2>1. dashboards[uid] \in Scratchpad!Dashboards /\ dashboards[uid] # None
    BY <1>2, <1>3, ScratchpadNumbers, NoneAssumption
  <2>2. new \in Scratchpad!Chats
    BY <1>1, <2>1, ChatFields DEF Scratchpad!Chats, Scratchpad!Places
  <2>3. /\ new.session = request[r].session /\ new.pc = "save" /\ new.known = request[r].known
        /\ new.uid = uid /\ new.model = dashboards[uid]
    BY <1>1, ChatFields DEF Scratchpad!Chats
  <2>4. dashboards[uid].session = request[r].session
    BY <1>1, <1>3, ChatFields DEF Sound, Own
  <2>5. uid \in edited \ clobbered => dashboards[uid].edited
    BY <1>3 DEF ScratchpadInv, Fine
  <2>6. Sound(new)
    BY <1>1, <2>1, <2>2, <2>3, <2>4, <2>5, ChatFields DEF Sound
  <2>7. new.pc \notin Creates /\ request' = [request EXCEPT ![r] = new]
    BY <1>3, <2>3 DEF Creates, Scratchpad!Go
  <2> QED BY <1>1, <1>2, <2>2, <2>6, <2>7, RequestGoesOn
<1>4. CASE Scratchpad!NotFound(r) \/ Scratchpad!Fails(r)
  BY <1>1, <1>2, <1>4, ReturnKept DEF Scratchpad!Fails
<1> QED BY <1>3, <1>4 DEF Scratchpad!Read

LEMMA EndKept ==
  ASSUME ScratchpadInv, NEW r \in Requests, Scratchpad!End(r)
  PROVE  ScratchpadInv'
<1>1. /\ request' = [request EXCEPT ![r] = None]
      /\ UNCHANGED <<stored, dashboards, folder, day, due, purger, cleaned, overlapped, edited, clobbered>>
  BY DEF Scratchpad!End, Scratchpad!Go, Scratchpad!timeVars, Scratchpad!historyVars
<1>2. folder \in BOOLEAN
  BY DEF ScratchpadInv, ScratchpadTypes
<1> QED BY <1>1, <1>2, RequestGoesOn

-----------------------------------------------------------------------------
(* Scratchpads: the steps that change one *)

\* While a request moves on, what it and the others know stays true.
LEMMA OthersKnow ==
  ASSUME ScratchpadInv, Keeps, NEW r \in Requests, NEW new \in Scratchpad!Chats,
         request' = [request EXCEPT ![r] = new], (Sound(request[r]))',
         UNCHANGED <<stored, edited, clobbered>>
  PROVE  /\ request' \in [Requests -> Scratchpad!Chats \cup {None}]
         /\ (\A q \in Requests : request[q] # None => Sound(request[q]))'
         /\ (\A s \in Sessions : Own(s, stored[s]))'
         /\ stored' \in [Sessions -> DOMAIN dashboards' \cup {None}]
<1>1. /\ ScratchpadTypes /\ \A s \in Sessions : Own(s, stored[s])
      /\ \A q \in Requests : request[q] # None => Sound(request[q])
  BY DEF ScratchpadInv
<1>2. /\ request' \in [Requests -> Scratchpad!Chats \cup {None}] /\ request'[r] = new
      /\ \A q \in Requests : q # r => request'[q] = request[q]
  BY <1>1 DEF ScratchpadTypes
<1>3. ASSUME NEW q \in Requests, q # r, request'[q] # None PROVE Sound(request[q])'
  <2>1. PICK chat : chat = request[q]
    OBVIOUS
  <2>2. Sound(chat)
    BY <1>1, <1>2, <1>3, <2>1
  <2>3. Sound(chat)'
    BY <2>2, SoundKept
  <2> QED BY <1>2, <1>3, <2>1, <2>3
<1>4. ASSUME NEW s \in Sessions PROVE Own(s, stored[s])'
  <2>1. PICK uid \in DOMAIN dashboards \cup {None} : uid = stored[s]
    BY <1>1 DEF ScratchpadTypes
  <2>2. Own(s, uid)'
    BY <1>1, <2>1, OwnKept
  <2> QED BY <2>1, <2>2
<1>5. stored' \in [Sessions -> DOMAIN dashboards' \cup {None}]
  BY <1>1 DEF ScratchpadTypes, Keeps
<1> QED BY <1>2, <1>3, <1>4, <1>5

\* A save writes what was read, with both dates of today: one's own dashboard
\* again, with the changes that were in it.
LEMMA SaveKept ==
  ASSUME ScratchpadInv, NEW r \in Requests, Scratchpad!Save(r)
  PROVE  ScratchpadInv'
<1>1. /\ request[r] # None /\ request[r].pc = "save"
      /\ UNCHANGED <<stored, folder, day, due, purger, cleaned, overlapped, edited, clobbered>>
  BY DEF Scratchpad!Save, Scratchpad!In, Scratchpad!timeVars, Scratchpad!historyVars
<1>2. ScratchpadTypes /\ Single /\ folder \in BOOLEAN
  BY DEF ScratchpadInv, ScratchpadTypes
<1>3. CASE (Scratchpad!NotFound(r) \/ Scratchpad!Fails(r)) /\ UNCHANGED dashboards
  BY <1>1, <1>2, <1>3, ReturnKept DEF Scratchpad!Fails
<1>4. CASE request[r].uid \in Scratchpad!Live /\ Scratchpad!Saved(r) /\ Scratchpad!Return(r)
  <2>1. PICK uid : uid = request[r].uid
    OBVIOUS
  <2>2. PICK model : model = Scratchpad!Merged(request[r].model)
    OBVIOUS
  <2>3. PICK new \in Scratchpad!Chats :
          /\ request' = [request EXCEPT ![r] = new] /\ Sound(new)
          /\ new.pc = "ready" /\ new.session = request[r].session
          /\ new.known = request[r].known /\ new.uid = None
    BY <1>1, <1>4, ReturnIsSound
  <2>4. request'[r] = new
    BY <1>2, <2>3 DEF ScratchpadTypes
  <2>5. /\ uid \in Scratchpad!Live /\ uid \in DOMAIN dashboards /\ uid \in Nat
        /\ dashboards' = [dashboards EXCEPT ![uid] = model]
    BY <1>2, <1>4, <2>1, <2>2, ScratchpadNumbers DEF Scratchpad!Saved
  <2>6. /\ request[r].model \in Scratchpad!Dashboards /\ request[r].model.session = request[r].session
        /\ uid \in edited \ clobbered => request[r].model.edited
    BY <1>1, <2>1, ChatFields DEF Sound
  <2>7. /\ model \in Scratchpad!Dashboards /\ model.session = request[r].session
        /\ model.used = day /\ model.saved = day /\ model.edited = request[r].model.edited
    <3>1. PICK read \in Scratchpad!Dashboards : read = request[r].model
      BY <2>6
    <3>2. model = [read EXCEPT !.used = day, !.saved = day] /\ day \in 0..MaxDays
      BY <1>2, <2>2, <3>1 DEF Scratchpad!Merged, ScratchpadTypes
    <3>3. model \in Scratchpad!Dashboards /\ model.session = read.session /\ model.edited = read.edited
      BY <3>1, <3>2 DEF Scratchpad!Dashboards
    <3>4. model.used = day /\ model.saved = day
      BY <3>1, <3>2 DEF Scratchpad!Dashboards
    <3> QED BY <2>6, <3>1, <3>3, <3>4
  <2>8. dashboards[uid].session = request[r].session
    BY <1>1, <2>1, <2>5, ChatFields DEF Sound, Own
  <2>9. /\ DOMAIN dashboards' = DOMAIN dashboards /\ dashboards'[uid] = model
        /\ \A v \in DOMAIN dashboards : v # uid => dashboards'[v] = dashboards[v]
        /\ Scratchpad!Live' = Scratchpad!Live
    BY <2>5, <2>7, NoneAssumption DEF Scratchpad!Live
  <2>10. Keeps
    BY <1>2, <2>7, <2>8, <2>9, ScratchpadNumbers DEF Keeps
  <2>11. Sound(new)'
    BY <2>3, <2>10, SoundKept
  <2>12. (Sound(request[r]))'
    BY <2>4, <2>11
  <2>13. /\ request' \in [Requests -> Scratchpad!Chats \cup {None}]
         /\ (\A q \in Requests : request[q] # None => Sound(request[q]))'
         /\ (\A s \in Sessions : Own(s, stored[s]))'
         /\ stored' \in [Sessions -> DOMAIN dashboards' \cup {None}]
    BY <1>1, <2>3, <2>10, <2>12, OthersKnow
  <2>14. Single'
    <3>1. \A s \in Sessions : Scratchpad!Creating(s)' \subseteq Scratchpad!Creating(s)
      BY <1>2, <2>3, CreatingShrinks DEF Creates
    <3> QED BY <1>1, <1>2, <2>9, <2>10, <3>1, SingleKept
  <2>15. dashboards' \in Seq(Scratchpad!Dashboards \cup {None})
    BY <1>2, <2>5, <2>7 DEF ScratchpadTypes
  <2>16. purger # None => purger.left \subseteq DOMAIN dashboards /\ purger.cutoff <= day /\ purger.cutoff \in Int
    BY <1>2 DEF ScratchpadTypes, Scratchpad!Runs
  <2>17. ScratchpadTypes'
    <3>1. /\ Scratchpad!Chats' = Scratchpad!Chats /\ Scratchpad!Runs' = Scratchpad!Runs
          /\ Scratchpad!Dashboards' = Scratchpad!Dashboards
      BY DEF Scratchpad!Chats, Scratchpad!Places, Scratchpad!Dashboards, Scratchpad!Runs
    <3> QED BY <1>1, <1>2, <2>9, <2>13, <2>15, <3>1 DEF ScratchpadTypes
  <2>18. ASSUME NEW v \in Scratchpad!Live' PROVE Fine(v)'
    <3>1. v \in Scratchpad!Live /\ Fine(v) /\ v \in DOMAIN dashboards
      BY <2>9, <2>18 DEF ScratchpadInv, Scratchpad!Live
    <3>2. CASE v = uid
      <4>1. day \in Int /\ cleaned \in Int /\ cleaned <= day
        BY <1>2, ScratchpadNumbers DEF ScratchpadTypes
      <4>2. dashboards'[v].used = day /\ dashboards'[v].saved = day /\ (v \in edited \ clobbered => dashboards'[v].edited)
        BY <2>6, <2>7, <2>9, <3>2
      <4>3. purger # None => dashboards'[v].saved >= purger.cutoff
        BY <2>16, <4>1, <4>2
      <4> QED BY <1>1, <4>1, <4>2, <4>3 DEF Fine
    <3>3. CASE v # uid
      <4>1. dashboards'[v] = dashboards[v]
        BY <2>9, <3>1, <3>3
      <4> QED BY <1>1, <3>1, <4>1 DEF Fine
    <3> QED BY <3>2, <3>3
  <2>19. Listed'
    BY <1>1 DEF ScratchpadInv, Listed
  <2> QED BY <2>13, <2>14, <2>17, <2>18, <2>19 DEF ScratchpadInv
<1> QED BY <1>3, <1>4 DEF Scratchpad!Save, Scratchpad!Fails

\* A new dashboard, of the session of a request that is no longer about to
\* create one.
LEMMA AppendKept ==
  ASSUME ScratchpadInv, NEW r \in Requests, request[r] # None, request[r].pc = "create",
         NEW new \in Scratchpad!Chats, request' = [request EXCEPT ![r] = new], new.pc \notin Creates,
         new.pc # "save", new.pc \in {"store", "read"} => new.uid # None,
         new.session = request[r].session, new.known = request[r].known,
         new.uid \in {None, Len(dashboards) + 1},
         dashboards' = Append(dashboards, Scratchpad!New(request[r].session)),
         UNCHANGED <<stored, folder, day, due, purger, cleaned, overlapped, edited, clobbered>>
  PROVE  ScratchpadInv'
<1>1. ScratchpadTypes /\ Single
  BY DEF ScratchpadInv
<1>2. PICK s \in Sessions : s = request[r].session
  BY ChatFields
<1>3. PICK model : model = Scratchpad!New(s)
  OBVIOUS
<1>4. PICK uid \in Nat : uid = Len(dashboards) + 1
  BY <1>1, ScratchpadNumbers
<1>5. /\ model \in Scratchpad!Dashboards /\ model.session = s /\ model.used = day /\ model.saved = day
      /\ model # None
  <2>1. model = [session |-> s, used |-> day, saved |-> day, edited |-> FALSE] /\ day \in 0..MaxDays
    BY <1>1, <1>3 DEF Scratchpad!New, ScratchpadTypes
  <2>2. model \in Scratchpad!Dashboards
    BY <2>1 DEF Scratchpad!Dashboards
  <2> QED BY <2>1, <2>2, NoneAssumption
<1>6. /\ dashboards' \in Seq(Scratchpad!Dashboards \cup {None}) /\ Len(dashboards') = uid
      /\ dashboards'[uid] = model /\ \A v \in 1..Len(dashboards) : dashboards'[v] = dashboards[v]
  BY <1>1, <1>2, <1>3, <1>4, <1>5, AppendProperties DEF ScratchpadTypes
<1>7. /\ DOMAIN dashboards' = DOMAIN dashboards \cup {uid} /\ uid \notin DOMAIN dashboards
      /\ \A v \in DOMAIN dashboards : dashboards'[v] = dashboards[v]
  BY <1>1, <1>4, <1>6, ScratchpadNumbers
<1>8. Scratchpad!Live' = Scratchpad!Live \cup {uid}
  BY <1>5, <1>6, <1>7 DEF Scratchpad!Live
<1>9. None \notin DOMAIN dashboards'
  BY <1>1, <1>4, <1>7, ScratchpadNumbers, NoneAssumption
<1>10. Keeps
  BY <1>7, <1>8, <1>9 DEF Keeps
<1>11. request'[r] = new
  BY <1>1 DEF ScratchpadTypes
<1>12. (Sound(request[r]))'
  <2>1. PICK chat \in Scratchpad!Chats : chat = new
    OBVIOUS
  <2>2. PICK known \in DOMAIN dashboards \cup {None} : known = new.known
    BY ChatFields
  <2>3. Own(s, known)
    BY <1>2, <2>2, ChatFields DEF Sound
  <2>4. Own(s, known)'
    BY <2>3, <1>10, OwnKept
  <2>5. Own(s, uid)' /\ Own(s, None)'
    BY <1>5, <1>6, <1>9 DEF Own, Scratchpad!Live
  <2>6. chat.known \in DOMAIN dashboards' \cup {None} /\ chat.uid \in DOMAIN dashboards' \cup {None}
    BY <1>4, <1>7, <2>1, <2>2
  <2>7. Scratchpad!Chats' = Scratchpad!Chats
    BY DEF Scratchpad!Chats, Scratchpad!Places, Scratchpad!Dashboards
  <2>8. Sound(chat)'
    BY <1>2, <1>4, <2>1, <2>2, <2>4, <2>5, <2>6, <2>7 DEF Sound
  <2> QED BY <1>11, <2>1, <2>8
<1>13. /\ request' \in [Requests -> Scratchpad!Chats \cup {None}]
       /\ (\A q \in Requests : request[q] # None => Sound(request[q]))'
       /\ (\A t \in Sessions : Own(t, stored[t]))'
       /\ stored' \in [Sessions -> DOMAIN dashboards' \cup {None}]
  BY <1>10, <1>12, OthersKnow
<1>14. ScratchpadTypes'
  <2>1. /\ Scratchpad!Chats' = Scratchpad!Chats /\ Scratchpad!Runs' = Scratchpad!Runs
        /\ Scratchpad!Dashboards' = Scratchpad!Dashboards
    BY DEF Scratchpad!Chats, Scratchpad!Places, Scratchpad!Dashboards, Scratchpad!Runs
  <2>2. edited \subseteq DOMAIN dashboards'
    BY <1>1, <1>7 DEF ScratchpadTypes
  <2>3. purger # None => purger.left \subseteq DOMAIN dashboards' /\ purger.cutoff <= day
    BY <1>1, <1>7 DEF ScratchpadTypes
  <2> QED BY <1>1, <1>6, <1>13, <2>1, <2>2, <2>3 DEF ScratchpadTypes
<1>15. Single'
  <2>1. \A t \in Sessions : Scratchpad!Creating(t)' \subseteq Scratchpad!Creating(t) \ {r}
    <3>1. \A q \in Requests : q # r => request'[q] = request[q]
      BY <1>1 DEF ScratchpadTypes
    <3> QED BY <1>11, <3>1 DEF Scratchpad!Creating, Creates
  <2>2. r \in Scratchpad!Creating(s)
    BY <1>2 DEF Scratchpad!Creating
  <2>3. Scratchpad!Hits(s)' \subseteq Scratchpad!Hits(s) \cup {uid}
    BY <1>7, <1>8 DEF Scratchpad!Hits, Scratchpad!Live
  <2>4. ASSUME NEW t \in Sessions, t # s PROVE Scratchpad!Hits(t)' \subseteq Scratchpad!Hits(t)
    BY <1>5, <1>6, <1>7, <1>8, <2>4 DEF Scratchpad!Hits, Scratchpad!Live
  <2>5. ASSUME NEW t \in Sessions, t \notin overlapped
        PROVE  /\ \A u, v \in Scratchpad!Hits(t)' : u = v
               /\ \A q, p \in Scratchpad!Creating(t)' : q = p
               /\ Scratchpad!Hits(t)' = {} \/ Scratchpad!Creating(t)' = {}
    <3>1. /\ \A u, v \in Scratchpad!Hits(t) : u = v
          /\ \A q, p \in Scratchpad!Creating(t) : q = p
          /\ Scratchpad!Hits(t) = {} \/ Scratchpad!Creating(t) = {}
      BY <1>1, <2>5 DEF Single
    <3>2. CASE t = s
      <4>1. Scratchpad!Hits(t) = {} /\ \A q \in Scratchpad!Creating(t) : q = r
        BY <2>2, <3>1, <3>2
      <4>2. Scratchpad!Creating(t)' = {} /\ Scratchpad!Hits(t)' \subseteq {uid}
        BY <2>1, <2>3, <3>2, <4>1
      <4> QED BY <4>2
    <3>3. CASE t # s
      <4>1. Scratchpad!Hits(t)' \subseteq Scratchpad!Hits(t) /\ Scratchpad!Creating(t)' \subseteq Scratchpad!Creating(t)
        BY <2>1, <2>4, <3>3
      <4> QED BY <3>1, <4>1
    <3> QED BY <3>2, <3>3
  <2> QED BY <2>5 DEF Single
<1>16. ASSUME NEW v \in Scratchpad!Live' PROVE Fine(v)'
  <2>1. CASE v = uid
    <3>1. day \in Int /\ cleaned \in Int /\ cleaned <= day /\ edited \subseteq DOMAIN dashboards
      BY <1>1, ScratchpadNumbers DEF ScratchpadTypes
    <3>2. purger # None => purger.left \subseteq DOMAIN dashboards /\ purger.cutoff <= day
      BY <1>1 DEF ScratchpadTypes
    <3> QED BY <1>5, <1>6, <1>7, <2>1, <3>1, <3>2 DEF Fine
  <2>2. CASE v # uid
    <3>1. v \in Scratchpad!Live /\ Fine(v) /\ dashboards'[v] = dashboards[v]
      BY <1>7, <1>8, <2>2 DEF ScratchpadInv, Scratchpad!Live
    <3> QED BY <3>1 DEF Fine
  <2> QED BY <2>1, <2>2
<1>17. Listed'
  BY DEF ScratchpadInv, Listed
<1> QED BY <1>13, <1>14, <1>15, <1>16, <1>17 DEF ScratchpadInv

LEMMA CreateKept ==
  ASSUME ScratchpadInv, NEW r \in Requests, Scratchpad!Create(r)
  PROVE  ScratchpadInv'
<1>1. /\ request[r] # None /\ request[r].pc = "create"
      /\ UNCHANGED <<stored, folder, day, due, purger, cleaned, overlapped, edited, clobbered>>
  BY DEF Scratchpad!Create, Scratchpad!In, Scratchpad!timeVars, Scratchpad!historyVars
<1>2. ScratchpadTypes /\ folder' \in BOOLEAN
  BY <1>1 DEF ScratchpadInv, ScratchpadTypes
<1>3. CASE Scratchpad!Return(r) /\ UNCHANGED dashboards
  BY <1>1, <1>2, <1>3, ReturnKept
<1>4. CASE Scratchpad!Return(r) /\ dashboards' = Append(dashboards, Scratchpad!New(request[r].session))
  <2>1. PICK new \in Scratchpad!Chats :
          /\ request' = [request EXCEPT ![r] = new] /\ Sound(new)
          /\ new.pc = "ready" /\ new.session = request[r].session
          /\ new.known = request[r].known /\ new.uid = None
    BY <1>1, <1>4, ReturnIsSound
  <2>2. new.pc \notin Creates /\ new.pc # "save" /\ new.pc \notin {"store", "read"}
    BY <2>1 DEF Creates
  <2> QED BY <1>1, <1>4, <2>1, <2>2, AppendKept
<1>5. CASE /\ dashboards' = Append(dashboards, Scratchpad!New(request[r].session))
           /\ Scratchpad!Go(r, [request[r] EXCEPT !.pc = "store", !.uid = Len(dashboards) + 1])
  <2> DEFINE new == [request[r] EXCEPT !.pc = "store", !.uid = Len(dashboards) + 1]
  <2>1. Len(dashboards) + 1 \in Nat
    BY <1>2, ScratchpadNumbers
  <2>2. new \in Scratchpad!Chats
    BY <1>1, <2>1, ChatFields DEF Scratchpad!Chats, Scratchpad!Places
  <2>3. /\ new.session = request[r].session /\ new.pc = "store" /\ new.known = request[r].known
        /\ new.uid = Len(dashboards) + 1
    BY <1>1, ChatFields DEF Scratchpad!Chats
  <2>4. new.pc \notin Creates /\ new.pc # "save" /\ new.uid # None
    BY <2>1, <2>3, NoneAssumption DEF Creates
  <2>5. request' = [request EXCEPT ![r] = new]
    BY <1>5 DEF Scratchpad!Go
  <2> QED BY <1>1, <1>5, <2>2, <2>3, <2>4, <2>5, AppendKept
<1> QED BY <1>3, <1>4, <1>5 DEF Scratchpad!Create, Scratchpad!Fails

-----------------------------------------------------------------------------
(* Scratchpads: the user, the purger and the days *)

\* The requests know what they knew, if the changes they have not read are
\* those made behind their backs.
LEMMA AllKnow ==
  ASSUME ScratchpadInv, Keeps, UNCHANGED <<stored, request, overlapped>>,
         DOMAIN dashboards' = DOMAIN dashboards,
         \A r \in Requests :
           request[r] # None /\ request[r].pc = "save" /\ request[r].uid \in edited' \ clobbered'
             => request[r].uid \in edited \ clobbered
  PROVE  /\ (\A r \in Requests : request[r] # None => Sound(request[r]))'
         /\ (\A s \in Sessions : Own(s, stored[s]))'
         /\ Single'
<1>1. ScratchpadTypes /\ Single /\ \A s \in Sessions : Own(s, stored[s])
  BY DEF ScratchpadInv
<1>2. ASSUME NEW r \in Requests, request'[r] # None PROVE Sound(request[r])'
  <2>1. PICK chat : chat = request[r]
    OBVIOUS
  <2>2. Sound(chat)
    BY <1>2, <2>1 DEF ScratchpadInv
  <2>3. Sound(chat)'
    BY <1>2, <2>1, <2>2, SoundKept
  <2> QED BY <2>1, <2>3
<1>3. ASSUME NEW s \in Sessions PROVE Own(s, stored[s])'
  <2>1. PICK uid \in DOMAIN dashboards \cup {None} : uid = stored[s]
    BY <1>1 DEF ScratchpadTypes
  <2>2. Own(s, uid)'
    BY <1>1, <2>1, OwnKept
  <2> QED BY <2>1, <2>2
<1>4. \A s \in Sessions : Scratchpad!Creating(s)' \subseteq Scratchpad!Creating(s)
  BY DEF Scratchpad!Creating
<1> QED BY <1>1, <1>2, <1>3, <1>4, SingleKept

LEMMA SameRecords ==
  /\ Scratchpad!Chats' = Scratchpad!Chats /\ Scratchpad!Runs' = Scratchpad!Runs
  /\ Scratchpad!Dashboards' = Scratchpad!Dashboards
BY DEF Scratchpad!Chats, Scratchpad!Places, Scratchpad!Dashboards, Scratchpad!Runs

\* A change that a call has not read, and is about to overwrite, is known as
\* clobbered.
LEMMA EditKept ==
  ASSUME ScratchpadInv, NEW uid \in DOMAIN dashboards, Scratchpad!Edit(uid)
  PROVE  ScratchpadInv'
<1>1. /\ uid \in Scratchpad!Live /\ edited' = edited \cup {uid}
      /\ clobbered' = IF Scratchpad!Readers(uid) = {} THEN clobbered ELSE clobbered \cup {uid}
      /\ dashboards' = [dashboards EXCEPT ![uid] = [dashboards[uid] EXCEPT !.edited = TRUE]]
      /\ UNCHANGED <<stored, folder, request, day, due, purger, cleaned, overlapped>>
  BY DEF Scratchpad!Edit, Scratchpad!timeVars
<1>2. ScratchpadTypes
  BY DEF ScratchpadInv
<1>3. PICK model \in Scratchpad!Dashboards : model = dashboards[uid]
  BY <1>1, <1>2, ScratchpadNumbers
<1>4. PICK new \in Scratchpad!Dashboards :
        /\ dashboards' = [dashboards EXCEPT ![uid] = new] /\ new.edited = TRUE
        /\ new.session = model.session /\ new.used = model.used /\ new.saved = model.saved
  <2>1. [model EXCEPT !.edited = TRUE] \in Scratchpad!Dashboards
    BY <1>3 DEF Scratchpad!Dashboards
  <2> QED BY <1>1, <1>3, <2>1 DEF Scratchpad!Dashboards
<1>5. /\ DOMAIN dashboards' = DOMAIN dashboards /\ dashboards'[uid] = new
      /\ \A v \in DOMAIN dashboards : v # uid => dashboards'[v] = dashboards[v]
      /\ Scratchpad!Live' = Scratchpad!Live
  BY <1>1, <1>4, NoneAssumption DEF Scratchpad!Live
<1>6. Keeps
  BY <1>2, <1>3, <1>4, <1>5, ScratchpadNumbers DEF Keeps
<1>7. ASSUME NEW r \in Requests, request[r] # None, request[r].pc = "save",
             request[r].uid \in edited' \ clobbered'
      PROVE  request[r].uid \in edited \ clobbered
  <2>1. request[r].uid # uid
    <3>1. CASE request[r].uid = uid
      <4>1. r \in Scratchpad!Readers(uid)
        BY <1>7, <3>1 DEF Scratchpad!Readers, Scratchpad!In
      <4> QED BY <1>1, <1>7, <3>1, <4>1
    <3> QED BY <3>1
  <2> QED BY <1>1, <1>7, <2>1
<1>8. /\ (\A r \in Requests : request[r] # None => Sound(request[r]))'
      /\ (\A s \in Sessions : Own(s, stored[s]))' /\ Single'
  BY <1>1, <1>5, <1>6, <1>7, AllKnow
<1>9. ScratchpadTypes'
  <2>1. dashboards' \in Seq(Scratchpad!Dashboards \cup {None})
    BY <1>2, <1>4 DEF ScratchpadTypes
  <2>2. clobbered' \subseteq edited' /\ edited' \subseteq DOMAIN dashboards'
    BY <1>1, <1>2, <1>5 DEF ScratchpadTypes
  <2> QED BY <1>1, <1>2, <1>5, <2>1, <2>2, SameRecords DEF ScratchpadTypes
<1>10. ASSUME NEW v \in Scratchpad!Live' PROVE Fine(v)'
  <2>1. v \in DOMAIN dashboards /\ Fine(v)
    BY <1>5, <1>10 DEF ScratchpadInv, Scratchpad!Live
  <2>2. dashboards'[v].used = dashboards[v].used /\ dashboards'[v].saved = dashboards[v].saved
    BY <1>3, <1>4, <1>5, <2>1
  <2>3. v \in edited' \ clobbered' => dashboards'[v].edited
    <3>1. CASE v = uid
      BY <1>4, <1>5, <3>1
    <3>2. CASE v # uid
      BY <1>1, <1>5, <2>1, <3>2 DEF Fine
    <3> QED BY <3>1, <3>2
  <2> QED BY <1>1, <2>1, <2>2, <2>3 DEF Fine
<1>11. Listed'
  BY <1>1 DEF ScratchpadInv, Listed
<1> QED BY <1>8, <1>9, <1>10, <1>11 DEF ScratchpadInv

\* The purger has all that is out of use on its list.
LEMMA ListKept ==
  ASSUME ScratchpadInv, Scratchpad!List
  PROVE  ScratchpadInv'
<1>1. /\ purger = None
      /\ UNCHANGED <<stored, dashboards, folder, request, day, cleaned, overlapped, edited, clobbered>>
      /\ due' = FALSE
  BY DEF Scratchpad!List, Scratchpad!historyVars
<1>2. ScratchpadTypes
  BY DEF ScratchpadInv
<1>3. Keeps /\ Scratchpad!Live' = Scratchpad!Live
  BY <1>1, <1>2, ScratchpadNumbers DEF Keeps, Scratchpad!Live
<1>4. /\ (\A r \in Requests : request[r] # None => Sound(request[r]))'
      /\ (\A s \in Sessions : Own(s, stored[s]))' /\ Single'
  BY <1>1, <1>3, AllKnow
<1>5. CASE purger' = purger
  <2>1. ScratchpadTypes'
    BY <1>1, <1>2, <1>5, SameRecords DEF ScratchpadTypes
  <2>2. (\A uid \in Scratchpad!Live : Fine(uid))' /\ Listed'
    BY <1>1, <1>3, <1>5 DEF ScratchpadInv, Fine, Listed
  <2> QED BY <1>4, <2>1, <2>2 DEF ScratchpadInv
<1>6. CASE purger' = [cutoff |-> Scratchpad!Cutoff, whole |-> TRUE, seen |-> dashboards,
                      left |-> {uid \in Scratchpad!Live : dashboards[uid].used < Scratchpad!Cutoff}]
  <2>1. Scratchpad!Cutoff \in Int /\ Scratchpad!Cutoff <= day
    BY <1>2, ScratchpadNumbers DEF Scratchpad!Cutoff
  <2>2. PICK left : left = {uid \in Scratchpad!Live : dashboards[uid].used < Scratchpad!Cutoff}
    OBVIOUS
  <2>3. left \subseteq DOMAIN dashboards /\ left \in SUBSET Nat
    BY <1>2, <2>2, ScratchpadNumbers
  <2>4. /\ purger' \in Scratchpad!Runs /\ purger'.left = left /\ purger'.cutoff = Scratchpad!Cutoff
        /\ purger'.seen = dashboards
    BY <1>2, <1>6, <2>1, <2>2, <2>3 DEF ScratchpadTypes, Scratchpad!Runs
  <2>5. ScratchpadTypes'
    BY <1>1, <1>2, <2>1, <2>3, <2>4, SameRecords DEF ScratchpadTypes
  <2>6. ASSUME NEW uid \in Scratchpad!Live' PROVE Fine(uid)'
    <3>1. /\ Fine(uid) /\ uid \in Scratchpad!Live /\ dashboards[uid] \in Scratchpad!Dashboards
          /\ dashboards[uid].used = dashboards[uid].saved
      BY <1>2, <1>3, <2>6, ScratchpadNumbers DEF ScratchpadInv, Fine
    <3>2. dashboards[uid].used \in Int
      BY <1>2, <3>1, ScratchpadNumbers DEF Scratchpad!Dashboards
    <3>3. /\ uid \in left => dashboards[uid].saved < Scratchpad!Cutoff
          /\ uid \notin left => dashboards[uid].saved >= Scratchpad!Cutoff
      BY <2>1, <2>2, <3>1, <3>2
    <3> QED BY <1>1, <2>4, <3>1, <3>3 DEF Fine
  <2>7. Listed'
    <3>1. ASSUME NEW uid \in left PROVE dashboards[uid] # None /\ dashboards[uid].saved < Scratchpad!Cutoff
      BY <2>2, <3>1 DEF ScratchpadInv, Fine, Scratchpad!Live
    <3> QED BY <2>3, <2>4, <3>1 DEF Listed
  <2> QED BY <1>4, <2>5, <2>6, <2>7 DEF ScratchpadInv
<1> QED BY <1>5, <1>6 DEF Scratchpad!List

LEMMA DeleteKept ==
  ASSUME ScratchpadInv, NEW uid \in DOMAIN dashboards, Scratchpad!Delete(uid)
  PROVE  ScratchpadInv'
<1>1. /\ purger # None /\ uid \in purger.left
      /\ UNCHANGED <<stored, folder, request, day, due, cleaned, overlapped, edited, clobbered>>
  BY DEF Scratchpad!Delete, Scratchpad!historyVars
<1>2. ScratchpadTypes
  BY DEF ScratchpadInv
<1>3. PICK run \in Scratchpad!Runs : run = purger /\ run.left \subseteq DOMAIN dashboards /\ run.cutoff <= day
  BY <1>1, <1>2 DEF ScratchpadTypes
<1>4. PICK new \in Scratchpad!Runs :
        /\ purger' = new /\ new.left = run.left \ {uid} /\ new.cutoff = run.cutoff /\ new.seen = run.seen
        /\ \/ dashboards' = [dashboards EXCEPT ![uid] = None] /\ new.whole = run.whole
           \/ dashboards' \in {dashboards, [dashboards EXCEPT ![uid] = None]} /\ new.whole = FALSE
  <2>1. CASE /\ dashboards' = [dashboards EXCEPT ![uid] = None]
             /\ purger' = [purger EXCEPT !.left = @ \ {uid}]
    <3> DEFINE new == [run EXCEPT !.left = run.left \ {uid}]
    <3>1. purger' = new /\ new \in Scratchpad!Runs
      BY <1>3, <2>1 DEF Scratchpad!Runs
    <3>2. /\ new.left = run.left \ {uid} /\ new.cutoff = run.cutoff /\ new.seen = run.seen
          /\ new.whole = run.whole
      BY <1>3 DEF Scratchpad!Runs
    <3> QED BY <2>1, <3>1, <3>2
  <2>2. CASE /\ dashboards' \in {dashboards, [dashboards EXCEPT ![uid] = None]}
             /\ purger' = [purger EXCEPT !.left = @ \ {uid}, !.whole = FALSE]
    <3> DEFINE new == [run EXCEPT !.left = run.left \ {uid}, !.whole = FALSE]
    <3>1. purger' = new /\ new \in Scratchpad!Runs
      BY <1>3, <2>2 DEF Scratchpad!Runs
    <3>2. /\ new.left = run.left \ {uid} /\ new.cutoff = run.cutoff /\ new.seen = run.seen
          /\ new.whole = FALSE
      BY <1>3 DEF Scratchpad!Runs
    <3> QED BY <2>2, <3>1, <3>2
  <2> QED BY <2>1, <2>2 DEF Scratchpad!Delete, Scratchpad!Gone
<1>5. /\ DOMAIN dashboards' = DOMAIN dashboards
      /\ \A v \in Scratchpad!Live' : v \in Scratchpad!Live /\ dashboards'[v] = dashboards[v]
      /\ dashboards' # dashboards => uid \notin Scratchpad!Live'
  BY <1>4 DEF Scratchpad!Live
<1>6. Keeps
  BY <1>2, <1>5, ScratchpadNumbers DEF Keeps
<1>7. /\ (\A r \in Requests : request[r] # None => Sound(request[r]))'
      /\ (\A s \in Sessions : Own(s, stored[s]))' /\ Single'
  BY <1>1, <1>5, <1>6, AllKnow
<1>8. ScratchpadTypes'
  <2>1. dashboards' \in Seq(Scratchpad!Dashboards \cup {None})
    BY <1>2, <1>4 DEF ScratchpadTypes
  <2> QED BY <1>1, <1>2, <1>3, <1>4, <1>5, <2>1, SameRecords DEF ScratchpadTypes
<1>9. ASSUME NEW v \in Scratchpad!Live' PROVE Fine(v)'
  <2>1. v \in Scratchpad!Live /\ dashboards'[v] = dashboards[v] /\ Fine(v)
    BY <1>5, <1>9 DEF ScratchpadInv
  <2>2. run.whole /\ v \notin run.left => dashboards[v].saved >= run.cutoff
    BY <1>1, <1>3, <2>1 DEF Fine
  <2>3. new.whole => v # uid
    BY <1>4, <1>9 DEF Scratchpad!Live
  <2>4. new.whole /\ v \notin new.left => dashboards'[v].saved >= new.cutoff
    BY <1>4, <2>1, <2>2, <2>3
  <2> QED BY <1>1, <1>4, <2>1, <2>4 DEF Fine
<1>10. Listed'
  <2>1. /\ run.left \subseteq DOMAIN run.seen
        /\ \A v \in run.left : run.seen[v] # None /\ run.seen[v].saved < run.cutoff
    BY <1>1, <1>3 DEF ScratchpadInv, Listed
  <2>2. new.left \subseteq run.left /\ new.seen = run.seen /\ new.cutoff = run.cutoff
    BY <1>4
  <2> QED BY <1>4, <2>1, <2>2 DEF Listed
<1> QED BY <1>7, <1>8, <1>9, <1>10 DEF ScratchpadInv

\* After a run in which every call succeeded, all that there is is in use.
LEMMA PurgedKept ==
  ASSUME ScratchpadInv, Scratchpad!Purged
  PROVE  ScratchpadInv'
<1>1. /\ purger # None /\ purger.left = {} /\ purger' = None
      /\ cleaned' = IF purger.whole THEN purger.cutoff ELSE cleaned
      /\ UNCHANGED <<stored, dashboards, folder, request, day, due, overlapped, edited, clobbered>>
  BY DEF Scratchpad!Purged
<1>2. ScratchpadTypes
  BY DEF ScratchpadInv
<1>3. Keeps /\ Scratchpad!Live' = Scratchpad!Live
  BY <1>1, <1>2, ScratchpadNumbers DEF Keeps, Scratchpad!Live
<1>4. /\ (\A r \in Requests : request[r] # None => Sound(request[r]))'
      /\ (\A s \in Sessions : Own(s, stored[s]))' /\ Single'
  BY <1>1, <1>3, AllKnow
<1>5. ScratchpadTypes'
  <2>1. purger.cutoff \in Int /\ purger.cutoff <= day
    BY <1>1, <1>2 DEF ScratchpadTypes, Scratchpad!Runs
  <2> QED BY <1>1, <1>2, <2>1, SameRecords DEF ScratchpadTypes
<1>6. (\A uid \in Scratchpad!Live : Fine(uid))' /\ Listed'
  BY <1>1, <1>3 DEF ScratchpadInv, Fine, Listed
<1> QED BY <1>4, <1>5, <1>6 DEF ScratchpadInv

LEMMA TomorrowKept ==
  ASSUME ScratchpadInv, Scratchpad!Tomorrow
  PROVE  ScratchpadInv'
<1>1. /\ day < MaxDays /\ day' = day + 1 /\ due' = TRUE
      /\ UNCHANGED <<stored, dashboards, folder, request, purger, cleaned, overlapped, edited, clobbered>>
  BY DEF Scratchpad!Tomorrow, Scratchpad!historyVars
<1>2. ScratchpadTypes
  BY DEF ScratchpadInv
<1>3. Keeps /\ Scratchpad!Live' = Scratchpad!Live
  BY <1>1, <1>2, ScratchpadNumbers DEF Keeps, Scratchpad!Live
<1>4. /\ (\A r \in Requests : request[r] # None => Sound(request[r]))'
      /\ (\A s \in Sessions : Own(s, stored[s]))' /\ Single'
  BY <1>1, <1>3, AllKnow
<1>5. ScratchpadTypes'
  <2>1. day' \in 0..MaxDays /\ cleaned \in Int /\ cleaned <= day'
    <3>1. day \in Nat /\ MaxDays \in Nat /\ cleaned \in Int /\ cleaned <= day
      BY <1>2, ScratchpadNumbers DEF ScratchpadTypes
    <3> QED BY <1>1, <3>1
  <2>2. purger # None => purger.left \subseteq DOMAIN dashboards /\ purger.cutoff <= day'
    BY <1>1, <1>2, ScratchpadNumbers DEF ScratchpadTypes, Scratchpad!Runs
  <2> QED BY <1>1, <1>2, <2>1, <2>2, SameRecords DEF ScratchpadTypes
<1>6. (\A uid \in Scratchpad!Live : Fine(uid))' /\ Listed'
  BY <1>1, <1>3 DEF ScratchpadInv, Fine, Listed
<1> QED BY <1>4, <1>5, <1>6 DEF ScratchpadInv

LEMMA ScratchpadKept ==
  ASSUME ScratchpadInv, Scratchpad!Next
  PROVE  ScratchpadInv'
<1>1. ASSUME NEW r \in Requests, Scratchpad!Step(r) PROVE ScratchpadInv'
  BY <1>1, SearchKept, FolderKept, CreateKept, StoreRowKept, ReadKept, SaveKept, EndKept DEF Scratchpad!Step
<1> QED BY <1>1, CallKept, BeginKept, EditKept, ListKept, DeleteKept, PurgedKept, TomorrowKept
        DEF Scratchpad!Next, Scratchpad!Purge

LEMMA ScratchpadHolds ==
  ASSUME ScratchpadInv
  PROVE  Scratchpad!TypeOK /\ KeepsScratchpads
<1>1. /\ ScratchpadTypes /\ Single /\ \A s \in Sessions : Own(s, stored[s])
      /\ \A r \in Requests : request[r] # None => Sound(request[r])
      /\ \A uid \in Scratchpad!Live : Fine(uid)
      /\ Listed
  BY DEF ScratchpadInv
<1>2. Scratchpad!TypeOK
  <2>1. \A r \in Requests : request[r] # None =>
          /\ {request[r].known, request[r].uid} \subseteq DOMAIN dashboards \cup {None}
          /\ request[r].pc \in {"store", "read", "save"} => request[r].uid # None
          /\ request[r].pc = "save" => request[r].model # None
    BY <1>1 DEF Sound
  <2> QED BY <1>1, <2>1 DEF ScratchpadTypes, Scratchpad!TypeOK, Listed
<1>3. Scratchpad!OnePerSession
  <2>1. \A s \in Sessions : stored[s] \in Scratchpad!Live => dashboards[stored[s]].session = s
    BY <1>1 DEF Own
  <2>2. ASSUME NEW s \in Sessions \ overlapped PROVE Cardinality(Scratchpad!Hits(s)) <= 1
    <3>1. CASE Scratchpad!Hits(s) = {}
      BY <3>1, FS_EmptySet
    <3>2. ASSUME NEW uid \in Scratchpad!Hits(s) PROVE Cardinality(Scratchpad!Hits(s)) <= 1
      <4>1. Scratchpad!Hits(s) = {uid}
        BY <1>1, <2>2, <3>2 DEF Single
      <4> QED BY <4>1, FS_Singleton
    <3> QED BY <3>1, <3>2
  <2>3. \A s \in Sessions \ overlapped : Scratchpad!Cardinality(Scratchpad!Hits(s)) <= 1
    BY <2>2 DEF Cardinality, Scratchpad!Cardinality
  <2> QED BY <2>1, <2>3 DEF Scratchpad!OnePerSession
<1>4. Scratchpad!PurgesTheUnused /\ Scratchpad!EditsSurvive
  BY <1>1 DEF Fine, Listed, Scratchpad!PurgesTheUnused, Scratchpad!EditsSurvive
<1> QED BY <1>2, <1>3, <1>4 DEF KeepsScratchpads, Scratchpad!KeepsScratchpads

-----------------------------------------------------------------------------
(* The buckets of the rate limiter *)

BucketRecords == [tokens : 0..Limiter!Full, lastTime : 0..clock]

LEMMA FullNat ==
  ASSUME Limiter!RateLimiterAssumption
  PROVE  Limiter!Full \in Nat /\ Cost \in Nat /\ Stale \in Nat /\ Stale >= Limiter!Full
BY DEF Limiter!Full, Limiter!RateLimiterAssumption

\* None is not a bucket.
LEMMA NoneIsNoBucket ==
  ASSUME Limiter!RateLimiterAssumption, clock \in Nat
  PROVE  None \notin BucketRecords
BY FullNat DEF BucketRecords, Limiter!RateLimiterAssumption

\* A bucket holds between nothing and Full, whenever it is asked.
LEMMA RefilledInRange ==
  ASSUME Limiter!RateLimiterAssumption, clock \in Nat, NEW b \in BucketRecords
  PROVE  Limiter!Refilled(b) \in 0..Limiter!Full
BY FullNat DEF Limiter!Refilled, BucketRecords

LEMMA NewIsFull ==
  ASSUME Limiter!RateLimiterAssumption, clock \in Nat
  PROVE  Limiter!NewBucket \in BucketRecords /\ Limiter!Refilled(Limiter!NewBucket) = Limiter!Full
BY FullNat DEF Limiter!NewBucket, BucketRecords, Limiter!Refilled

\* The bucket a request meets holds what the promised bucket holds: one that
\* is idle would be full.
LEMMA MeetsLevel ==
  ASSUME Limiter!RateLimiterAssumption, Limiter!TypeOK, NEW c \in Clients
  PROVE  /\ Limiter!Bucket(c) \in BucketRecords /\ Limiter!Refilled(Limiter!Bucket(c)) = Limiter!Level(c)
         /\ Limiter!Idle(c) => Limiter!Level(c) = Limiter!Full
         /\ Limiter!Level(c) \in 0..Limiter!Full
<1> USE DEF Limiter!TypeOK
<1>1. buckets[c] \in BucketRecords \cup {None}
  BY DEF BucketRecords
<1>2. Limiter!Idle(c) => Limiter!Level(c) = Limiter!Full
  <2> SUFFICES ASSUME Limiter!Idle(c) PROVE Limiter!Refilled(buckets[c]) = Limiter!Full
    BY DEF Limiter!Level, Limiter!Idle
  <2>1. buckets[c] \in BucketRecords /\ buckets[c].lastTime < clock - Stale
    BY <1>1 DEF Limiter!Idle
  <2> QED BY <2>1, FullNat DEF Limiter!Refilled, BucketRecords
<1>3. Limiter!Bucket(c) \in BucketRecords
  BY <1>1, NewIsFull DEF Limiter!Bucket
<1>4. Limiter!Refilled(Limiter!Bucket(c)) = Limiter!Level(c)
  BY <1>2, NewIsFull DEF Limiter!Bucket, Limiter!Level
<1>5. Limiter!Level(c) \in 0..Limiter!Full
  BY <1>3, <1>4, RefilledInRange
<1> QED BY <1>2, <1>3, <1>4, <1>5

-----------------------------------------------------------------------------
(* What is in the buckets *)

LEMMA AfterInRange ==
  ASSUME Limiter!RateLimiterAssumption, Limiter!TypeOK, NEW c \in Clients
  PROVE  /\ Limiter!After(c) \in BucketRecords
         /\ Limiter!Refilled(Limiter!After(c)) = IF Limiter!Level(c) >= Cost THEN Limiter!Level(c) - Cost ELSE Limiter!Level(c)
<1>1. Limiter!Refilled(Limiter!Bucket(c)) = Limiter!Level(c) /\ Limiter!Level(c) \in 0..Limiter!Full
  BY MeetsLevel
<1>2. Cost \in Nat /\ clock \in Nat
  BY FullNat DEF Limiter!TypeOK
<1> DEFINE left == IF Limiter!Level(c) >= Cost THEN Limiter!Level(c) - Cost ELSE Limiter!Level(c)
<1>3. left \in 0..Limiter!Full
  BY <1>1, <1>2, FullNat
<1>4. Limiter!After(c) = [tokens |-> left, lastTime |-> clock]
  BY <1>1, <1>2 DEF Limiter!After
<1> QED BY <1>2, <1>3, <1>4, FullNat DEF BucketRecords, Limiter!Refilled

\* Every variable stays in its range.
LEMMA LimiterTypes == ASSUME Limiter!RateLimiterAssumption PROVE Limiter!Spec => []Limiter!TypeOK
<1>1. Limiter!Init => Limiter!TypeOK
  <2>1. (CHOOSE c \in Clients : TRUE) \in Clients
    BY DEF Limiter!RateLimiterAssumption
  <2> QED BY <2>1, FullNat DEF Limiter!Init, Limiter!TypeOK
<1>2. Limiter!TypeOK /\ [Limiter!Next]_(Limiter!vars) => Limiter!TypeOK'
  <2> SUFFICES ASSUME Limiter!TypeOK, [Limiter!Next]_(Limiter!vars) PROVE Limiter!TypeOK'
    OBVIOUS
  <2>1. CASE Limiter!Tick
    BY <2>1, FullNat DEF Limiter!Tick, Limiter!TypeOK, Limiter!Full
  <2>2. ASSUME NEW c \in Clients, Limiter!Allow(c) PROVE Limiter!TypeOK'
    <3>1. buckets' \in [Clients -> BucketRecords \cup {None}]
      BY <2>2, AfterInRange DEF Limiter!Allow, Limiter!TypeOK, BucketRecords
    <3>2. clock' = clock /\ clock \in Nat /\ lastClean' \in 0..clock /\ admitted' \in BOOLEAN
      BY <2>2 DEF Limiter!Allow, Limiter!TypeOK
    <3>3. window' \in [client : Clients, since : 0..clock, taken : Nat]
      BY <2>2, FullNat DEF Limiter!Allow, Limiter!TypeOK
    <3> QED BY <3>1, <3>2, <3>3 DEF Limiter!TypeOK, BucketRecords, Limiter!Full
  <2>3. ASSUME NEW c \in Clients, Limiter!Watch(c) PROVE Limiter!TypeOK'
    BY <2>3 DEF Limiter!Watch, Limiter!TypeOK
  <2>4. CASE UNCHANGED Limiter!vars
    BY <2>4 DEF Limiter!vars, Limiter!TypeOK, Limiter!Full
  <2> QED BY <2>1, <2>2, <2>3, <2>4 DEF Limiter!Next
<1> QED BY <1>1, <1>2, PTL DEF Limiter!Spec

-----------------------------------------------------------------------------
(* What a step does to what buckets hold *)

LEMMA TickFills ==
  ASSUME Limiter!RateLimiterAssumption, Limiter!TypeOK, Limiter!Tick, NEW c \in Clients
  PROVE  Limiter!Level(c)' = IF Limiter!Level(c) < Limiter!Full THEN Limiter!Level(c) + 1 ELSE Limiter!Full
<1>1. clock' = clock + 1 /\ buckets' = buckets /\ clock \in Nat
  BY DEF Limiter!Tick, Limiter!TypeOK
<1>2. CASE buckets[c] = None
  BY <1>1, <1>2, FullNat DEF Limiter!Level, Limiter!Full
<1>3. CASE buckets[c] # None
  <2>1. buckets[c] \in BucketRecords
    BY <1>3 DEF Limiter!TypeOK, BucketRecords
  <2> DEFINE b == buckets[c]
  <2>2. Limiter!Level(c) = Limiter!Refilled(b)
    BY <1>3 DEF Limiter!Level
  <2>3. Limiter!Level(c)' = IF b.tokens + ((clock + 1) - b.lastTime) > Limiter!Full
                    THEN Limiter!Full ELSE b.tokens + ((clock + 1) - b.lastTime)
    BY <1>1, <1>3 DEF Limiter!Level, Limiter!Refilled, Limiter!Full
  <2> QED BY <1>1, <2>1, <2>2, <2>3, FullNat DEF Limiter!Refilled, BucketRecords
<1> QED BY <1>2, <1>3

\* A request takes from its client alone, and only if it is admitted.
LEMMA AllowTakes ==
  ASSUME Limiter!RateLimiterAssumption, Limiter!TypeOK, NEW c \in Clients, Limiter!Allow(c), NEW d \in Clients
  PROVE  /\ admitted' = (Limiter!Level(c) >= Cost)
         /\ Limiter!Level(d)' = IF d = c /\ admitted' THEN Limiter!Level(d) - Cost ELSE Limiter!Level(d)
<1>1. clock' = clock /\ clock \in Nat
  BY DEF Limiter!Allow, Limiter!TypeOK
<1>2. admitted' = (Limiter!Level(c) >= Cost)
  BY MeetsLevel DEF Limiter!Allow
<1>3. CASE d = c
  <2>1. buckets'[c] = Limiter!After(c) /\ Limiter!After(c) # None
    BY <1>1, AfterInRange, NoneIsNoBucket DEF Limiter!Allow
  <2>2. Limiter!Level(c)' = Limiter!Refilled(Limiter!After(c))
    BY <1>1, <2>1 DEF Limiter!Level, Limiter!Refilled, Limiter!Full
  <2> QED BY <1>2, <1>3, <2>2, AfterInRange
<1>4. CASE d # c
  <2>1. CASE Limiter!CleanUp /\ Limiter!Idle(d)
    <3>1. buckets'[d] = None
      BY <1>4, <2>1 DEF Limiter!Allow
    <3>2. Limiter!Level(d)' = Limiter!Full
      BY <3>1 DEF Limiter!Level, Limiter!Full
    <3> QED BY <1>2, <1>4, <2>1, <3>2, MeetsLevel
  <2>2. CASE ~(Limiter!CleanUp /\ Limiter!Idle(d))
    <3>1. buckets'[d] = buckets[d]
      BY <1>4, <2>2 DEF Limiter!Allow
    <3>2. Limiter!Level(d)' = Limiter!Level(d)
      BY <1>1, <3>1 DEF Limiter!Level, Limiter!Refilled, Limiter!Full
    <3> QED BY <1>2, <1>4, <3>2
  <2> QED BY <2>1, <2>2
<1> QED BY <1>2, <1>3, <1>4

-----------------------------------------------------------------------------
(* The allowance *)

\* What the client has taken and what it may still take are within what there
\* was and what has flowed in.
Balance == window.taken + Limiter!Level(window.client) <= Limiter!Full + (clock - window.since)

\* The bookkeeping of the client that is watched holds in every step.
LEMMA BalanceKept ==
  ASSUME Limiter!RateLimiterAssumption, Limiter!TypeOK, Balance, [Limiter!Next]_(Limiter!vars)
  PROVE  Balance'
<1>1. window.client \in Clients /\ window.taken \in Nat /\ window.since \in Nat /\ clock \in Nat
  BY DEF Limiter!TypeOK
<1>2. Limiter!Level(window.client) \in 0..Limiter!Full /\ Limiter!Full \in Nat /\ Cost \in Nat
  BY <1>1, MeetsLevel, FullNat
<1>3. CASE Limiter!Tick
  <2>1. Limiter!Level(window.client)' \in 0..(Limiter!Level(window.client) + 1)
    <3>1. \A c \in Clients :
            Limiter!Level(c)' = IF Limiter!Level(c) < Limiter!Full THEN Limiter!Level(c) + 1 ELSE Limiter!Full
      BY <1>3, TickFills
    <3>2. window' = window
      BY <1>3 DEF Limiter!Tick
    <3> QED BY <1>1, <1>2, <3>1, <3>2 DEF Limiter!Level, Limiter!Refilled
  <2>2. window' = window /\ clock' = clock + 1
    BY <1>3 DEF Limiter!Tick
  <2> QED BY <1>1, <1>2, <2>1, <2>2 DEF Balance, Limiter!Full
<1>4. ASSUME NEW c \in Clients, Limiter!Allow(c) PROVE Balance'
  <2> DEFINE w == window.client
  <2>1. /\ admitted' = (Limiter!Level(c) >= Cost)
        /\ \A d \in Clients : Limiter!Level(d)' = IF d = c /\ admitted' THEN Limiter!Level(d) - Cost ELSE Limiter!Level(d)
    BY <1>4, AllowTakes
  <2>2. window'.client = w /\ window'.since = window.since /\ clock' = clock
    BY <1>4 DEF Limiter!Allow, Limiter!TypeOK
  <2>3. window'.taken = IF admitted' /\ c = w THEN window.taken + Cost ELSE window.taken
    BY <1>4 DEF Limiter!Allow, Limiter!TypeOK
  <2>4. Limiter!Level(window.client)' = IF w = c /\ admitted' THEN Limiter!Level(w) - Cost ELSE Limiter!Level(w)
    BY <1>1, <2>1, <2>2 DEF Limiter!Level, Limiter!Refilled, Limiter!Full
  <2> QED BY <1>1, <1>2, <2>2, <2>3, <2>4 DEF Balance, Limiter!Full
<1>5. ASSUME NEW c \in Clients, Limiter!Watch(c) PROVE Balance'
  <2>1. window'.client = c /\ window'.taken = 0 /\ window'.since = clock /\ clock' = clock
    BY <1>5 DEF Limiter!Watch
  <2>2. Limiter!Level(window.client)' = Limiter!Level(c)
    BY <1>5, <2>1 DEF Limiter!Watch, Limiter!Level, Limiter!Refilled, Limiter!Full
  <2>3. Limiter!Level(c) \in 0..Limiter!Full
    BY MeetsLevel
  <2> QED BY <1>1, <1>2, <2>1, <2>2, <2>3 DEF Balance, Limiter!Full
<1>6. CASE UNCHANGED Limiter!vars
  BY <1>6 DEF Limiter!vars, Balance, Limiter!Level, Limiter!Refilled, Limiter!Full
<1> QED BY <1>3, <1>4, <1>5, <1>6 DEF Limiter!Next

\* From whatever moment one counts, a client is admitted no more often than a
\* burst and what has flowed in since, whatever clean-ups come between.
LEMMA AllowanceHolds == ASSUME Limiter!RateLimiterAssumption PROVE Limiter!Spec => []Limiter!Allowance
<1>1. Limiter!Init => Balance
  <2>1. (CHOOSE c \in Clients : TRUE) \in Clients
    BY DEF Limiter!RateLimiterAssumption
  <2> QED BY <2>1, FullNat DEF Limiter!Init, Balance, Limiter!Level
<1>2. Limiter!TypeOK /\ Balance /\ [Limiter!Next]_(Limiter!vars) => Balance'
  BY BalanceKept
<1>3. Limiter!TypeOK /\ Balance => Limiter!Allowance
  <2> SUFFICES ASSUME Limiter!TypeOK, Balance PROVE Limiter!Allowance
    OBVIOUS
  <2>1. window.client \in Clients /\ window.taken \in Nat /\ window.since \in Nat /\ clock \in Nat
    BY DEF Limiter!TypeOK
  <2>2. Limiter!Level(window.client) \in 0..Limiter!Full /\ Limiter!Full \in Nat
    BY <2>1, MeetsLevel, FullNat
  <2> QED BY <2>1, <2>2 DEF Balance, Limiter!Allowance
<1> QED BY <1>1, <1>2, <1>3, LimiterTypes, PTL DEF Limiter!Spec

-----------------------------------------------------------------------------
(* The promised buckets *)

\* What the promised buckets hold.
Levels == [c \in Clients |-> Limiter!Level(c)]

LEMMA StepsAsPromised ==
  ASSUME Limiter!RateLimiterAssumption, Limiter!TypeOK, [Limiter!Next]_(Limiter!vars)
  PROVE  [Limiter!Promised!Next]_<<Levels, admitted>>
<1>1. CASE Limiter!Tick
  <2>1. \A c \in Clients : Limiter!Level(c)' = IF Limiter!Level(c) < Limiter!Full THEN Limiter!Level(c) + 1 ELSE Limiter!Full
    BY <1>1, TickFills
  <2> QED BY <1>1, <2>1 DEF Limiter!Tick, Limiter!Promised!Next, Limiter!Promised!Fill, Levels
<1>2. ASSUME NEW c \in Clients, Limiter!Allow(c) PROVE Limiter!Promised!Request(c)
  <2>1. /\ admitted' = (Limiter!Level(c) >= Cost)
        /\ \A d \in Clients : Limiter!Level(d)' = IF d = c /\ admitted' THEN Limiter!Level(d) - Cost ELSE Limiter!Level(d)
    BY <1>2, AllowTakes
  <2> QED BY <2>1 DEF Limiter!Promised!Request
<1>3. ASSUME NEW c \in Clients, Limiter!Watch(c) PROVE UNCHANGED <<Levels, admitted>>
  BY <1>3 DEF Limiter!Watch, Levels, Limiter!Level, Limiter!Refilled, Limiter!Full
<1>4. CASE UNCHANGED Limiter!vars
  BY <1>4 DEF Limiter!vars, Levels, Limiter!Level, Limiter!Refilled, Limiter!Full
<1> QED BY <1>1, <1>2, <1>3, <1>4 DEF Limiter!Next, Limiter!Promised!Next

\* Behaviours of the services are behaviours of the limiter.
LEMMA LimiterRuns == Spec => Limiter!Spec
<1>1. Init => Limiter!Init
  BY DEF Init
<1>2. [Next]_vars => [Limiter!Next]_(Limiter!vars)
  <2>1. CASE UNCHANGED limiterVars
    BY <2>1 DEF limiterVars, Limiter!vars
  <2> QED BY <2>1 DEF Next, vars, OnScratchpads, OnTools, OnSummaries, OnToken
<1> QED BY <1>1, <1>2, PTL DEF Spec, Limiter!Spec

-----------------------------------------------------------------------------
(* All of them *)

\* Parts that do not run rest.
LEMMA InitIInv ==
  ASSUME Init
  PROVE  IInv
<1>1. None \notin Callers /\ Ttl \in Nat /\ MaxDays \in Nat /\ 0 \in 0..MaxDays
  BY NoneAssumption, ServicesAssumption
<1>2. FilterInv
  BY <1>1 DEF Init, Filter!Init, FilterInv, Filter!TypeOK
<1>3. TokenInv
  <2>1. /\ now \in 0..Timeout /\ issued = <<0>> /\ accessToken = 1 /\ used = None
        /\ tokenExpiry = now + ExpiresIn - Margin /\ caller = [c \in Callers |-> None]
    BY DEF Init, Token!Init, Token!Expiry
  <2>2. now \in 0..MaxTime /\ 0 \in 0..MaxTime /\ issued[1] = 0 /\ DOMAIN issued = {1}
    BY <2>1, Periods
  <2>3. issued \in Seq(0..MaxTime)
    BY <2>1, <2>2
  <2>4. TokenTypes
    BY <2>1, <2>2, <2>3, Periods DEF TokenTypes
  <2>5. ExpiryOK
    BY <2>1, <2>2, Periods DEF ExpiryOK
  <2> QED BY <2>1, <2>4, <2>5 DEF TokenInv, UsedOK, CallOK
<1>4. ScratchpadInv
  <2>1. /\ stored = [s \in Sessions |-> None] /\ dashboards = <<>> /\ folder = FALSE
        /\ request = [r \in Requests |-> None] /\ day = 0 /\ due = TRUE /\ purger = None
        /\ cleaned = 0 - Ttl /\ overlapped = {} /\ edited = {} /\ clobbered = {}
    BY DEF Init, Scratchpad!Init
  <2>2. dashboards \in Seq(Scratchpad!Dashboards \cup {None}) /\ DOMAIN dashboards = {}
    <3>1. dashboards \in Seq(Scratchpad!Dashboards \cup {None}) /\ Len(dashboards) = 0
      BY <2>1, EmptySeq
    <3>2. DOMAIN dashboards = 1..0
      BY <3>1, LenProperties
    <3> QED BY <3>1, <3>2
  <2>3. ScratchpadTypes
    <3>1. cleaned \in Int /\ cleaned <= day
      BY <1>1, <2>1
    <3>2. stored \in [Sessions -> DOMAIN dashboards \cup {None}] /\ request \in [Requests -> Scratchpad!Chats \cup {None}]
      BY <2>1
    <3> QED BY <1>1, <2>1, <2>2, <3>1, <3>2 DEF ScratchpadTypes
  <2>4. Scratchpad!Live = {}
    BY <2>2 DEF Scratchpad!Live
  <2>5. Single
    BY <2>1, <2>4 DEF Single, Scratchpad!Hits, Scratchpad!Creating
  <2> QED BY <2>1, <2>3, <2>4, <2>5 DEF ScratchpadInv, Own, Listed
<1>5. part = "summaries" => SummaryInv
  <2>1. ended = <<>> /\ cache = None /\ served = None /\ fetch = [c \in Callers |-> None]
    BY DEF Init
  <2>2. part = "summaries" => now = 0 /\ 0 \in 0..MaxTime
    BY Periods DEF Init
  <2>3. ended \in Seq(0..MaxTime)
    BY <2>1
  <2> QED BY <2>1, <2>2, <2>3 DEF SummaryInv, SummaryTypes, CacheOK, ServedOK, FetchOK
<1> QED BY <1>2, <1>3, <1>4, <1>5 DEF Init, IInv, Token!Init

\* What a part's invariant is about stays as it is while another part runs.
LEMMA FilterRests ==
  ASSUME FilterInv, UNCHANGED filterVars
  PROVE  FilterInv'
BY DEF FilterInv, filterVars, Filter!TypeOK, Filter!Kept, Filter!isToolAllowed, Filter!isToolDenied

LEMMA ScratchpadRests ==
  ASSUME ScratchpadInv, UNCHANGED scratchpadVars
  PROVE  ScratchpadInv'
<1>1. /\ UNCHANGED <<stored, dashboards, folder, request, day, due, purger, cleaned, overlapped, edited, clobbered>>
      /\ Scratchpad!Live' = Scratchpad!Live
  BY DEF scratchpadVars, Scratchpad!Live
<1>2. ScratchpadTypes'
  BY <1>1, SameRecords DEF ScratchpadInv, ScratchpadTypes
<1>3. Keeps
  BY <1>1, ScratchpadNumbers DEF Keeps, ScratchpadInv, Scratchpad!Live
<1>4. /\ (\A r \in Requests : request[r] # None => Sound(request[r]))'
      /\ (\A s \in Sessions : Own(s, stored[s]))' /\ Single'
  BY <1>1, <1>3, AllKnow
<1>5. (\A uid \in Scratchpad!Live : Fine(uid))' /\ Listed'
  BY <1>1 DEF ScratchpadInv, Fine, Listed
<1> QED BY <1>2, <1>4, <1>5 DEF ScratchpadInv

LEMMA SummaryRests ==
  ASSUME SummaryInv, UNCHANGED summaryVars, now' = now
  PROVE  SummaryInv'
<1>1. UNCHANGED <<now, ended, cache, fetch, served>> /\ Summary!Current' = Summary!Current
  BY DEF summaryVars, Summary!Current
<1>2. SummaryTypes'
  BY <1>1 DEF SummaryInv, SummaryTypes, Summary!Entries, Summary!Fetches, Summary!Served
<1>3. CacheOK' /\ ServedOK'
  BY <1>1 DEF SummaryInv, CacheOK, ServedOK
<1>4. \A c \in Callers : FetchOK(c)'
  BY <1>1 DEF SummaryInv, FetchOK
<1> QED BY <1>2, <1>3, <1>4 DEF SummaryInv

LEMMA NextIInv ==
  ASSUME IInv, [Next]_vars
  PROVE  IInv'
<1>1. /\ part \in {"scratchpads", "tools", "summaries", "token", "buckets"}
      /\ FilterInv /\ TokenInv /\ ScratchpadInv
      /\ part # "token" => caller = [c \in Callers |-> None]
      /\ part = "summaries" => SummaryInv
      /\ part # "summaries" => served = None
  BY DEF IInv
<1>2. now \in 0..MaxTime
  BY <1>1 DEF TokenInv, TokenTypes
<1>3. UNCHANGED <<tokenVars, now>> => TokenInv'
  <2> SUFFICES ASSUME UNCHANGED <<tokenVars, now>> PROVE TokenInv'
    OBVIOUS
  <2>1. UNCHANGED <<now, issued, accessToken, tokenExpiry, caller, used>>
    BY DEF tokenVars
  <2> QED BY <1>1, <2>1 DEF TokenInv, TokenTypes, ExpiryOK, UsedOK, CallOK, Token!Calls, Token!Uses
<1>4. CASE OnScratchpads /\ Scratchpad!Next
  <2>1. ScratchpadInv'
    BY <1>1, <1>4, ScratchpadKept
  <2>2. FilterInv' /\ TokenInv'
    BY <1>1, <1>3, <1>4, FilterRests DEF OnScratchpads
  <2> QED BY <1>1, <1>4, <2>1, <2>2 DEF OnScratchpads, IInv, tokenVars, summaryVars
<1>5. CASE OnTools /\ Filter!Next
  <2>1. FilterInv'
    BY <1>1, <1>5, FilterKept
  <2>2. ScratchpadInv' /\ TokenInv'
    BY <1>1, <1>3, <1>5, ScratchpadRests DEF OnTools
  <2> QED BY <1>1, <1>5, <2>1, <2>2 DEF OnTools, IInv, tokenVars, summaryVars
<1>6. CASE OnSummaries /\ Summary!Next
  <2>1. SummaryInv'
    BY <1>1, <1>6, SummaryKept DEF OnSummaries
  <2>2. FilterInv' /\ ScratchpadInv'
    BY <1>1, <1>6, FilterRests, ScratchpadRests DEF OnSummaries
  <2>3. now' \in 0..MaxTime
    BY <2>1 DEF SummaryInv, SummaryTypes
  <2>4. now' \in {now, now + 1}
    BY <1>6 DEF Summary!Next, Summary!Step, Summary!Hit, Summary!Miss, Summary!Answered, Summary!Fail,
       Summary!Store, Summary!Change, Summary!Tick
  <2>5. now <= now'
    BY <1>2, <2>3, <2>4
  <2>6. TokenInv'
    BY <1>1, <1>6, <2>3, <2>5, TokenRests DEF OnSummaries
  <2> QED BY <1>1, <1>6, <2>1, <2>2, <2>6 DEF OnSummaries, IInv, tokenVars
<1>7. CASE OnToken /\ Token!Next
  <2>1. TokenInv'
    BY <1>1, <1>7, TokenKept
  <2>2. FilterInv' /\ ScratchpadInv'
    BY <1>1, <1>7, FilterRests, ScratchpadRests DEF OnToken
  <2> QED BY <1>1, <1>7, <2>1, <2>2 DEF OnToken, IInv, summaryVars
<1>8. CASE part' = part /\ UNCHANGED <<scratchpadVars, filterVars, now, summaryVars, tokenVars>>
  <2>1. FilterInv' /\ ScratchpadInv' /\ TokenInv' /\ (part = "summaries" => SummaryInv')
    BY <1>1, <1>3, <1>8, FilterRests, ScratchpadRests, SummaryRests
  <2> QED BY <1>1, <1>8, <2>1 DEF IInv, tokenVars, summaryVars
<1> QED BY <1>4, <1>5, <1>6, <1>7, <1>8 DEF Next, vars, OnBuckets

LEMMA Invariant == Spec => []IInv
BY InitIInv, NextIInv, PTL DEF Spec

-----------------------------------------------------------------------------
(* The theorems *)

\* Whatever the tool calls, the failures and the users do, a session has one
\* scratchpad, its own, unless two of its requests looked for one in vain at
\* once; what the purger deletes was out of use when it looked (what is saved
\* after that goes all the same), and a run in which no call failed leaves
\* nothing that was; a user's change is lost only if it was made
\* while a call had the dashboard in hand (internal/dashboard/manager.go).
THEOREM ScratchpadsAreKept == Spec => []KeepsScratchpads
<1>1. IInv => KeepsScratchpads
  BY ScratchpadHolds DEF IInv
<1> QED BY <1>1, Invariant, PTL

\* However many callers want the tools of a filtered client at once, the server
\* below is asked for one list, and all get the same of it, in which nothing is
\* that is denied or missing that is allowed (internal/mcp/filter.go).
THEOREM ToolsAreDiscoveredOnce == Spec => []DiscoversOnce
<1>1. IInv => DiscoversOnce
  BY DiscoversOnceHolds DEF IInv
<1> QED BY <1>1, Invariant, PTL

\* No request is given a summary for longer than its lifetime and one fetch
\* after the dashboard changed, and no call goes out with a token that has
\* expired, for any periods of the kind the code has (a margin of at least one
\* request).
THEOREM NothingIsOutdated == Spec => []NothingOutdated
<1>1. IInv => Summary!SummariesAreFresh
  <2>1. CASE part = "summaries"
    BY <2>1, SummaryHolds DEF IInv
  <2>2. CASE part # "summaries"
    BY <2>2 DEF IInv, Summary!SummariesAreFresh
  <2> QED BY <2>1, <2>2
<1>2. IInv => Token!TokensAreValid
  BY TokenHolds DEF IInv
<1>3. IInv => NothingOutdated
  BY <1>1, <1>2 DEF NothingOutdated
<1> QED BY <1>3, Invariant, PTL

\* For any clients, burst, cost and times that meet the assumption, every
\* request is answered as by buckets that are always there, and so a client is
\* admitted no more often than a burst and what has flowed in since
\* (middleware/ratelimit.go).
THEOREM LimitsAreFair == Spec => LimitsFairly
<1>1. Limiter!RateLimiterAssumption
  BY ServicesAssumption
<1>2. Limiter!Init => Limiter!Promised!Init
  BY DEF Limiter!Init, Limiter!Promised!Init, Limiter!Level
<1>3. Limiter!TypeOK /\ [Limiter!Next]_(Limiter!vars) => [Limiter!Promised!Next]_<<Levels, admitted>>
  BY <1>1, StepsAsPromised
<1>4. Limiter!Spec => []Limiter!TypeOK
  BY <1>1, LimiterTypes
<1>5. Limiter!Spec => Limiter!Promised!Spec
  BY <1>2, <1>3, <1>4, PTL DEF Limiter!Spec, Limiter!Promised!Spec, Levels
<1>6. Limiter!Spec => []Limiter!Allowance
  BY <1>1, AllowanceHolds
<1> QED BY <1>5, <1>6, LimiterRuns DEF LimitsFairly, Limiter!LimitsFairly

\* The variables of the services stay in their ranges: what a request or a
\* caller holds exists, and the purger's list is of dashboards.
THEOREM TypeCorrect == Spec => []TypeOK
<1>1. Spec => []Limiter!TypeOK
  BY ServicesAssumption, LimiterTypes, LimiterRuns, PTL
<1>2. IInv => Scratchpad!TypeOK /\ Filter!TypeOK /\ Token!TypeOK /\ (part = "summaries" => Summary!TypeOK)
  BY ScratchpadHolds, TokenHolds, SummaryHolds DEF IInv, FilterInv
<1>3. IInv /\ Limiter!TypeOK => TypeOK
  BY <1>2 DEF TypeOK
<1> QED BY <1>1, <1>3, Invariant, PTL
=============================================================================
