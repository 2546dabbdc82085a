---------------------------- MODULE RateLimiter -----------------------------
(***************************************************************************)
(* internal/middleware/ratelimit.go: the token buckets that limit how      *)
(* often a client may POST /api/chat.  They are refilled only when they    *)
(* are asked, and those not asked for long are thrown away.                *)
(*                                                                         *)
(* A tick is the time in which one unit flows into a bucket, and a request *)
(* takes Cost units: at 20 requests a minute, ticks of a second and a Cost *)
(* of 3.  The numbers of the code are floats; here they are exact.         *)
(***************************************************************************)
EXTENDS Integers

CONSTANTS
  None,
  Clients,            \* by cookie or address
  Burst, Cost,
  Stale, CleanEvery,  \* ten minutes and five
  MaxTime             \* bound on the clock

\* A bucket that is thrown away would have been full by now: with ten minutes
\* this holds while the burst is at most what ten minutes bring.
RateLimiterAssumption ==
  /\ Clients # {}
  /\ {Burst, Cost} \subseteq Nat \ {0} /\ {CleanEvery, MaxTime} \subseteq Nat
  /\ Stale \in Nat /\ Stale >= Burst * Cost
  /\ None \notin [tokens : Nat, lastTime : Nat]

VARIABLES
  now,
  buckets,    \* buckets[c]: the bucket of client c, or None
  lastClean,
  admitted,   \* how the last request was answered
  window      \* history: what a client has taken since some moment

vars == <<now, buckets, lastClean, admitted, window>>

Full == Burst * Cost

Init ==
  /\ now = 0 /\ lastClean = 0 /\ admitted = TRUE
  /\ buckets = [c \in Clients |-> None]
  /\ window = [client |-> CHOOSE c \in Clients : TRUE, since |-> 0, taken |-> 0]

NewBucket == [tokens |-> Full, lastTime |-> now]

\* What the bucket b holds by now.
Refilled(b) ==
  IF b.tokens + (now - b.lastTime) > Full THEN Full ELSE b.tokens + (now - b.lastTime)

\* MUTANT of Idle: a clean-up throws away what it has not seen since the last.
IdleSinceClean(c) == buckets[c] # None /\ buckets[c].lastTime < now - CleanEvery

Idle(c) == buckets[c] # None /\ buckets[c].lastTime < now - Stale

CleanUp == now - lastClean > CleanEvery

\* The bucket that a request of client c meets.
Bucket(c) == IF buckets[c] = None \/ (CleanUp /\ Idle(c)) THEN NewBucket ELSE buckets[c]

\* That bucket after the request.
After(c) ==
  [tokens |-> Refilled(Bucket(c)) - (IF Refilled(Bucket(c)) >= Cost THEN Cost ELSE 0),
   lastTime |-> now]

\* The requests are served one at a time, under the mutex.
Allow(c) ==
  /\ admitted' = (Refilled(Bucket(c)) >= Cost)
  /\ buckets' = [d \in Clients |-> IF d = c THEN After(c)
                                   ELSE IF CleanUp /\ Idle(d) THEN None ELSE buckets[d]]
  /\ lastClean' = IF CleanUp THEN now ELSE lastClean
  /\ window' = IF admitted' /\ c = window.client THEN [window EXCEPT !.taken = @ + Cost] ELSE window
  /\ UNCHANGED now

Tick == now < MaxTime /\ now' = now + 1 /\ UNCHANGED <<buckets, lastClean, admitted, window>>

\* History: counting starts anew, for any client and at any moment.
Watch(c) ==
  /\ window' = [client |-> c, since |-> now, taken |-> 0]
  /\ UNCHANGED <<now, buckets, lastClean, admitted>>

Next == Tick \/ \E c \in Clients : Allow(c) \/ Watch(c)

Spec == Init /\ [][Next]_vars

-----------------------------------------------------------------------------
(* Properties *)

\* No bucket is ever over its maximum or in debt, and no time lies ahead.
TypeOK ==
  /\ now \in Nat /\ lastClean \in 0..now /\ admitted \in BOOLEAN
  /\ buckets \in [Clients -> [tokens : 0..Full, lastTime : 0..now] \cup {None}]
  /\ window \in [client : Clients, since : 0..now, taken : Nat]

\* "perMinute is the sustained rate; burst is the maximum tokens available at
\* once": from whatever moment one counts, a client is never admitted more
\* often than a burst and what has flowed in since, though buckets are thrown
\* away and made anew in full.
Allowance == window.taken <= Full + (now - window.since)

\* What the bucket of client c would hold, were it asked now.
Level(c) == IF buckets[c] = None THEN Full ELSE Refilled(buckets[c])

Promised == INSTANCE TokenBuckets WITH level <- [c \in Clients |-> Level(c)]

\* Buckets that are refilled when asked, thrown away and made anew answer every
\* request just as buckets that are always there (module TokenBuckets): nobody
\* is admitted, and nobody refused, because of a clean-up.  So the allowance
\* is kept.
LimitsFairly == Promised!Spec /\ []Allowance
=============================================================================
