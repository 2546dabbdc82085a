----------------------------- MODULE Mattermost -----------------------------
(***************************************************************************)
(* The Mattermost provider of the ChatOps bridge:                          *)
(* internal/chatops/mattermost/provider.go, from main.go's start to its    *)
(* deferred Stop.  One goroutine listens on a websocket, connects again    *)
(* when it breaks, and starts a handler for every post that mentions the   *)
(* bot.                                                                    *)
(*                                                                         *)
(* Mattermost sends a post only to those connected at that time, and sends *)
(* the bot its own posts too.  The handlers are module ChatOps; all that   *)
(* matters here is that each may post one reply, which may quote a mention.*)
(***************************************************************************)
EXTENDS Naturals, Sequences, FiniteSets

CONSTANTS
  Posts,      \* posts of users
  MaxDrops    \* bound: connections that break, and dials that fail

VARIABLES
  listener,   \* where Provider.Start is
  ctx,        \* the context of the server: "live" or "cancelled"
  stop,       \* has main's deferred Stop run?
  wsConn,     \* what Provider.wsConn holds: "none" or "set"
  link,       \* the connection: "none", "up", "broken" or "closed"
  drops,      \* connections broken and dials failed so far
  events,     \* posts that Mattermost has sent over it
  posted,     \* posts the users have made
  handled,    \* the posts handlers were started for, in their order
  replied     \* those of them with a reply

connectionVars == <<ctx, stop, wsConn, link, drops>>
postVars == <<posted, handled, replied>>
mattermostVars == <<listener, connectionVars, events, postVars>>

Init ==
  /\ listener = "resolving" /\ ctx = "live" /\ stop = FALSE
  /\ wsConn = "none" /\ link = "none" /\ drops = 0
  /\ events = <<>> /\ posted = {} /\ handled = <<>> /\ replied = {}

-----------------------------------------------------------------------------
(* Provider.Start *)

\* Without its identity the provider does not start, and nothing retries.
Resolve ==
  /\ listener = "resolving"
  /\ \/ ctx = "live" /\ listener' = "dialing"
     \/ listener' = "ended"
  /\ UNCHANGED <<ctx, stop, wsConn, link, drops, events, postVars>>

\* After an error of connectAndListen: wait 3 s, unless the context is over.
Retreat == listener' = IF ctx = "live" THEN "waiting" ELSE "ended"

Dial ==
  /\ listener = "dialing"
  /\ \/ /\ ctx = "live"
        /\ link' = "up" /\ listener' = "publishing" /\ UNCHANGED drops
     \/ /\ ctx = "cancelled" \/ drops < MaxDrops
        /\ Retreat /\ UNCHANGED link
        /\ drops' = IF ctx = "live" THEN drops + 1 ELSE drops
  /\ UNCHANGED <<ctx, stop, wsConn, events, postVars>>

Publish ==
  /\ listener = "publishing"
  /\ wsConn' = "set" /\ listener' = "authenticating"
  /\ UNCHANGED <<ctx, stop, link, drops, events, postVars>>

Authenticate ==
  /\ listener = "authenticating"
  /\ \/ link # "closed" /\ listener' = "checking"
     \/ link # "up" /\ listener' = "closing"
  /\ UNCHANGED <<ctx, stop, wsConn, link, drops, events, postVars>>

\* MUTANT of Check: only the connection ends the loop.
CheckNothing ==
  /\ listener = "checking"
  /\ listener' = "reading"
  /\ UNCHANGED <<ctx, stop, wsConn, link, drops, events, postVars>>

Check ==
  /\ listener = "checking"
  /\ listener' = IF ctx = "live" THEN "reading" ELSE "closing"
  /\ UNCHANGED <<ctx, stop, wsConn, link, drops, events, postVars>>

\* MUTANT of ForBot: whoever mentions the bot is answered.
ForBotAnyone(event) == event.mention

\* parsePostedEvent: posts of the bot, posts of other channels and posts that
\* say nothing to the bot are left alone.
ForBot(event) == ~event.own /\ event.mention

\* The next event, which may have come before the connection broke; a post for
\* the bot gets a handler of its own.
Receive ==
  /\ listener = "reading" /\ link \in {"up", "broken"} /\ events # <<>>
  /\ listener' = "checking" /\ events' = Tail(events)
  /\ LET event == Head(events)
     IN IF ForBot(event)
        THEN handled' = Append(handled, event.post) ELSE UNCHANGED handled
  /\ UNCHANGED <<connectionVars, posted, replied>>

ReadFails ==
  /\ listener = "reading" /\ link # "up"
  /\ listener' = "closing"
  /\ UNCHANGED <<ctx, stop, wsConn, link, drops, events, postVars>>

\* The deferred clean-up.
Disconnect ==
  /\ listener = "closing"
  /\ wsConn' = "none" /\ link' = "none" /\ events' = <<>>
  /\ Retreat
  /\ UNCHANGED <<ctx, stop, drops, postVars>>

Reconnect ==
  /\ listener = "waiting"
  /\ listener' = IF ctx = "live" THEN "dialing" ELSE "ended"
  /\ UNCHANGED <<ctx, stop, wsConn, link, drops, events, postVars>>

Listen == Resolve \/ Dial \/ Publish \/ Authenticate \/ Check \/ Receive
          \/ ReadFails \/ Disconnect \/ Reconnect

\* SIGTERM cancels the context of main, then main runs Stop.
Signal ==
  /\ ctx = "live" /\ ctx' = "cancelled"
  /\ UNCHANGED <<listener, stop, wsConn, link, drops, events, postVars>>

Stop ==
  /\ ctx = "cancelled" /\ ~stop
  /\ stop' = TRUE
  /\ link' = IF wsConn = "set" THEN "closed" ELSE link
  /\ UNCHANGED <<listener, ctx, wsConn, drops, events, postVars>>

-----------------------------------------------------------------------------
(* Mattermost *)

\* Once the bot is authenticated it is sent every post.
Connected == link = "up" /\ listener \in {"checking", "reading"}
Deliver(event) == events' = IF Connected THEN Append(events, event) ELSE events

Post(p) ==
  /\ p \notin posted /\ posted' = posted \cup {p}
  /\ \E mention \in BOOLEAN : Deliver([post |-> p, own |-> FALSE, mention |-> mention])
  /\ UNCHANGED <<listener, connectionVars, handled, replied>>

\* SendMessage of the handler of p.
ReplyTo(p) ==
  /\ p \notin replied /\ \E i \in DOMAIN handled : handled[i] = p
  /\ replied' = replied \cup {p}
  /\ \E mention \in BOOLEAN : Deliver([post |-> p, own |-> TRUE, mention |-> mention])
  /\ UNCHANGED <<listener, connectionVars, posted, handled>>

LinkBreaks ==
  /\ link = "up" /\ drops < MaxDrops
  /\ link' = "broken" /\ drops' = drops + 1
  /\ UNCHANGED <<listener, ctx, stop, wsConn, events, postVars>>

-----------------------------------------------------------------------------

Next ==
  \/ Listen \/ Signal \/ Stop \/ LinkBreaks
  \/ \E p \in Posts : Post(p) \/ ReplyTo(p)

-----------------------------------------------------------------------------
(* Properties *)

\* Every variable of the provider stays in its range.
TypeOK ==
  /\ listener \in {"resolving", "dialing", "publishing", "authenticating",
                   "checking", "reading", "closing", "waiting", "ended"}
  /\ ctx \in {"live", "cancelled"} /\ stop \in BOOLEAN /\ drops \in 0..MaxDrops
  /\ wsConn \in {"none", "set"} /\ link \in {"none", "up", "broken", "closed"}
  /\ events \in Seq([post : Posts, own : BOOLEAN, mention : BOOLEAN])
  /\ posted \cup replied \subseteq Posts /\ handled \in Seq(Posts)

\* Every post is handled at most once, and the replies of the bot are not: it
\* never answers itself.
NoEcho == \A i, j \in DOMAIN handled : handled[i] = handled[j] => i = j

\* Stop has ended the provider wherever it was: no connection is opened behind it.
AtRest == stop => listener = "ended"
=============================================================================
