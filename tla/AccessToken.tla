---------------------------- MODULE AccessToken -----------------------------
(***************************************************************************)
(* mcp_servers/genesys-cloud-mcp-go/pkg/genesys/client.go: the access      *)
(* token that concurrent tool calls share and refresh, without a lock.     *)
(*                                                                         *)
(* Loads and stores of one word are atomic and in the order of the program *)
(* (amd64): the token is read and written by its pointer, all tokens have  *)
(* one length, and of the expiry only the monotonic clock is compared.     *)
(* The unit of time is the timeout of a call, sixty seconds; what happens  *)
(* between calls takes no time.                                            *)
(***************************************************************************)
EXTENDS Sequences, Integers

CONSTANTS
  None,
  Callers,
  ExpiresIn,          \* how long a token is good for
  Margin, Timeout,    \* sixty seconds each
  MaxTime, MaxTokens  \* bounds

VARIABLES
  now,
  issued,       \* issued[t]: when token t was issued
  accessToken, tokenExpiry,
  caller,       \* caller[c]: what a tool call is doing, or None
  used          \* history: the token of the last request, and when

vars == <<now, issued, accessToken, tokenExpiry, caller, used>>

\* MUTANT of Expiry: a token is used as long as it is good for.
ExpiryInFull == now + ExpiresIn

\* When the token that has just arrived is to be replaced.
Expiry == now + ExpiresIn - Margin

\* NewClient has authenticated: the first token took its time.
Init ==
  /\ now \in 0..Timeout /\ issued = <<0>> /\ accessToken = 1 /\ tokenExpiry = Expiry
  /\ caller = [c \in Callers |-> None] /\ used = None

Is(c, place) == caller[c] # None /\ caller[c].at = place
To(c, place) == caller' = [caller EXCEPT ![c].at = place]

Waiting == {c \in Callers : Is(c, "ask") \/ Is(c, "token")}

\* ensureAuthenticated
Begin(c) ==
  /\ caller[c] = None
  /\ caller' = [caller EXCEPT ![c] =
                  [at |-> IF now > tokenExpiry THEN "ask" ELSE "use", since |-> now, token |-> None]]
  /\ UNCHANGED <<now, issued, accessToken, tokenExpiry, used>>

\* authenticate: the server issues a token,
Issue(c) ==
  /\ Is(c, "ask") /\ Len(issued) < MaxTokens
  /\ issued' = Append(issued, now)
  /\ caller' = [caller EXCEPT ![c].at = "token", ![c].token = Len(issued) + 1]
  /\ UNCHANGED <<now, accessToken, tokenExpiry, used>>

\* which arrives and is stored,
SetToken(c) ==
  /\ Is(c, "token") /\ accessToken' = caller[c].token /\ To(c, "expiry")
  /\ UNCHANGED <<now, issued, tokenExpiry, used>>

\* and then its expiry is.
SetExpiry(c) ==
  /\ Is(c, "expiry") /\ tokenExpiry' = Expiry /\ To(c, "use")
  /\ UNCHANGED <<now, issued, accessToken, used>>

\* The tool call goes out with the token there is by now.
Use(c) ==
  /\ Is(c, "use") /\ used' = [token |-> accessToken, at |-> now]
  /\ caller' = [caller EXCEPT ![c] = None]
  /\ UNCHANGED <<now, issued, accessToken, tokenExpiry>>

\* No token: the tool call fails.
Fail(c) ==
  /\ c \in Waiting /\ caller' = [caller EXCEPT ![c] = None]
  /\ UNCHANGED <<now, issued, accessToken, tokenExpiry, used>>

Tick ==
  /\ now < MaxTime /\ now' = now + 1
  /\ \A c \in Callers : caller[c] # None => c \in Waiting /\ now < caller[c].since + Timeout
  /\ UNCHANGED <<issued, accessToken, tokenExpiry, caller, used>>

Step(c) == Issue(c) \/ SetToken(c) \/ SetExpiry(c) \/ Use(c) \/ Fail(c)
Next == Tick \/ \E c \in Callers : Begin(c) \/ Step(c)

-----------------------------------------------------------------------------
(* Properties *)

Calls == [at : {"ask", "token", "expiry", "use"}, since : Nat, token : Nat \cup {None}]
Uses == [token : Nat, at : Nat]

TypeOK ==
  /\ now \in 0..MaxTime /\ issued \in Seq(0..MaxTime)
  /\ accessToken \in DOMAIN issued /\ tokenExpiry \in Int
  /\ caller \in [Callers -> Calls \cup {None}] /\ used \in Uses \cup {None}
  /\ \A c \in Callers : caller[c] # None =>
       caller[c].since <= now /\ caller[c].token \in DOMAIN issued \cup {None}
  /\ used # None => used.token \in DOMAIN issued /\ used.at <= now

\* The token and the expiry in force may be those of two different answers,
\* and the tokens may arrive in another order than they were issued in: the
\* margin, which is just the time a call may take, covers that, and no request
\* goes out with a token that is no longer good.
TokensAreValid == used # None => used.at <= issued[used.token] + ExpiresIn
=============================================================================
