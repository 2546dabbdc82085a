------------------------------ MODULE RpcCalls ------------------------------
(***************************************************************************)
(* What internal/mcp/stdio_client.go and sse_client.go have in common: the *)
(* table of calls in flight, and the reader that hands a response to the   *)
(* call with its id.  A call has a Go channel of capacity 1 for its        *)
(* response, registered in the table under the id; the reader removes the  *)
(* entry before it sends, the caller removes it when it leaves.            *)
(*                                                                         *)
(* A response is the id it carries and, as its payload, the number of the  *)
(* call whose request the server answers.  Modules StdioClient and         *)
(* SSEClient add the transport.                                            *)
(***************************************************************************)
EXTENDS Integers, Sequences

CONSTANTS
  Callers,     \* goroutines calling through one client
  Main,        \* the one that connects the client
  MaxCalls,    \* bound: calls made in a behaviour
  OutSize,     \* bound: answers on their way to the reader
  MayRepeat    \* may the server answer a request more than once?

ASSUME CallersAssumption == Main \in Callers
ASSUME BoundsAssumption == MaxCalls \in Nat /\ OutSize \in Nat \ {0}
ASSUME RepeatAssumption == MayRepeat \in BOOLEAN

VARIABLES
  pc,          \* pc[c]: where caller c is in jsonRPC
  id,          \* id[c]: the id of its request
  calls,       \* history: calls begun so far
  asked,       \* history: asked[c] is the number of c's call, 0 for none
  answer,      \* answer[c]: what jsonRPC returns, the payload or Failed
  nextID,      \* the id counter
  responses,   \* the ids in the table
  mailbox,     \* mailbox[i]: the channel made for id i
  incoming,    \* responses on their way from the server to the reader
  sending      \* the response the reader is about to send to its channel

callVars == <<pc, id, calls, asked, answer>>
tableVars == <<nextID, responses, mailbox, sending>>

Pending == -1
Failed == 0

\* nextID starts at 1 and is incremented before use.
Ids == 2..(MaxCalls + 1)
Response == [id : Ids, payload : 1..MaxCalls]

CallsInit ==
  /\ pc = [c \in Callers |-> "idle"]
  /\ id = [c \in Callers |-> 0]
  /\ calls = 0
  /\ asked = [c \in Callers |-> 0]
  /\ answer = [c \in Callers |-> Pending]
  /\ nextID = 1
  /\ responses = {}
  /\ mailbox = [i \in Ids |-> <<>>]
  /\ incoming = <<>>
  /\ sending = {}

-----------------------------------------------------------------------------
(* jsonRPC *)

Goto(c, place) == pc' = [pc EXCEPT ![c] = place]

\* A caller enters jsonRPC.
Begin(c) ==
  /\ pc[c] = "idle" /\ calls < MaxCalls
  /\ calls' = calls + 1
  /\ asked' = [asked EXCEPT ![c] = calls + 1]
  /\ answer' = [answer EXCEPT ![c] = Pending]
  /\ Goto(c, "check")
  /\ UNCHANGED <<id, tableVars, incoming>>

\* An early return: the client is not connected.
Refuse(c) ==
  /\ pc[c] = "check"
  /\ answer' = [answer EXCEPT ![c] = Failed]
  /\ asked' = [asked EXCEPT ![c] = 0]
  /\ Goto(c, "idle")
  /\ UNCHANGED <<id, calls, tableVars, incoming>>

\* MUTANT of Allocate: the counter is read, not advanced.
AllocateUnadvanced(c) ==
  /\ id' = [id EXCEPT ![c] = nextID + 1]
  /\ UNCHANGED nextID

\* nextID.Add(1).
Allocate(c) ==
  /\ id' = [id EXCEPT ![c] = nextID + 1]
  /\ nextID' = nextID + 1

\* MUTANT of Register: the channel is not yet in the table when the call sends.
RegisterLate(c) ==
  /\ pc[c] = "check"
  /\ Allocate(c)
  /\ mailbox' = [mailbox EXCEPT ![nextID + 1] = <<>>]
  /\ Goto(c, "send")
  /\ UNCHANGED <<calls, asked, answer, responses, sending, incoming>>

\* The call takes an id and registers a channel for it before it sends.  Until
\* it sends, nobody else knows the id.
Register(c) ==
  /\ pc[c] = "check"
  /\ Allocate(c)
  /\ responses' = responses \cup {nextID + 1}
  /\ mailbox' = [mailbox EXCEPT ![nextID + 1] = <<>>]
  /\ Goto(c, "send")
  /\ UNCHANGED <<calls, asked, answer, sending, incoming>>

\* An error on the way out: the caller goes to its deferred clean-up.
Fail(c) ==
  /\ answer' = [answer EXCEPT ![c] = Failed]
  /\ Goto(c, "clean")

\* The select takes the response from the channel.
Receive(c) ==
  /\ pc[c] = "wait" /\ mailbox[id[c]] # <<>>
  /\ answer' = [answer EXCEPT ![c] = Head(mailbox[id[c]]).payload]
  /\ mailbox' = [mailbox EXCEPT ![id[c]] = Tail(@)]
  /\ Goto(c, "clean")
  /\ UNCHANGED <<id, calls, asked, nextID, responses, sending, incoming>>

\* The select takes the 30 s timer or the cancelled context.
GiveUp(c) ==
  /\ pc[c] = "wait"
  /\ Fail(c)
  /\ UNCHANGED <<id, calls, asked, tableVars, incoming>>

\* The deferred delete, and the return.
Clean(c) ==
  /\ pc[c] = "clean"
  /\ responses' = responses \ {id[c]}
  /\ asked' = [asked EXCEPT ![c] = 0]
  /\ Goto(c, "idle")
  /\ UNCHANGED <<id, calls, answer, nextID, mailbox, sending, incoming>>

-----------------------------------------------------------------------------
(* dispatchResponse *)

\* The entry is looked up and deleted under the lock; no entry, no send.
Dispatch(m) ==
  /\ sending' = IF m.id \in responses THEN {m} ELSE {}
  /\ responses' = responses \ {m.id}

\* The reader takes the next response off the stream.
Take ==
  /\ sending = {} /\ incoming # <<>>
  /\ Dispatch(Head(incoming))
  /\ incoming' = Tail(incoming)
  /\ UNCHANGED <<callVars, nextID, mailbox>>

\* The send on the channel, which blocks as long as the channel is full.
Deliver ==
  /\ \E m \in sending :
       /\ Len(mailbox[m.id]) < 1
       /\ mailbox' = [mailbox EXCEPT ![m.id] = Append(@, m)]
  /\ sending' = {}
  /\ UNCHANGED <<callVars, nextID, responses, incoming>>

-----------------------------------------------------------------------------
(* Properties of the table, whatever the transport *)

InCall == {"send", "write", "wait", "clean"}

CallsTypeOK ==
  /\ pc \in [Callers -> {"idle", "check"} \cup InCall]
  /\ id \in [Callers -> Ids \cup {0}]
  /\ calls \in 0..MaxCalls
  /\ asked \in [Callers -> 0..MaxCalls]
  /\ answer \in [Callers -> {Pending, Failed} \cup 1..MaxCalls]
  /\ nextID \in 1..(MaxCalls + 1)
  /\ responses \subseteq Ids
  /\ mailbox \in [Ids -> Seq(Response)]
  /\ incoming \in Seq(Response)
  /\ sending \subseteq Response

\* The reader never blocks on a channel, though a server answers twice, or after
\* the caller has given up.
ReaderNeverBlocks == \A m \in sending : mailbox[m.id] = <<>>

\* The table holds calls in progress only: it does not grow with the calls that
\* failed or timed out; an answer is never dropped while its call waits for it,
\* even one that comes before the request was seen to be sent; and no answer
\* that nobody reads holds up those of the other calls.
TableIsInFlight ==
  /\ ReaderNeverBlocks
  /\ \A i \in responses : \E c \in Callers : id[c] = i /\ pc[c] \in InCall
  /\ \A k \in DOMAIN incoming, c \in Callers :
       pc[c] \in {"write", "wait"} /\ id[c] = incoming[k].id =>
         \/ incoming[k].id \in responses
         \/ mailbox[incoming[k].id] # <<>>
         \/ \E m \in sending : m.id = incoming[k].id

\* What the calls have returned.
Returned == [c \in Callers |-> IF asked[c] = 0 THEN answer[c] ELSE Pending]

PromisedCalls == INSTANCE Rpc WITH answer <- Returned
=============================================================================
