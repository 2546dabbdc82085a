----------------------------- MODULE SSEClient -----------------------------
(***************************************************************************)
(* internal/mcp/sse_client.go: an MCP server over HTTP.  Requests are      *)
(* POSTed to a message endpoint the server names in the first event of a   *)
(* long-lived event stream; the answers come on that stream.               *)
(*                                                                         *)
(* cmd/assistant/main.go connects the client and, if that fails, never     *)
(* offers it to the agent: jsonRPC's early return for an unknown endpoint  *)
(* is not reached.  The connected flag of this client is never read.       *)
(***************************************************************************)
EXTENDS RpcCalls

VARIABLES
  boot,        \* where Connect is
  endpoint,    \* endpointCh: "none", "queued" or "taken"
  stream,      \* the event stream: "open" or "closed"
  jobs         \* requests the server has received and may answer

vars == <<callVars, tableVars, incoming, boot, endpoint, stream, jobs>>

Init ==
  /\ CallsInit
  /\ boot = "opening" /\ endpoint = "none" /\ stream = "open"
  /\ jobs = {}

-----------------------------------------------------------------------------
(* connectSSE, once the stream is open *)

\* The reader passes the endpoint event on, once.
ReaderPassesEndpoint ==
  /\ stream = "open" /\ endpoint = "none"
  /\ endpoint' = "queued"
  /\ UNCHANGED <<callVars, tableVars, incoming, boot, stream, jobs>>

Linked ==
  /\ boot = "opening" /\ endpoint = "queued"
  /\ boot' = "discover" /\ endpoint' = "taken"
  /\ UNCHANGED <<callVars, tableVars, incoming, stream, jobs>>

\* No endpoint within 10 s: the stream is closed and the client skipped.
LinkTimesOut ==
  /\ boot = "opening"
  /\ boot' = "skipped" /\ stream' = "closed"
  /\ UNCHANGED <<callVars, tableVars, incoming, endpoint, jobs>>

-----------------------------------------------------------------------------
(* jsonRPC *)

\* A goroutine may call: Main while it connects, anyone afterwards.
MayBegin(c) == boot = "serving" \/ (c = Main /\ boot = "discover")

Call(c) ==
  /\ MayBegin(c) /\ Begin(c)
  /\ UNCHANGED <<boot, endpoint, stream, jobs>>

RegisterCall(c) ==
  /\ Register(c)
  /\ UNCHANGED <<boot, endpoint, stream, jobs>>

\* The POST reaches the server, which may answer before the POST returns.
PostArrives(c) ==
  /\ pc[c] = "send"
  /\ jobs' = jobs \cup {[id |-> id[c], payload |-> asked[c]]}
  /\ Goto(c, "write")
  /\ UNCHANGED <<id, calls, asked, answer, tableVars, incoming, boot, endpoint,
                 stream>>

PostReturns(c) ==
  /\ pc[c] = "write"
  /\ Goto(c, "wait")
  /\ UNCHANGED <<id, calls, asked, answer, tableVars, incoming, boot, endpoint,
                 stream, jobs>>

\* No connection, a timeout or a status other than 200 and 202, with or without
\* the request having reached the server.
PostFails(c) ==
  /\ pc[c] \in {"send", "write"}
  /\ Fail(c)
  /\ UNCHANGED <<id, calls, asked, tableVars, incoming, boot, endpoint, stream,
                 jobs>>

ReceiveAnswer(c) ==
  /\ Receive(c)
  /\ UNCHANGED <<boot, endpoint, stream, jobs>>

TimeOut(c) ==
  /\ GiveUp(c)
  /\ UNCHANGED <<boot, endpoint, stream, jobs>>

\* DiscoverTools ends Connect; an error, or an error object in the answer,
\* makes main.go skip the client.
ReturnCall(c) ==
  /\ Clean(c)
  /\ boot' \in IF boot = "serving" THEN {boot}
               ELSE {"skipped"} \cup IF answer[c] = Failed THEN {} ELSE {"serving"}
  /\ UNCHANGED <<endpoint, stream, jobs>>

\* What a call does on its own, the timers included.
Proceed(c) ==
  \/ RegisterCall(c) \/ PostArrives(c) \/ PostReturns(c) \/ PostFails(c)
  \/ ReceiveAnswer(c) \/ TimeOut(c) \/ ReturnCall(c)

-----------------------------------------------------------------------------
(* The server and the stream *)

\* Answers come in any order.
ServerAnswers ==
  /\ stream = "open" /\ Len(incoming) < OutSize
  /\ \E m \in jobs :
       /\ incoming' = Append(incoming, m)
       /\ jobs' \in {jobs \ {m}} \cup IF MayRepeat THEN {jobs} ELSE {}
  /\ UNCHANGED <<callVars, tableVars, boot, endpoint, stream>>

ReaderTakes ==
  /\ stream = "open" /\ Take
  /\ UNCHANGED <<boot, endpoint, stream, jobs>>

ReaderDelivers ==
  /\ Deliver
  /\ UNCHANGED <<boot, endpoint, stream, jobs>>

\* The connection is lost, or a line is longer than the buffer (1 MiB).  Nothing
\* opens the stream again: all later calls time out.
StreamEnds ==
  /\ stream = "open" /\ sending = {}
  /\ stream' = "closed" /\ incoming' = <<>>
  /\ UNCHANGED <<callVars, tableVars, boot, endpoint, jobs>>

Reader == ReaderPassesEndpoint \/ ReaderTakes \/ ReaderDelivers

-----------------------------------------------------------------------------
Next ==
  \/ Linked \/ LinkTimesOut
  \/ \E c \in Callers : Call(c) \/ Proceed(c)
  \/ ServerAnswers \/ Reader \/ StreamEnds

\* Goroutines run and the 30 s timers fire; nothing is asked of the server.
Fairness == \A c \in Callers : WF_vars(Proceed(c))

Spec == Init /\ [][Next]_vars /\ Fairness

-----------------------------------------------------------------------------
(* Properties *)

\* Every variable stays in its range, and nothing is sent before the server has
\* named its message endpoint.
TypeOK ==
  /\ CallsTypeOK
  /\ endpoint # "taken" => calls = 0
  /\ boot \in {"opening", "discover", "serving", "skipped"}
  /\ endpoint \in {"none", "queued", "taken"}
  /\ stream \in {"open", "closed"}
  /\ jobs \subseteq Response
=============================================================================
