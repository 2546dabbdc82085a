----------------------------- MODULE ChatStream -----------------------------
(***************************************************************************)
(* What POST /api/chat promises its client about one response: the chunk   *)
(* lifecycle of docs/ARTIFACT_SCHEMA.md as internal/api/streaming.go       *)
(* carries it.  A response opens with "start", announces and reports at    *)
(* most MaxCalls tool calls, one after the other, and closes once, with    *)
(* "complete" and "done" or with an "error".  After an error that is not   *)
(* the last chunk no tool call is announced, and the response still closes.*)
(*                                                                         *)
(* The modules of the code paths that answer a chat implement this one.    *)
(***************************************************************************)
EXTENDS Naturals

CONSTANT MaxCalls    \* tool calls one response may announce

VARIABLES
  phase,             \* what the client has seen of the response so far
  announced,         \* tool calls announced to the client
  waiting            \* input: the handler waits for the model or a tool

csVars == <<phase, announced>>

Init == phase = "idle" /\ announced = 0

\* The "start" chunk.
Start == phase = "idle" /\ phase' = "open" /\ UNCHANGED announced

\* The first "tool" chunk of a call, with its arguments.
Announce ==
  /\ phase = "open" /\ announced < MaxCalls
  /\ phase' = "tool" /\ announced' = announced + 1

\* The second "tool" chunk of the call, with its result.
Report == phase = "tool" /\ phase' = "open" /\ UNCHANGED announced

\* An "error" chunk, and the response goes on.
Fail == phase = "open" /\ phase' = "failed" /\ UNCHANGED announced

\* "complete" and "done", or a last "error"; an unstarted response may be refused.
Close ==
  /\ phase \in {"idle", "open", "failed"}
  /\ phase' = "closed"
  /\ UNCHANGED announced

Next == Start \/ Announce \/ Report \/ Fail \/ Close

\* A response that was opened is closed, unless from some moment on the handler
\* waits for the model or a tool for ever.
Answered == <>[]waiting \/ (phase \notin {"idle", "closed"} ~> phase = "closed")

Safe == Init /\ [][Next]_csVars

Spec == Safe /\ Answered
=============================================================================
