----------------------------- MODULE McpClients -----------------------------
(***************************************************************************)
(* The two kinds of mcp.Client the agent calls tools through, against what *)
(* they both promise (module Rpc).  main.go makes one client per           *)
(* configured server and clients share nothing, so one client of either    *)
(* kind stands for all of them.                                            *)
(***************************************************************************)
EXTENDS RpcCalls

CONSTANTS
  PipeSize, MayOverflow, MayHang,  \* of module StdioClient
  SSECalls   \* bound: calls over SSE, where Connect makes one call and not two

ASSUME StdioAssumption ==
  PipeSize \in Nat \ {0} /\ {MayOverflow, MayHang} \subseteq BOOLEAN
ASSUME SSEAssumption == SSECalls \in 0..MaxCalls

VARIABLES
  transport,                                          \* the kind of client
  boot, jobs,                                         \* of both kinds
  connected, lock, toServer, server, reader, waiter,  \* of StdioClient
  endpoint, stream                                    \* of SSEClient

Stdio == INSTANCE StdioClient
SSE == INSTANCE SSEClient

stdioVars == <<connected, lock, toServer, server, reader, waiter>>
sseVars == <<endpoint, stream>>
vars == <<callVars, tableVars, incoming, transport, boot, jobs, stdioVars, sseVars>>

\* The variables of the other kind keep their first value.
Init ==
  \/ /\ transport = "stdio" /\ Stdio!Init
     /\ endpoint = "none" /\ stream = "closed"
  \/ /\ transport = "sse" /\ SSE!Init
     /\ connected = FALSE /\ lock = {} /\ toServer = <<>>
     /\ server = "up" /\ reader = "closed" /\ waiter = "done"

OverStdio == transport = "stdio" /\ UNCHANGED <<transport, sseVars>>
OverSSE ==
  transport = "sse" /\ calls' <= SSECalls /\ UNCHANGED <<transport, stdioVars>>

Next == (Stdio!Next /\ OverStdio) \/ (SSE!Next /\ OverSSE)

\* The fairness of the two clients.
Fairness ==
  /\ \A c \in Callers :
       /\ WF_vars(Stdio!Proceed(c) /\ OverStdio)
       /\ SF_vars(Stdio!LockWrite(c) /\ OverStdio)
       /\ WF_vars(SSE!Proceed(c) /\ OverSSE)
  /\ WF_vars(Stdio!ServerReads /\ OverStdio)

Spec == Init /\ [][Next]_vars /\ Fairness

-----------------------------------------------------------------------------
(* Properties *)

\* Every variable of the client stays in its range (modules StdioClient and
\* SSEClient).
TypeOK == IF transport = "stdio" THEN Stdio!TypeOK ELSE SSE!TypeOK

\* A call returns its own answer or an error, whatever the server does (module
\* Rpc).
OwnAnswer == PromisedCalls!Safe

\* Every call returns, unless a server stops reading without exiting.
CallsReturnUnlessHung == [](server # "hung") => PromisedCalls!Returns
=============================================================================
