-------------------------------- MODULE Rpc --------------------------------
(***************************************************************************)
(* What an MCP client promises the goroutines that call tools through it:  *)
(* a call ends, with the server's answer to that very call or with an      *)
(* error, and never with the answer to another one.                        *)
(***************************************************************************)
EXTENDS Integers

CONSTANTS Callers, MaxCalls

VARIABLES
  calls,    \* calls begun so far; the number of a call identifies it
  asked,    \* asked[c]: the call c is in, 0 when it is in none
  answer    \* answer[c]: the call whose answer c's last call returned, Failed if it
            \* returned an error, Pending before it returns

rpcVars == <<calls, asked, answer>>

Pending == -1
Failed == 0

Init ==
  /\ calls = 0
  /\ asked = [c \in Callers |-> 0]
  /\ answer = [c \in Callers |-> Pending]

Begin(c) ==
  /\ asked[c] = 0 /\ calls < MaxCalls
  /\ calls' = calls + 1
  /\ asked' = [asked EXCEPT ![c] = calls + 1]
  /\ answer' = [answer EXCEPT ![c] = Pending]

Return(c) ==
  /\ asked[c] # 0
  /\ \E a \in {asked[c], Failed} : answer' = [answer EXCEPT ![c] = a]
  /\ asked' = [asked EXCEPT ![c] = 0]
  /\ UNCHANGED calls

Next == \E c \in Callers : Begin(c) \/ Return(c)

\* Every call returns.
Returns == \A c \in Callers : asked[c] # 0 ~> asked[c] = 0

Safe == Init /\ [][Next]_rpcVars

Spec == Safe /\ Returns
=============================================================================
