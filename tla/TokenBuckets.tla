---------------------------- MODULE TokenBuckets ----------------------------
(***************************************************************************)
(* What "per-client rate limiting" promises: each client has a bucket of   *)
(* its own for ever, which fills by one unit per tick up to Full, and a    *)
(* request is admitted exactly if the bucket holds its Cost.               *)
(***************************************************************************)
EXTENDS Integers

CONSTANTS Clients, Full, Cost

VARIABLES
  level,    \* level[c]: what the bucket of client c holds
  admitted  \* how the last request was answered

Init == level = [c \in Clients |-> Full] /\ admitted = TRUE

Fill ==
  /\ level' = [c \in Clients |-> IF level[c] < Full THEN level[c] + 1 ELSE Full]
  /\ UNCHANGED admitted

Request(c) ==
  /\ admitted' = (level[c] >= Cost)
  /\ level' = IF admitted' THEN [level EXCEPT ![c] = @ - Cost] ELSE level

Next == Fill \/ \E c \in Clients : Request(c)

Spec == Init /\ [][Next]_<<level, admitted>>
=============================================================================
