---------------------------- MODULE MCAgentLoop ----------------------------
(***************************************************************************)
(* Small instances of AgentLoop.  The window (5) is the smallest one that  *)
(* holds a question and two rounds with two tool calls between them.       *)
(***************************************************************************)
EXTENDS AgentLoop

MCHistory == {0, 2}
MCSystem == {1, 9}
MCSizes == {1, 3}
=============================================================================
