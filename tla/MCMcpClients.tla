--------------------------- MODULE MCMcpClients ----------------------------
(***************************************************************************)
(* Small instances of McpClients: the connecting goroutine and one more,   *)
(* and enough calls for Connect and for two calls that overlap.            *)
(***************************************************************************)
EXTENDS McpClients

CONSTANTS main, handler

MCCallers == {main, handler}
=============================================================================
