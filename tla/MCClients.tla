----------------------------- MODULE MCClients ------------------------------
(***************************************************************************)
(* Small instance of Clients: two messages, an earlier chat, and a tool    *)
(* call in every answer.                                                   *)
(***************************************************************************)
EXTENDS Clients

CONSTANT earlier

MCEarlier == {earlier}
=============================================================================
