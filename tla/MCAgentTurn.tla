----------------------------- MODULE MCAgentTurn -----------------------------
(* One turn of up to three iterations over two backends.                     *)
EXTENDS AgentTurn
CONSTANT turn
=============================================================================
