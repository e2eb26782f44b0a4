----------------------------- MODULE MCTriggers -----------------------------
(***************************************************************************)
(* A small instance of Triggers on its own.                                *)
(***************************************************************************)
EXTENDS Triggers

CONSTANTS b1, b2

(* max_chain_depth of every agent.                                         *)
One == [b \in Bots |-> 1]
=============================================================================
