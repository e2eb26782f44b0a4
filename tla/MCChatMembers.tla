--------------------------- MODULE MCChatMembers ---------------------------
(* One chat, a few actors, two requests at a time.                         *)
EXTENDS ChatMembers, TLC

RequestSymmetry == Permutations(Requests)
=============================================================================
