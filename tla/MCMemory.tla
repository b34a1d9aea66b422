------------------------------- MODULE MCMemory -------------------------------
(* Two conversations of one user: c1 is talked in, c2 only uses memory.       *)
EXTENDS MemoryConsolidation, TLC

CONSTANTS c1, c2

MCConversations == {c1, c2}
MCMaxTurns == c1 :> 4 @@ c2 :> 0
MCSymmetry == Permutations(Keys) \cup Permutations(Jobs)
=============================================================================
