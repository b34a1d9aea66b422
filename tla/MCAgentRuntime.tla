--------------------------- MODULE MCAgentRuntime ---------------------------
(* Small instances of AgentRuntime for TLC: one or two runs of a conversation. *)
EXTENDS RuntimeInvariant, TLC

CONSTANTS c1, r1, r2

MCConvOf == [r \in Runs |-> c1]
HandlerSymmetry == Permutations(Callers) \cup Permutations({r1, r2})

=============================================================================
