-------------------------- MODULE MCReviewWorkflow --------------------------
(* Two papers, two sections; a claim that needs both papers, one that needs *)
(* one of them and may be searched in one or both, one that is withdrawn.   *)
EXTENDS ReviewWorkflow

Claim(text, plan, withdrawn) == [text |-> text, plan |-> plan, withdrawn |-> withdrawn]

MCCandidates == {Claim("broad", {1, 2}, FALSE), Claim("narrow", {1, 2}, FALSE),
                 Claim("narrow", {1}, FALSE), Claim("narrow", {1}, TRUE)}
=============================================================================
