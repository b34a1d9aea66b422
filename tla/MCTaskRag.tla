----------------------------- MODULE MCTaskRag ------------------------------
(* Two papers in batches of one, two requests. *)
EXTENDS TaskRag
=============================================================================
