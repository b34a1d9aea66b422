---------------------------- MODULE MCPaperSearch ----------------------------
(* Results of four papers, in every order and with repetitions, from a     *)
(* pool in which papers share a DOI, a title, or both, one has no PDF, and  *)
(* one contradicts another about its DOI.                                   *)
EXTENDS PaperSearchWorkflow

Raw(doi, title, date, pdf) ==
  [doi |-> doi, title |-> title, date |-> date, pdf |-> pdf, valid |-> TRUE]

Pool == {Raw("d1", "t1", 10, TRUE), Raw("d1", None, 12, FALSE), Raw(None, "t1", 0, TRUE),
         Raw("d2", "t2", 10, TRUE), Raw("d1", "t2", 20, TRUE), Raw("d3", "t3", 90, TRUE)}

MCSources == [1..4 -> Pool]

\* One paper the cache may know by its DOI, another by its title.
MCKnown == {<<"doi", "d1">>, <<"title", "t2">>}
=============================================================================
