------------------------- MODULE PaperSearchWorkflow -------------------------
(***************************************************************************)
(* The paper_search workflow: one call of the subagent, from a question to *)
(* papers stored for a search task.  It searches in rounds, chooses among  *)
(* the papers it found, creates the task when the request names none, and  *)
(* stores; whatever happened, it removes its PDFs and reports the state of *)
(* the task.  The paper service, its task service and the object store are *)
(* external: what they hold is "remote", "catalogue", "related", "objects". *)
(*                                                                         *)
(* "node" runs next; "stage" is "running" while state["stage"] names the   *)
(* node after it, and else how the search ended.                           *)
(***************************************************************************)
EXTENDS PaperDedup, FiniteSets

CONSTANTS Sources,     \* what the search engine may hold for the question
          PageSize,    \* results per page
          FirstPages,  \* pages of the first search
          MaxExtraPages, MaxRounds, Target,
          NamedTasks,  \* the task the request names: its state, or "none"
          Known,       \* identities the local paper cache may hold at first
          Dois,        \* DOIs Crossref may add
          Adversity    \* the faults this instance may meet

TaskStates == {"SEARCH_PENDING", "SEARCH_RUNNING", "SEARCH_COMPLETED", "SEARCH_FAILED"}

ASSUME SearchAssumption ==
  /\ \A s \in Sources : Len(s) \in Nat
  /\ \A s \in Sources : \A i \in 1..Len(s) : s[i].date \in Nat /\ {s[i].pdf, s[i].valid} \subseteq BOOLEAN
  /\ {PageSize, FirstPages, MaxExtraPages, Target} \subseteq Nat \ {0}
  /\ MaxRounds \in Nat /\ NamedTasks \subseteq TaskStates \cup {"none"}
  /\ Adversity \subseteq {"sourceFault", "nodeFault", "serviceFault", "lostReply",
                          "cleanupFault", "cancel"}

VARIABLES
  node, stage,
  source,                 \* what the engine returns, best first
  plan,                   \* start and max_pages of the search to run
  raw,                    \* raw_result_artifact_refs: positions in source
  cursor,                 \* next_offset and has_next of the source
  round,                  \* supplemental_search_round
  found,                  \* what the filter made of the raw results
  fresh, known,           \* candidates without and with a paper_id
  drafts,                 \* candidates whose venue is still to be saved
  files, paths,           \* PDFs on disk, downloaded_pdf_paths
  kept, saved,            \* the recommended papers, those the manifest says were saved
  task,                   \* the request, or the workflow, has a task id
  unsynced,               \* task_status_update_error is set
  leftover,               \* the cleanup of PDFs failed
  remote, catalogue, related, objects,  \* the services
  cache,                  \* identities in the paper cache
  answer

searchVars == <<plan, raw, cursor, round, found>>
paperVars  == <<fresh, known, drafts, kept, saved>>
fileVars   == <<files, paths, leftover>>
taskVars   == <<task, unsynced, remote>>
storeVars  == <<catalogue, related, objects, cache>>
vars == <<node, stage, source, searchVars, paperVars, fileVars, taskVars, storeVars, answer>>

Nodes == {"initialize", "plan_search", "search", "filter", "review", "enrich",
          "crossref_enrich", "venue", "download_pdf", "abstract_enrich", "recommend",
          "create_task", "persist", "finalize_pdfs", "update_task_status",
          "finalize_result", "done"}

Meets(fault) == fault \in Adversity
Least(m, n) == IF m < n THEN m ELSE n
Identities(S) == UNION {IdentityKeys(e) : e \in S}

-----------------------------------------------------------------------------
(* Routing. *)

\* Mutant of TerminalTarget: only a search with a task has something to tidy.
TerminalTarget_OfTask(downloaded, hasTask) ==
  IF hasTask THEN "finalize_pdfs" ELSE "finalize_result"

\* Where a search goes whose stage is not the one the route expects.
TerminalTarget(downloaded, hasTask) ==
  IF downloaded # {} \/ hasTask THEN "finalize_pdfs" ELSE "finalize_result"

FailsWith(downloaded, hasTask) ==
  stage' = "failed" /\ node' = TerminalTarget(downloaded, hasTask)
Fails == FailsWith(paths, task)

\* A node stores its result as an artifact; when it cannot, the search fails.
Proceeds(next) == node' = next /\ UNCHANGED stage
NodeFails == Meets("nodeFault") /\ Fails

InitializeSearch ==
  /\ node = "initialize"
  /\ \/ task' = (remote # "none")
        /\ Proceeds(IF task' THEN "update_task_status" ELSE "plan_search")
     \/ UNCHANGED task /\ Fails        \* the arguments do not validate
  /\ UNCHANGED <<source, searchVars, paperVars, fileVars, unsynced, remote, storeVars, answer>>

-----------------------------------------------------------------------------
(* Searching, in rounds. *)

PlanSearch ==
  /\ node = "plan_search"
  /\ \/ plan' = [start |-> 0, pages |-> FirstPages] /\ Proceeds("search")
     \/ NodeFails /\ UNCHANGED plan
  /\ UNCHANGED <<source, raw, cursor, round, found, paperVars, fileVars, taskVars, storeVars,
                 answer>>

\* n pages arrived: all that were planned, all there are, or those before a
\* page that failed.
FetchScholarPages(n) ==
  LET next == plan.start + n * PageSize
      last == Least(next, Len(source))
  IN /\ n = plan.pages \/ next >= Len(source) \/ Meets("sourceFault")
     /\ plan.start + (n - 1) * PageSize < Len(source) \/ n = 1
     /\ raw' = raw \o [i \in 1..last - plan.start |-> plan.start + i]
     /\ cursor' = [next |-> next, more |-> n = plan.pages /\ next < Len(source)]

Effective == Cardinality(fresh) + Cardinality(known)

\* Mutant of SearchFailed: a search without candidates is planned again.
SearchFailed_Again ==
  /\ Meets("sourceFault")
  /\ IF Effective = 0 THEN Proceeds("plan_search") ELSE Proceeds("filter")
  /\ UNCHANGED <<raw, cursor>>

\* No page arrived, or the artifact was not written: the source has failed,
\* and the candidates of earlier rounds are all there will be.
SearchFailed ==
  /\ Meets("sourceFault")
  /\ IF Effective = 0 THEN Fails ELSE Proceeds("filter")
  /\ UNCHANGED <<raw, cursor>>

SearchSources ==
  /\ node = "search"
  /\ \/ \E n \in 1..plan.pages : FetchScholarPages(n) /\ Proceeds("filter")
     \/ SearchFailed
  /\ UNCHANGED <<source, plan, round, found, paperVars, fileVars, taskVars, storeVars, answer>>

\* All raw results of all rounds are normalized again.  The batch lookup of
\* the service is not wired: only the cache tells which papers are known.
ResolveCachedPapers(entries) == {e \in entries : IdentityKeys(e) \cap cache # {}}

FilterPapers ==
  /\ node = "filter"
  /\ \/ LET normal  == NormalizePayloads([i \in DOMAIN raw |-> source[raw[i]]])
            entries == {normal.papers[i] : i \in DOMAIN normal.papers}
        IN /\ found' = [papers |-> normal.papers, conflicts |-> normal.conflicts]
           /\ known' = ResolveCachedPapers(entries)
           /\ fresh' = entries \ known'
           /\ Proceeds("review")
     \/ NodeFails /\ UNCHANGED <<found, known, fresh>>
  /\ UNCHANGED <<source, plan, raw, cursor, round, drafts, kept, saved, fileVars, taskVars, storeVars,
                 answer>>

\* The next pages of the source, where the last search stopped.
PlanSupplement(pages) ==
  IF cursor.more
    THEN /\ plan' = [start |-> cursor.next, pages |-> Least(pages, MaxExtraPages)]
         /\ round' = round + 1
         /\ Proceeds("search")
    ELSE Proceeds("enrich") /\ UNCHANGED <<plan, round>>

ReviewSearch ==
  /\ node = "review"
  /\ \/ Proceeds("enrich") /\ UNCHANGED <<plan, round>>
     \/ /\ Effective < Target /\ round < MaxRounds
        /\ \E pages \in 1..2 : PlanSupplement(pages)
     \/ NodeFails /\ UNCHANGED <<plan, round>>
  /\ UNCHANGED <<source, raw, cursor, found, paperVars, fileVars, taskVars, storeVars, answer>>

-----------------------------------------------------------------------------
(* Choosing among the candidates. *)

NoPlan   == [start |-> 0, pages |-> 0]
NoCursor == [next |-> 0, more |-> FALSE]
Nothing  == [papers |-> <<>>, conflicts |-> 0]

\* No later node reads how the candidates were found.
ForgetsSearch ==
  /\ source' = <<>> /\ plan' = NoPlan /\ raw' = <<>>
  /\ cursor' = NoCursor /\ round' = 0 /\ found' = Nothing

\* Candidates without a PDF address are dropped.
EnrichPapers ==
  /\ node = "enrich"
  /\ \/ fresh' = {e \in fresh : e.pdf} /\ Proceeds("crossref_enrich")
     \/ NodeFails /\ UNCHANGED fresh
  /\ ForgetsSearch
  /\ UNCHANGED <<known, drafts, kept, saved, fileVars, taskVars, storeVars, answer>>

CrossrefMerge(e, doi) == IF e.doi = None THEN [e EXCEPT !.doi = doi] ELSE e

CrossrefEnrich ==
  /\ node = "crossref_enrich"
  /\ \/ /\ \E doi \in [fresh -> Dois \cup {None}] :
             fresh' = {CrossrefMerge(e, doi[e]) : e \in fresh}
        /\ Proceeds("venue")
     \/ NodeFails /\ UNCHANGED fresh
  /\ UNCHANGED <<source, searchVars, known, drafts, kept, saved, fileVars, taskVars, storeVars, answer>>

\* A venue is missing, is known with its id, or is a draft to be saved.
VenueDrafts == SUBSET fresh

ResolveVenues ==
  /\ node = "venue"
  /\ \/ drafts' \in VenueDrafts /\ Proceeds("download_pdf")
     \/ NodeFails /\ UNCHANGED drafts
  /\ UNCHANGED <<source, searchVars, fresh, known, kept, saved, fileVars, taskVars, storeVars, answer>>

\* Each download succeeds or not, whatever becomes of the others.
Downloads == SUBSET fresh

\* A paper whose PDF cannot be had is dropped.
DownloadPdfs ==
  /\ node = "download_pdf"
  /\ \E got \in Downloads :
       /\ files' = got /\ paths' = got
       /\ \/ /\ fresh' = got
             /\ IF got # {} \/ known # {} THEN Proceeds("abstract_enrich")
                                         ELSE FailsWith(got, task)
          \/ Meets("nodeFault") /\ FailsWith(got, task) /\ UNCHANGED fresh
  /\ UNCHANGED <<source, searchVars, known, drafts, kept, saved, leftover, taskVars, storeVars, answer>>

AbstractEnrich ==
  /\ node = "abstract_enrich"
  /\ Proceeds("recommend") \/ NodeFails
  /\ UNCHANGED <<source, searchVars, paperVars, fileVars, taskVars, storeVars, answer>>

\* A paper is kept when the model gives it three stars or more; one it has no
\* answer for is not.
Recommendations == SUBSET (fresh \cup known)

RecommendPapers ==
  /\ node = "recommend"
  /\ \/ /\ kept' \in Recommendations
        /\ IF kept' # {} THEN Proceeds("create_task") ELSE Fails
     \/ NodeFails /\ UNCHANGED kept
  /\ UNCHANGED <<source, searchVars, fresh, known, drafts, saved, fileVars, taskVars, storeVars,
                 answer>>

-----------------------------------------------------------------------------
(* The task and what is stored for it. *)

\* A task that cannot be marked as running is used all the same.
MarkRunning ==
  \/ remote' = "SEARCH_RUNNING" /\ unsynced' = FALSE
  \/ Meets("serviceFault") /\ remote' = "SEARCH_PENDING" /\ unsynced' = TRUE
  \/ Meets("lostReply") /\ remote' = "SEARCH_RUNNING" /\ unsynced' = TRUE

\* The manifest of the papers cannot be bound to the task there is.
BindFails == Meets("nodeFault") /\ FailsWith(paths, TRUE)

\* The service may fail to create it, or its reply be lost: then nobody has
\* the id.
CreateRemoteTask ==
  \/ stage' = "blocked" /\ node' = TerminalTarget(paths, task) /\ UNCHANGED taskVars
  \/ Meets("serviceFault") /\ Fails /\ UNCHANGED taskVars
  \/ Meets("lostReply") /\ Fails /\ remote' = "SEARCH_PENDING" /\ UNCHANGED <<task, unsynced>>
  \/ BindFails /\ task' = TRUE /\ remote' = "SEARCH_PENDING" /\ UNCHANGED unsynced
  \/ Proceeds("persist") /\ task' = TRUE /\ MarkRunning

CreateTask ==
  /\ node = "create_task"
  /\ \/ ~task /\ CreateRemoteTask
     \/ task /\ UNCHANGED taskVars /\ (Proceeds("persist") \/ BindFails)
  /\ UNCHANGED <<source, searchVars, paperVars, fileVars, storeVars, answer>>

\* A paper whose venue draft could not be saved is not offered.
Unoffered(venueless) ==
  /\ venueless \subseteq drafts \cap kept
  /\ venueless # {} => Meets("serviceFault")

Offered(venueless) == (kept \ known) \ venueless

SaveNewPapers(offered, acknowledged) ==
  \/ /\ acknowledged \subseteq offered /\ catalogue' = catalogue \cup acknowledged
     /\ acknowledged # offered => Meets("serviceFault")
  \/ Meets("lostReply") /\ acknowledged = {} /\ catalogue' = catalogue \cup offered

\* What has an id is also cached, paper by paper.
UpdatePaperCache(withId, cached) ==
  /\ cached \subseteq withId
  /\ cached # withId => Meets("nodeFault")
  /\ cache' = cache \cup Identities(cached)

\* One call: unless it counts every row, no row is taken for saved.
SaveRelations(withId, counted) ==
  \/ related' = related \cup withId /\ (counted \/ Meets("lostReply"))
  \/ /\ Meets("serviceFault") /\ ~counted
     /\ \E rows \in SUBSET withId : related' = related \cup rows

StorePapers ==
  \E venueless, acknowledged, cached \in SUBSET kept, counted \in BOOLEAN :
    LET withId == acknowledged \cup (kept \cap known) IN
    /\ Unoffered(venueless)
    /\ SaveNewPapers(Offered(venueless), acknowledged)
    /\ UpdatePaperCache(withId, cached)
    /\ SaveRelations(withId, counted)
    /\ \/ /\ stage' = IF counted /\ withId # {} THEN "completed" ELSE "failed"
          /\ saved' = acknowledged
       \/ Meets("nodeFault") /\ stage' = "failed" /\ UNCHANGED saved  \* no manifest of it

PersistPapers ==
  /\ node = "persist" /\ node' = "finalize_pdfs"
  /\ \/ StorePapers
     \/ Meets("nodeFault") /\ stage' = "failed" /\ UNCHANGED <<saved, catalogue, related, cache>>
  /\ UNCHANGED <<source, searchVars, fresh, known, drafts, kept, fileVars, taskVars, objects,
                 answer>>

-----------------------------------------------------------------------------
(* The end, good or bad. *)

\* Mutant of UploadPdfs: of every recommended paper.
UploadPdfs_All(sent) ==
  /\ sent \subseteq kept \cap files
  /\ objects' = objects \cup sent

\* Papers whose record names a PDF: saved in this search, their file at hand.
UploadPdfs(sent) ==
  /\ sent \subseteq saved \cap files
  /\ objects' = objects \cup sent

DeleteDownloadedPdfs ==
  \/ files' = files \ paths /\ paths' = {} /\ UNCHANGED leftover
  \/ /\ Meets("cleanupFault") /\ paths # {}
     /\ files' \in SUBSET files /\ leftover' = TRUE
     /\ UNCHANGED paths

FinalizePdfs ==
  /\ node = "finalize_pdfs"
  /\ \E sent \in SUBSET kept : UploadPdfs(sent)
  /\ DeleteDownloadedPdfs
  /\ Proceeds("update_task_status")
  /\ UNCHANGED <<source, searchVars, paperVars, taskVars, catalogue, related, cache, answer>>

StateToReport ==
  CASE stage = "running" -> "SEARCH_RUNNING"
    [] stage = "completed" -> "SEARCH_COMPLETED"
    [] OTHER -> "SEARCH_FAILED"

\* Mutant of UpdateTaskStatus: an update that failed leaves the stage alone.
UpdateTaskStatus_Quiet ==
  /\ node = "update_task_status"
  /\ \/ ~task /\ UNCHANGED <<remote, unsynced>>
     \/ task /\ remote' = StateToReport /\ unsynced' = FALSE
     \/ task /\ Meets("serviceFault") /\ unsynced' = TRUE /\ UNCHANGED remote
  /\ node' = IF task /\ stage = "running" THEN "plan_search" ELSE "finalize_result"
  /\ UNCHANGED <<stage, source, searchVars, paperVars, fileVars, task, storeVars, answer>>

UpdateTaskStatus ==
  /\ node = "update_task_status"
  /\ \/ /\ ~task /\ UNCHANGED <<stage, remote, unsynced>>
        /\ node' = "finalize_result"
     \/ /\ task /\ remote' = StateToReport
        /\ unsynced' = FALSE /\ UNCHANGED stage
        /\ node' = IF stage = "running" THEN "plan_search" ELSE "finalize_result"
     \/ /\ task
        /\ \/ Meets("serviceFault") /\ UNCHANGED remote
           \/ Meets("lostReply") /\ remote' = StateToReport
        /\ unsynced' = TRUE /\ stage' = "failed"
        /\ node' = "finalize_result"
  /\ UNCHANGED <<source, searchVars, paperVars, fileVars, task, storeVars, answer>>

\* The answer; the state of the workflow goes with it, the artifacts too.
Ends(result) ==
  /\ node' = "done" /\ answer' = result
  /\ ForgetsSearch
  /\ fresh' = {} /\ known' = {} /\ drafts' = {} /\ kept' = {} /\ saved' = {}
  /\ paths' = {}
  /\ UNCHANGED <<stage, leftover, taskVars, storeVars>>

FinalizeResult ==
  /\ node = "finalize_result"
  /\ Ends(IF stage = "completed" THEN "success" ELSE "error")
  /\ UNCHANGED files

\* The run is cancelled or times out.  Downloads that ended have left their
\* file; the cleanup, once begun, is done.
Cancelled ==
  /\ Meets("cancel") /\ node # "done"
  /\ Ends("raised")
  /\ CASE node = "download_pdf"  -> files' \in SUBSET fresh
       [] node = "finalize_pdfs" -> files' = files \ paths
       [] OTHER -> UNCHANGED files

-----------------------------------------------------------------------------
Init ==
  /\ node = "initialize" /\ stage = "running" /\ source \in Sources
  /\ plan = NoPlan /\ raw = <<>> /\ cursor = NoCursor /\ round = 0 /\ found = Nothing
  /\ fresh = {} /\ known = {} /\ drafts = {} /\ kept = {} /\ saved = {}
  /\ files = {} /\ paths = {} /\ leftover = FALSE
  /\ task = FALSE /\ unsynced = FALSE
  /\ remote \in NamedTasks
  /\ catalogue = {} /\ related = {} /\ objects = {}
  /\ cache \in SUBSET Known
  /\ answer = "none"

Next ==
  \/ InitializeSearch \/ PlanSearch \/ SearchSources \/ FilterPapers \/ ReviewSearch
  \/ EnrichPapers \/ CrossrefEnrich \/ ResolveVenues \/ DownloadPdfs \/ AbstractEnrich
  \/ RecommendPapers \/ CreateTask \/ PersistPapers
  \/ FinalizePdfs \/ UpdateTaskStatus \/ FinalizeResult \/ Cancelled

Spec == Init /\ [][Next]_vars

\* The event loop runs the node that is due, and every node ends.
Advances == node # "done" /\ node' \in Nodes \ {node}
FairSpec == Spec /\ WF_node(Advances)

-----------------------------------------------------------------------------
(* Types; the rounds stay within their budget, and read the source from its *)
(* start without a gap or a repetition, whatever pages fail; what is stored *)
(* was a candidate; every PDF on disk is known to the workflow until the    *)
(* cleanup; what is uploaded belongs to a paper the service has.            *)
SearchInv ==
  /\ node \in Nodes /\ stage \in {"running", "completed", "failed", "blocked"}
  /\ remote \in TaskStates \cup {"none"} /\ (task => remote # "none")
  /\ plan.pages <= (IF round = 0 THEN FirstPages ELSE MaxExtraPages)
  /\ round <= MaxRounds
  /\ \A i \in DOMAIN raw : raw[i] = i
  /\ node = "persist" => kept \subseteq fresh \cup known
  /\ node # "done" /\ ~leftover => files = paths
  /\ objects \subseteq catalogue
  /\ answer \in {"none", "success", "error", "raised"}

(* The filter makes one candidate of a paper however often and in whatever  *)
(* order the source lists it: unless the source contradicts itself about a  *)
(* DOI, the keys the candidates are looked up by differ, and every paper    *)
(* that was not filtered out is a candidate, under its DOI, or under its    *)
(* title or the DOI of a paper with that title.  Nor does Crossref ever     *)
(* make a candidate the same as one that is known.                          *)
Represents(e, p) ==
  IF p.doi # None THEN e.doi = p.doi
  ELSE \/ e.title = p.title
       \/ \E i \in DOMAIN raw : LET q == source[raw[i]] IN
            Accepted(q) /\ q.title = p.title /\ q.doi # None /\ q.doi = e.doi

CandidatesAreDistinct ==
  LET papers == found.papers IN
  /\ fresh \cap known = {}
  /\ found.conflicts = 0 =>
       /\ \A i, j \in DOMAIN papers : papers[i].key = papers[j].key => i = j
       /\ node = "review" => \A i \in DOMAIN raw :
            Accepted(source[raw[i]]) =>
              \E j \in DOMAIN papers : Represents(papers[j], source[raw[i]])

(* What the caller is told and what the task service shows agree: success   *)
(* is a completed task with papers, an error is a failed task, unless the   *)
(* update itself failed, and then the answer says so (unsynced).            *)
AnswerMatchesTask ==
  /\ answer = "success" => task /\ remote = "SEARCH_COMPLETED" /\ related # {}
  /\ answer = "error" /\ task /\ ~unsynced => remote = "SEARCH_FAILED"

(* No search leaves its PDFs behind, however it fails: only one that is     *)
(* cancelled before the cleanup, or whose cleanup failed with a warning.    *)
FilesAreRemoved ==
  node = "done" /\ files # {} => answer = "raised" \/ leftover

(* The rounds end, and the request gets its answer. *)
SearchEnds == <>(answer # "none")
=============================================================================
