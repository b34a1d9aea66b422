----------------------------- MODULE SearchProofs -----------------------------
(***************************************************************************)
(* Theorems about PaperSearchWorkflow for all sources, budgets, tasks and  *)
(* faults: no search leaves its PDFs behind, the caller is told what the   *)
(* task service shows, the rounds read the source in order and within      *)
(* their budget, and the filter makes one candidate of a paper.            *)
(***************************************************************************)
EXTENDS PaperSearchWorkflow, WellFoundedInduction, TLAPS

\* The nodes that tidy up and report, whatever became of the search.
Closing == {"finalize_pdfs", "update_task_status", "finalize_result"}

-----------------------------------------------------------------------------
(* The PDFs.                                                               *)

(* What is on disk is what the state knows, until a cleanup has failed; and *)
(* nothing is, before the downloads and once the cleanup is over.           *)
FilesInv ==
  /\ node # "done" /\ ~leftover => files = paths
  /\ node \in {"initialize", "plan_search", "search", "filter", "review", "enrich",
               "crossref_enrich", "venue", "download_pdf", "update_task_status",
               "finalize_result"} => paths = {} \/ leftover
  /\ FilesAreRemoved

LEMMA FilesStart == Init => FilesInv
BY DEF Init, FilesInv, FilesAreRemoved

\* Before the downloads a node that fails has no PDF to remove, afterwards it
\* goes where they are removed.
LEMMA FilesWait ==
  ASSUME FilesInv, UNCHANGED fileVars, node # "done",
         \/ node' \in {"finalize_pdfs", "abstract_enrich", "recommend", "create_task", "persist"}
         \/ node' \notin {"done"} /\ (paths = {} \/ leftover)
  PROVE  FilesInv'
BY DEF FilesInv, FilesAreRemoved, fileVars

LEMMA FailureRemoves ==
  ASSUME FilesInv, UNCHANGED fileVars, node # "done",
         NEW hasTask, node' = TerminalTarget(paths, hasTask)
  PROVE  FilesInv'
<1>1. CASE paths = {} BY <1>1, FilesWait DEF TerminalTarget
<1>2. CASE paths # {} BY <1>2, FilesWait DEF TerminalTarget
<1> QED BY <1>1, <1>2

LEMMA FilesAreKept == FilesInv /\ [Next]_vars => FilesInv'
<1> SUFFICES ASSUME FilesInv, [Next]_vars PROVE FilesInv'
  OBVIOUS
<1>1. CASE InitializeSearch \/ PlanSearch \/ FilterPapers \/ ReviewSearch
  <2>1. /\ node \in {"initialize", "plan_search", "filter", "review"} /\ UNCHANGED fileVars
        /\ \/ node' = TerminalTarget(paths, task)
           \/ node' \in {"update_task_status", "plan_search", "search", "review", "enrich"}
    BY <1>1 DEF InitializeSearch, PlanSearch, FilterPapers, ReviewSearch, PlanSupplement,
       NodeFails, Fails, FailsWith, Proceeds
  <2> QED BY <2>1, FilesWait, FailureRemoves DEF FilesInv
<1>2. CASE SearchSources
  <2>1. /\ node = "search" /\ UNCHANGED fileVars
        /\ node' = TerminalTarget(paths, task) \/ node' = "filter"
    BY <1>2 DEF SearchSources, SearchFailed, Fails, FailsWith, Proceeds
  <2> QED BY <2>1, FilesWait, FailureRemoves DEF FilesInv
<1>3. CASE EnrichPapers \/ CrossrefEnrich \/ ResolveVenues
  <2>1. /\ node \in {"enrich", "crossref_enrich", "venue"} /\ UNCHANGED fileVars
        /\ \/ node' = TerminalTarget(paths, task)
           \/ node' \in {"crossref_enrich", "venue", "download_pdf"}
    BY <1>3 DEF EnrichPapers, CrossrefEnrich, ResolveVenues, NodeFails, Fails, FailsWith, Proceeds
  <2> QED BY <2>1, FilesWait, FailureRemoves DEF FilesInv
<1>4. CASE DownloadPdfs
  <2>1. /\ files' = paths'
        /\ \/ node' = TerminalTarget(paths', task)
           \/ node' = "abstract_enrich"
    BY <1>4 DEF DownloadPdfs, FailsWith, Proceeds
  <2>2. CASE paths' = {} BY <2>1, <2>2 DEF FilesInv, FilesAreRemoved, TerminalTarget
  <2>3. CASE paths' # {} BY <2>1, <2>3 DEF FilesInv, FilesAreRemoved, TerminalTarget
  <2> QED BY <2>2, <2>3
<1>5. CASE AbstractEnrich \/ RecommendPapers \/ PersistPapers
  <2>1. /\ node \in {"abstract_enrich", "recommend", "persist"} /\ UNCHANGED fileVars
        /\ \/ node' = TerminalTarget(paths, task)
           \/ node' \in {"recommend", "create_task", "finalize_pdfs"}
    BY <1>5 DEF AbstractEnrich, RecommendPapers, PersistPapers, NodeFails, Fails, FailsWith,
       Proceeds
  <2> QED BY <2>1, FilesWait, FailureRemoves
<1>6. CASE CreateTask
  <2>1. /\ node = "create_task" /\ UNCHANGED fileVars
        /\ \/ node' = TerminalTarget(paths, task) \/ node' = TerminalTarget(paths, TRUE)
           \/ node' = "persist"
    BY <1>6 DEF CreateTask, CreateRemoteTask, BindFails, Fails, FailsWith, Proceeds
  <2> QED BY <2>1, FilesWait, FailureRemoves
<1>7. CASE FinalizePdfs
  <2>1. node = "finalize_pdfs" /\ node' = "update_task_status" /\ DeleteDownloadedPdfs
    BY <1>7 DEF FinalizePdfs, Proceeds
  <2> QED BY <2>1 DEF DeleteDownloadedPdfs, FilesInv, FilesAreRemoved
<1>8. CASE UpdateTaskStatus
  <2>1. /\ node = "update_task_status" /\ UNCHANGED fileVars
        /\ node' \in {"plan_search", "finalize_result"}
    BY <1>8 DEF UpdateTaskStatus
  <2> QED BY <2>1, FilesWait DEF FilesInv
<1>9. CASE FinalizeResult
  BY <1>9 DEF FinalizeResult, Ends, FilesInv, FilesAreRemoved
<1>10. CASE Cancelled
  BY <1>10 DEF Cancelled, Ends, FilesInv, FilesAreRemoved
<1>11. CASE UNCHANGED vars
  BY <1>11 DEF vars, fileVars, FilesInv, FilesAreRemoved
<1> QED BY <1>1, <1>2, <1>3, <1>4, <1>5, <1>6, <1>7, <1>8, <1>9, <1>10, <1>11 DEF Next

(* However a search ends, none of its PDFs stays on disk, unless it was     *)
(* cancelled or its cleanup failed with a warning.                          *)
THEOREM NoFileStays == Spec => []FilesAreRemoved
<1>1. Spec => []FilesInv
  BY FilesStart, FilesAreKept, PTL DEF Spec
<1>2. FilesInv => FilesAreRemoved
  BY DEF FilesInv
<1> QED BY <1>1, <1>2, PTL

-----------------------------------------------------------------------------
(* The answer and the task.                                                *)

(* A search that goes on is running; one that is closing is not, unless it  *)
(* has only just marked its task.  "Completed" is a search that stored for  *)
(* its task, and its last update said so.                                   *)
ReportInv ==
  /\ node \notin Closing \cup {"done"} => stage = "running"
  /\ node \in {"finalize_pdfs", "finalize_result"} => stage # "running"
  /\ node = "update_task_status" /\ ~task => stage # "running"
  /\ node = "persist" => task
  /\ stage = "completed" => task /\ related # {}
  /\ node = "finalize_result" =>
       /\ stage = "completed" => remote = "SEARCH_COMPLETED"
       /\ stage # "completed" /\ task /\ ~unsynced => remote = "SEARCH_FAILED"
  /\ node # "done" => answer = "none"
  /\ AnswerMatchesTask

LEMMA ReportStarts == Init => ReportInv
BY DEF Init, ReportInv, AnswerMatchesTask, Closing

\* A node that fails, or has the search go on, touching no task.
LEMMA ReportWaits ==
  ASSUME ReportInv, UNCHANGED <<task, unsynced, remote, related, answer>>,
         node \notin Closing \cup {"done"},
         \/ stage' = stage /\ node' \notin Closing \cup {"done", "persist"}
         \/ stage' \in {"failed", "blocked"} /\ node' = TerminalTarget(paths', task)
  PROVE  ReportInv'
<1>1. CASE stage' = stage
  BY <1>1 DEF ReportInv, AnswerMatchesTask, Closing, TerminalTarget
<1>2. CASE stage' # stage
  <2>1. CASE task BY <1>2, <2>1 DEF ReportInv, AnswerMatchesTask, Closing, TerminalTarget
  <2>2. CASE ~task BY <1>2, <2>2 DEF ReportInv, AnswerMatchesTask, Closing, TerminalTarget
  <2> QED BY <2>1, <2>2
<1> QED BY <1>1, <1>2

LEMMA ReportIsKept == ReportInv /\ [Next]_vars => ReportInv'
<1> SUFFICES ASSUME ReportInv, [Next]_vars PROVE ReportInv'
  OBVIOUS
<1> USE DEF fileVars, taskVars, storeVars
<1>1. CASE InitializeSearch
  <2>1. CASE task' # task \/ node' \in {"update_task_status", "plan_search"}
    BY <1>1, <2>1 DEF InitializeSearch, Proceeds, Fails, FailsWith, TerminalTarget, ReportInv,
       AnswerMatchesTask, Closing
  <2>2. CASE ~ (task' # task \/ node' \in {"update_task_status", "plan_search"})
    <3>1. node = "initialize" /\ Fails /\ UNCHANGED <<fileVars, taskVars, storeVars, answer>>
      BY <1>1, <2>2 DEF InitializeSearch, Proceeds
    <3> QED BY <3>1, ReportWaits DEF Fails, FailsWith, Closing
  <2> QED BY <2>1, <2>2
<1>2. CASE PlanSearch \/ FilterPapers \/ ReviewSearch \/ SearchSources
  <2>1. /\ node \in {"plan_search", "filter", "review", "search"}
        /\ UNCHANGED <<fileVars, taskVars, storeVars, answer>>
        /\ \/ stage' = stage /\ node' \in {"search", "review", "enrich", "filter"}
           \/ Fails
    BY <1>2 DEF PlanSearch, FilterPapers, ReviewSearch, SearchSources, SearchFailed,
       PlanSupplement, NodeFails, Proceeds
  <2> QED BY <2>1, ReportWaits DEF Fails, FailsWith, Closing
<1>3. CASE EnrichPapers \/ CrossrefEnrich \/ ResolveVenues
  <2>1. /\ node \in {"enrich", "crossref_enrich", "venue"}
        /\ UNCHANGED <<fileVars, taskVars, storeVars, answer>>
        /\ \/ stage' = stage /\ node' \in {"crossref_enrich", "venue", "download_pdf"}
           \/ Fails
    BY <1>3 DEF EnrichPapers, CrossrefEnrich, ResolveVenues, NodeFails, Proceeds
  <2> QED BY <2>1, ReportWaits DEF Fails, FailsWith, Closing
<1>4. CASE DownloadPdfs
  <2>1. /\ node = "download_pdf" /\ UNCHANGED <<taskVars, storeVars, answer>>
        /\ \/ stage' = stage /\ node' = "abstract_enrich"
           \/ stage' = "failed" /\ node' = TerminalTarget(paths', task)
    BY <1>4 DEF DownloadPdfs, FailsWith, Proceeds
  <2> QED BY <2>1, ReportWaits DEF Closing
<1>5. CASE AbstractEnrich \/ RecommendPapers
  <2>1. /\ node \in {"abstract_enrich", "recommend"}
        /\ UNCHANGED <<fileVars, taskVars, storeVars, answer>>
        /\ \/ stage' = stage /\ node' \in {"recommend", "create_task"}
           \/ Fails
    BY <1>5 DEF AbstractEnrich, RecommendPapers, NodeFails, Proceeds
  <2> QED BY <2>1, ReportWaits DEF Fails, FailsWith, Closing
<1>6. CASE CreateTask
  <2>1. node = "create_task" /\ UNCHANGED <<related, answer>>
    BY <1>6 DEF CreateTask
  <2>2. \/ stage' = stage /\ node' = "persist" /\ task'
        \/ stage' \in {"failed", "blocked"} /\ node' = "finalize_pdfs"
        \/ /\ stage' \in {"failed", "blocked"} /\ node' = "finalize_result"
           /\ ~task /\ ~task'
    BY <1>6 DEF CreateTask, CreateRemoteTask, BindFails, Fails, FailsWith, Proceeds,
       TerminalTarget
  <2> QED BY <2>1, <2>2 DEF ReportInv, AnswerMatchesTask, Closing
<1>7. CASE PersistPapers
  <2>1. /\ node = "persist" /\ node' = "finalize_pdfs"
        /\ UNCHANGED <<fileVars, taskVars, answer>>
    BY <1>7 DEF PersistPapers
  <2>2. stage' \in {"completed", "failed"} /\ (stage' = "completed" => related' # {})
    <3>1. CASE StorePapers
      <4>1. PICK acknowledged \in SUBSET kept, counted \in BOOLEAN :
              /\ SaveRelations(acknowledged \cup (kept \cap known), counted)
              /\ \/ stage' = IF counted /\ acknowledged \cup (kept \cap known) # {}
                               THEN "completed" ELSE "failed"
                 \/ stage' = "failed"
        BY <3>1 DEF StorePapers
      <4>2. counted => related' = related \cup (acknowledged \cup (kept \cap known))
        BY <4>1 DEF SaveRelations
      <4> QED BY <4>1, <4>2
    <3>2. CASE ~StorePapers BY <1>7, <3>2 DEF PersistPapers
    <3> QED BY <3>1, <3>2
  <2> QED BY <2>1, <2>2 DEF ReportInv, AnswerMatchesTask, Closing
<1>8. CASE FinalizePdfs
  <2>1. /\ node = "finalize_pdfs" /\ node' = "update_task_status"
        /\ UNCHANGED <<stage, taskVars, related, answer>>
    BY <1>8 DEF FinalizePdfs, Proceeds
  <2> QED BY <2>1 DEF ReportInv, AnswerMatchesTask, Closing
<1>9. CASE UpdateTaskStatus
  BY <1>9 DEF UpdateTaskStatus, StateToReport, ReportInv, AnswerMatchesTask, Closing
<1>10. CASE FinalizeResult
  BY <1>10 DEF FinalizeResult, Ends, ReportInv, AnswerMatchesTask, Closing
<1>11. CASE Cancelled
  BY <1>11 DEF Cancelled, Ends, ReportInv, AnswerMatchesTask, Closing
<1>12. CASE UNCHANGED vars
  BY <1>12 DEF vars, ReportInv, AnswerMatchesTask
<1> QED BY <1>1, <1>2, <1>3, <1>4, <1>5, <1>6, <1>7, <1>8, <1>9, <1>10, <1>11, <1>12 DEF Next

(* Success is said only of a task the service shows as completed, with      *)
(* papers related to it; an error of one it shows as failed, unless the     *)
(* answer says that the update failed.                                      *)
THEOREM AnswerIsTrue == Spec => []AnswerMatchesTask
<1>1. Spec => []ReportInv
  BY ReportStarts, ReportIsKept, PTL DEF Spec
<1>2. ReportInv => AnswerMatchesTask
  BY DEF ReportInv
<1> QED BY <1>1, <1>2, PTL

-----------------------------------------------------------------------------
(* The rounds, and what is stored.                                         *)

\* Nothing was searched for yet.
NotSearched ==
  \/ node \in {"initialize", "plan_search"}
  \/ node = "update_task_status" /\ stage = "running"

(* The next search starts where the last one stopped, which is the end of   *)
(* what has been read; a search that cannot go on is not planned.           *)
RoundsInv ==
  /\ round \in Nat /\ round <= MaxRounds /\ Len(source) \in Nat
  /\ raw \in Seq(Nat) /\ (\A i \in DOMAIN raw : raw[i] = i) /\ Len(raw) <= Len(source)
  /\ plan.pages \in Nat /\ plan.pages <= (IF round = 0 THEN FirstPages ELSE MaxExtraPages)
  /\ cursor.more => cursor.next = Len(raw) /\ cursor.next < Len(source)
  /\ node = "search" => plan.start = Len(raw) /\ plan.start <= Len(source) /\ plan.pages # 0
  /\ NotSearched => round = 0 /\ raw = <<>> /\ ~cursor.more

(* What was recommended was a candidate, what the manifest calls saved the  *)
(* service has, and a task that is known is there.                          *)
StoredInv ==
  /\ node \in Nodes /\ stage \in {"running", "completed", "failed", "blocked"}
  /\ remote \in TaskStates \cup {"none"} /\ (task => remote # "none")
  /\ node \in {"create_task", "persist"} => kept \subseteq fresh \cup known
  /\ saved \subseteq catalogue /\ objects \subseteq catalogue
  /\ answer \in {"none", "success", "error", "raised"}

LEMMA RoundsStart == Init => RoundsInv
<1> SUFFICES ASSUME Init PROVE RoundsInv
  OBVIOUS
<1>1. /\ round = 0 /\ raw = <<>> /\ plan.pages = 0 /\ ~cursor.more /\ node = "initialize"
      /\ Len(source) \in Nat
  BY SearchAssumption DEF Init, NoPlan, NoCursor
<1>2. raw \in Seq(Nat) /\ (\A i \in DOMAIN raw : raw[i] = i) /\ Len(raw) = 0
  BY <1>1
<1> QED BY <1>1, <1>2, SearchAssumption DEF RoundsInv

\* Nodes that search for nothing and plan nothing.
LEMMA RoundsWait ==
  ASSUME RoundsInv, UNCHANGED <<source, plan, raw, cursor, round>>, node' # "search",
         NotSearched' => NotSearched
  PROVE  RoundsInv'
BY DEF RoundsInv

LEMMA RoundsForgotten ==
  ASSUME RoundsInv, ForgetsSearch, node' # "search"
  PROVE  RoundsInv'
<1>1. /\ round' = 0 /\ raw' = <<>> /\ plan'.pages = 0 /\ ~cursor'.more /\ source' = <<>>
  BY DEF ForgetsSearch, NoPlan, NoCursor
<1>2. /\ raw' \in Seq(Nat) /\ (\A i \in DOMAIN raw' : raw'[i] = i)
      /\ Len(source') = 0 /\ Len(raw') = 0
  BY <1>1
<1> QED BY <1>1, <1>2, SearchAssumption DEF RoundsInv

\* Pages that arrive continue what was read.
LEMMA PagesContinue ==
  ASSUME NEW s \in Seq(Nat), \A i \in DOMAIN s : s[i] = i, NEW k \in Nat,
         NEW r, r = s \o [i \in 1..k |-> Len(s) + i]
  PROVE  r \in Seq(Nat) /\ Len(r) = Len(s) + k /\ \A i \in DOMAIN r : r[i] = i
<1>1. PICK n \in Nat : n = Len(s) /\ DOMAIN s = 1..n
  OBVIOUS
<1>2. PICK f : f = [i \in 1..k |-> n + i]
  OBVIOUS
<1>3. f \in Seq(Nat) /\ Len(f) = k /\ \A i \in 1..k : f[i] = n + i
  <2>1. f \in [1..k -> Nat]
    BY <1>2
  <2> QED BY <1>2, <2>1
<1>4. r = s \o f
  BY <1>1, <1>2
<1>5. r \in Seq(Nat) /\ Len(r) = n + k
  BY <1>1, <1>3, <1>4
<1>6. \A i \in 1..(n + k) : r[i] = IF i <= n THEN s[i] ELSE f[i - n]
  BY <1>1, <1>3, <1>4
<1>7. \A i \in 1..(n + k) : r[i] = i
  <2> SUFFICES ASSUME NEW i \in 1..(n + k) PROVE r[i] = i
    OBVIOUS
  <2>1. CASE i <= n
    BY <1>1, <1>6, <2>1
  <2>2. CASE ~(i <= n)
    <3>1. i - n \in 1..k
      BY <2>2
    <3>2. f[i - n] = n + (i - n)
      BY <1>3, <3>1
    <3>3. r[i] = f[i - n]
      BY <1>6, <2>2
    <3>4. n + (i - n) = i
      OBVIOUS
    <3> QED BY <3>2, <3>3, <3>4
  <2> QED BY <2>1, <2>2
<1> QED BY <1>1, <1>5, <1>7

LEMMA RoundsFetch ==
  ASSUME RoundsInv, node = "search", NEW n \in 1..plan.pages, FetchScholarPages(n),
         UNCHANGED <<source, plan, round>>, node' = "filter"
  PROVE  RoundsInv'
<1>1. /\ plan.start = Len(raw) /\ plan.start <= Len(source) /\ plan.pages \in Nat
      /\ plan.start \in Nat /\ Len(source) \in Nat /\ n \in Nat
  BY DEF RoundsInv
<1>2. PICK next : next = plan.start + n * PageSize
  OBVIOUS
<1>3. next \in Nat /\ plan.start <= next
  <2>1. n * PageSize \in Nat
    BY <1>1, SearchAssumption
  <2> QED BY <1>1, <1>2, <2>1
<1>4. PICK k : k = Least(next, Len(source)) - plan.start
  OBVIOUS
<1>5. /\ k \in Nat /\ plan.start + k <= Len(source)
      /\ next < Len(source) => plan.start + k = next
  BY <1>1, <1>3, <1>4 DEF Least
<1>6. /\ raw' = raw \o [i \in 1..k |-> plan.start + i]
      /\ cursor' = [next |-> next, more |-> n = plan.pages /\ next < Len(source)]
  BY <1>2, <1>4 DEF FetchScholarPages
<1>7. raw' \in Seq(Nat) /\ Len(raw') = Len(raw) + k /\ \A i \in DOMAIN raw' : raw'[i] = i
  <2>1. PICK r : r = raw'
    OBVIOUS
  <2>2. raw \in Seq(Nat) /\ (\A i \in DOMAIN raw : raw[i] = i) /\ k \in Nat
    BY <1>5 DEF RoundsInv
  <2>3. r = raw \o [i \in 1..k |-> Len(raw) + i]
    BY <1>1, <1>6, <2>1
  <2>4. r \in Seq(Nat) /\ Len(r) = Len(raw) + k /\ \A i \in DOMAIN r : r[i] = i
    BY <2>2, <2>3, PagesContinue
  <2> QED BY <2>1, <2>4
<1>8. cursor'.more => cursor'.next = Len(raw') /\ cursor'.next < Len(source)
  BY <1>1, <1>5, <1>6, <1>7
<1>9. Len(raw') <= Len(source)
  BY <1>1, <1>5, <1>7
<1> QED BY <1>7, <1>8, <1>9 DEF RoundsInv, NotSearched

LEMMA RoundsSupplement ==
  ASSUME RoundsInv, node = "review", round < MaxRounds, NEW pages \in 1..2, PlanSupplement(pages),
         UNCHANGED <<source, raw, cursor>>
  PROVE  RoundsInv'
<1>1. CASE cursor.more
  <2>1. /\ plan' = [start |-> cursor.next, pages |-> Least(pages, MaxExtraPages)]
        /\ round' = round + 1 /\ node' = "search"
    BY <1>1 DEF PlanSupplement, Proceeds
  <2>2. /\ plan'.start = cursor.next /\ plan'.pages \in Nat /\ plan'.pages # 0
        /\ plan'.pages <= MaxExtraPages
    BY <2>1, SearchAssumption DEF Least
  <2>3. /\ round \in Nat /\ round + 1 <= MaxRounds /\ round + 1 # 0
        /\ cursor.next = Len(raw) /\ cursor.next <= Len(source)
    BY <1>1, SearchAssumption DEF RoundsInv
  <2> QED BY <2>1, <2>2, <2>3 DEF RoundsInv, NotSearched
<1>2. CASE ~cursor.more
  BY <1>2, RoundsWait DEF PlanSupplement, Proceeds, NotSearched
<1> QED BY <1>1, <1>2

LEMMA RoundsAreKept == RoundsInv /\ ReportInv /\ [Next]_vars => RoundsInv'
<1> SUFFICES ASSUME RoundsInv, ReportInv, [Next]_vars PROVE RoundsInv'
  OBVIOUS
<1>0. \A downloaded, hasTask :
        TerminalTarget(downloaded, hasTask) \in {"finalize_pdfs", "finalize_result"}
  BY DEF TerminalTarget
<1>1. CASE InitializeSearch
  <2>1. /\ node = "initialize" /\ UNCHANGED <<source, plan, raw, cursor, round>>
        /\ node' \in {"update_task_status", "plan_search", "finalize_pdfs", "finalize_result"}
    BY <1>0, <1>1 DEF InitializeSearch, Proceeds, Fails, FailsWith, searchVars
  <2> QED BY <2>1, RoundsWait DEF NotSearched
<1>2. CASE PlanSearch
  <2>1. CASE plan' = [start |-> 0, pages |-> FirstPages] /\ Proceeds("search")
    <3>1. /\ plan'.start = 0 /\ plan'.pages = FirstPages /\ node' = "search"
          /\ UNCHANGED <<source, raw, cursor, round>> /\ NotSearched
      BY <1>2, <2>1 DEF PlanSearch, Proceeds, NotSearched
    <3>2. round = 0 /\ raw = <<>> /\ ~cursor.more
      BY <3>1 DEF RoundsInv
    <3>3. Len(raw) = 0
      BY <3>2
    <3> QED BY <3>1, <3>2, <3>3, SearchAssumption DEF RoundsInv, NotSearched
  <2>2. CASE NodeFails /\ UNCHANGED plan
    BY <1>0, <1>2, <2>2, RoundsWait DEF PlanSearch, NodeFails, Fails, FailsWith, NotSearched
  <2> QED BY <1>2, <2>1, <2>2 DEF PlanSearch
<1>3. CASE SearchSources
  <2>1. node = "search" /\ UNCHANGED <<source, plan, round>>
    BY <1>3 DEF SearchSources
  <2>2. CASE SearchFailed
    <3>1. UNCHANGED <<raw, cursor>> /\ node' \in {"filter", "finalize_pdfs", "finalize_result"}
      BY <1>0, <2>2 DEF SearchFailed, Fails, FailsWith, Proceeds
    <3> QED BY <2>1, <3>1, RoundsWait DEF NotSearched
  <2>3. CASE \E n \in 1..plan.pages : FetchScholarPages(n) /\ Proceeds("filter")
    BY <2>1, <2>3, RoundsFetch DEF Proceeds
  <2> QED BY <1>3, <2>2, <2>3 DEF SearchSources
<1>4. CASE FilterPapers
  <2>1. UNCHANGED <<source, plan, raw, cursor, round>>
        /\ node' \in {"review", "finalize_pdfs", "finalize_result"}
    BY <1>0, <1>4 DEF FilterPapers, NodeFails, Fails, FailsWith, Proceeds
  <2> QED BY <2>1, RoundsWait DEF NotSearched
<1>5. CASE ReviewSearch
  <2>1. node = "review" /\ UNCHANGED <<source, raw, cursor>>
    BY <1>5 DEF ReviewSearch
  <2>2. CASE /\ Effective < Target /\ round < MaxRounds
             /\ \E pages \in 1..2 : PlanSupplement(pages)
    BY <2>1, <2>2, RoundsSupplement
  <2>3. CASE UNCHANGED <<plan, round>> /\ node' \in {"enrich", "finalize_pdfs", "finalize_result"}
    BY <2>1, <2>3, RoundsWait DEF NotSearched
  <2> QED BY <1>0, <1>5, <2>2, <2>3 DEF ReviewSearch, NodeFails, Fails, FailsWith, Proceeds
<1>6. CASE EnrichPapers
  <2>1. ForgetsSearch /\ node' \in {"crossref_enrich", "finalize_pdfs", "finalize_result"}
    BY <1>0, <1>6 DEF EnrichPapers, NodeFails, Fails, FailsWith, Proceeds
  <2> QED BY <2>1, RoundsForgotten
<1>7. CASE CrossrefEnrich \/ ResolveVenues \/ DownloadPdfs \/ AbstractEnrich
  <2>1. UNCHANGED <<source, plan, raw, cursor, round>>
        /\ node' \in {"venue", "download_pdf", "abstract_enrich", "recommend", "finalize_pdfs",
                      "finalize_result"}
    BY <1>0, <1>7 DEF CrossrefEnrich, ResolveVenues, DownloadPdfs, AbstractEnrich, NodeFails, Fails,
       FailsWith, Proceeds, searchVars
  <2> QED BY <2>1, RoundsWait DEF NotSearched
<1>8. CASE RecommendPapers \/ CreateTask \/ PersistPapers
  <2>1. UNCHANGED <<source, plan, raw, cursor, round>>
        /\ node' \in {"create_task", "persist", "finalize_pdfs", "finalize_result"}
    BY <1>0, <1>8 DEF RecommendPapers, CreateTask, CreateRemoteTask, BindFails, PersistPapers,
       NodeFails, Fails, FailsWith, Proceeds, searchVars
  <2> QED BY <2>1, RoundsWait DEF NotSearched
<1>9. CASE FinalizePdfs
  <2>1. /\ UNCHANGED <<source, plan, raw, cursor, round, stage>> /\ node = "finalize_pdfs"
        /\ node' = "update_task_status" /\ stage # "running"
    BY <1>9 DEF FinalizePdfs, Proceeds, searchVars, ReportInv
  <2> QED BY <2>1, RoundsWait DEF NotSearched
<1>10. CASE UpdateTaskStatus
  <2>1. /\ UNCHANGED <<source, plan, raw, cursor, round>>
        /\ \/ node' = "finalize_result"
           \/ node' = "plan_search" /\ node = "update_task_status" /\ stage = "running"
    BY <1>10 DEF UpdateTaskStatus, searchVars
  <2> QED BY <2>1, RoundsWait DEF NotSearched
<1>11. CASE FinalizeResult \/ Cancelled
  BY <1>11, RoundsForgotten DEF FinalizeResult, Cancelled, Ends
<1>12. CASE UNCHANGED vars
  BY <1>12 DEF vars, searchVars, RoundsInv, NotSearched
<1> QED BY <1>1, <1>2, <1>3, <1>4, <1>5, <1>6, <1>7, <1>8, <1>9, <1>10, <1>11, <1>12 DEF Next

LEMMA StoredStarts == Init => StoredInv
BY SearchAssumption DEF Init, StoredInv, Nodes, TaskStates

\* Nodes that store nothing, and do not lead to where the recommended are used.
LEMMA StoredWaits ==
  ASSUME StoredInv, UNCHANGED <<saved, catalogue, objects, answer>>,
         remote' \in TaskStates \cup {"none"}, task' => remote' # "none",
         stage' \in {"running", "completed", "failed", "blocked"},
         \/ node' \in Nodes \ {"create_task", "persist"}
         \/ /\ node' \in Nodes /\ UNCHANGED <<fresh, known, kept>>
            /\ node \in {"create_task", "persist"} \/ kept \subseteq fresh \cup known
  PROVE  StoredInv'
BY DEF StoredInv

LEMMA StoredIsKept == StoredInv /\ [Next]_vars => StoredInv'
<1> SUFFICES ASSUME StoredInv, [Next]_vars PROVE StoredInv'
  OBVIOUS
<1>0. \A downloaded, hasTask :
        TerminalTarget(downloaded, hasTask) \in {"finalize_pdfs", "finalize_result"}
  BY DEF TerminalTarget
<1> USE DEF searchVars, paperVars, fileVars, taskVars, storeVars
<1>1. CASE InitializeSearch
  <2>1. UNCHANGED <<saved, catalogue, objects, answer, remote>>
    BY <1>1 DEF InitializeSearch
  <2>2. \/ task' = (remote # "none")
        \/ task' = task
    BY <1>1 DEF InitializeSearch
  <2>3. task' => remote # "none"
    BY <2>2 DEF StoredInv
  <2>4. /\ node' \in {"update_task_status", "plan_search", "finalize_pdfs", "finalize_result"}
        /\ stage' \in {stage, "failed"}
    <3>1. CASE Proceeds(IF task' THEN "update_task_status" ELSE "plan_search")
      BY <3>1 DEF Proceeds
    <3>2. CASE Fails
      BY <1>0, <3>2 DEF Fails, FailsWith
    <3> QED BY <1>1, <3>1, <3>2 DEF InitializeSearch
  <2> QED BY <2>1, <2>3, <2>4, StoredWaits DEF StoredInv, Nodes
<1>2. CASE PlanSearch \/ SearchSources \/ FilterPapers \/ ReviewSearch
  <2>1. /\ UNCHANGED <<saved, catalogue, objects, answer, remote, task>>
        /\ node' \in {"search", "filter", "review", "enrich", "finalize_pdfs", "finalize_result"}
        /\ stage' \in {stage, "failed"}
    BY <1>0, <1>2 DEF PlanSearch, SearchSources, SearchFailed, FilterPapers, ReviewSearch,
       PlanSupplement, NodeFails, Proceeds, Fails, FailsWith
  <2> QED BY <2>1, StoredWaits DEF StoredInv, Nodes
<1>3. CASE EnrichPapers \/ CrossrefEnrich \/ ResolveVenues \/ DownloadPdfs \/ AbstractEnrich
  <2>1. /\ UNCHANGED <<saved, catalogue, objects, answer, remote, task>>
        /\ node' \in {"crossref_enrich", "venue", "download_pdf", "abstract_enrich", "recommend",
                      "finalize_pdfs", "finalize_result"}
        /\ stage' \in {stage, "failed"}
    BY <1>0, <1>3 DEF EnrichPapers, CrossrefEnrich, ResolveVenues, DownloadPdfs, AbstractEnrich,
       NodeFails, Proceeds, Fails, FailsWith
  <2> QED BY <2>1, StoredWaits DEF StoredInv, Nodes
<1>4. CASE RecommendPapers
  <2>1. /\ UNCHANGED <<saved, catalogue, objects, answer, remote, task, fresh, known>>
        /\ node' \in {"create_task", "finalize_pdfs", "finalize_result"}
        /\ stage' \in {stage, "failed"}
        /\ node' = "create_task" => kept' \subseteq fresh \cup known
    BY <1>0, <1>4 DEF RecommendPapers, Recommendations, NodeFails, Proceeds, Fails, FailsWith
  <2> QED BY <2>1 DEF StoredInv, Nodes
<1>5. CASE CreateTask
  <2>1. /\ UNCHANGED <<saved, catalogue, objects, answer, fresh, known, kept>>
        /\ node = "create_task" /\ node' \in {"persist", "finalize_pdfs", "finalize_result"}
        /\ stage' \in {stage, "failed", "blocked"}
    BY <1>0, <1>5 DEF CreateTask, CreateRemoteTask, BindFails, Proceeds, Fails, FailsWith
  <2>2. remote' \in TaskStates \cup {"none"} /\ (task' => remote' # "none")
    BY <1>5 DEF CreateTask, CreateRemoteTask, MarkRunning, TaskStates, StoredInv
  <2> QED BY <2>1, <2>2, StoredWaits DEF StoredInv, Nodes
<1>6. CASE PersistPapers
  <2>1. /\ node' = "finalize_pdfs" /\ UNCHANGED <<remote, task, objects, answer>>
    BY <1>6 DEF PersistPapers
  <2>2. /\ stage' \in {"completed", "failed"}
        /\ catalogue \subseteq catalogue' /\ saved' \subseteq catalogue'
    <3>1. CASE StorePapers
      <4>1. PICK venueless, acknowledged, cached \in SUBSET kept, counted \in BOOLEAN :
              /\ SaveNewPapers(Offered(venueless), acknowledged)
              /\ stage' \in {"completed", "failed"}
              /\ saved' = acknowledged \/ saved' = saved
        BY <3>1 DEF StorePapers
      <4>2. catalogue \subseteq catalogue' /\ acknowledged \subseteq catalogue'
        BY <4>1 DEF SaveNewPapers
      <4> QED BY <4>1, <4>2 DEF StoredInv
    <3>2. CASE ~StorePapers
      BY <1>6, <3>2 DEF PersistPapers, StoredInv
    <3> QED BY <3>1, <3>2
  <2> QED BY <2>1, <2>2 DEF StoredInv, Nodes
<1>7. CASE FinalizePdfs
  <2>1. /\ node' = "update_task_status" /\ UNCHANGED <<stage, remote, task, saved, catalogue, answer>>
        /\ \E sent : sent \subseteq saved /\ objects' = objects \cup sent
    BY <1>7 DEF FinalizePdfs, UploadPdfs, Proceeds
  <2> QED BY <2>1 DEF StoredInv, Nodes
<1>8. CASE UpdateTaskStatus
  <2>1. /\ UNCHANGED <<task, saved, catalogue, objects, answer>>
        /\ node' \in {"plan_search", "finalize_result"} /\ stage' \in {stage, "failed"}
        /\ remote' \in {remote, StateToReport}
    BY <1>8 DEF UpdateTaskStatus
  <2>2. StateToReport \in TaskStates /\ StateToReport # "none"
    BY DEF StateToReport, TaskStates
  <2> QED BY <2>1, <2>2, StoredWaits DEF StoredInv, Nodes
<1>9. CASE FinalizeResult \/ Cancelled
  <2>1. /\ node' = "done" /\ answer' \in {"success", "error", "raised"} /\ saved' = {}
        /\ UNCHANGED <<stage, remote, task, catalogue, objects>>
    BY <1>9 DEF FinalizeResult, Cancelled, Ends
  <2> QED BY <2>1 DEF StoredInv, Nodes
<1>10. CASE UNCHANGED vars
  BY <1>10 DEF vars, StoredInv
<1> QED BY <1>1, <1>2, <1>3, <1>4, <1>5, <1>6, <1>7, <1>8, <1>9, <1>10 DEF Next

(* The rounds stay within their budget and read the source in order, what   *)
(* is stored was recommended and is the service's, and the PDFs are known   *)
(* to the workflow as long as it can remove them.                           *)
THEOREM SearchInvHolds == Spec => []SearchInv
<1>1. Init => FilesInv /\ ReportInv /\ RoundsInv /\ StoredInv
  BY FilesStart, ReportStarts, RoundsStart, StoredStarts
<1>2. FilesInv /\ ReportInv /\ RoundsInv /\ StoredInv /\ [Next]_vars =>
        (FilesInv /\ ReportInv /\ RoundsInv /\ StoredInv)'
  BY FilesAreKept, ReportIsKept, RoundsAreKept, StoredIsKept
<1>3. FilesInv /\ ReportInv /\ RoundsInv /\ StoredInv => SearchInv
  BY DEF FilesInv, ReportInv, RoundsInv, StoredInv, SearchInv
<1> QED BY <1>1, <1>2, <1>3, PTL DEF Spec

-----------------------------------------------------------------------------
(* Induction over the raw papers, as arguments about the least number that *)
(* is an exception: a set of naturals that is not empty has a least one.   *)

LEMMA LeastNumber ==
  ASSUME NEW T \in SUBSET Nat, T # {}
  PROVE  \E n \in T : \A m \in T : n <= m
<1>1. PICK n \in T : \A m \in T : ~(<<m, n>> \in OpToRel(<, Nat))
  BY NatLessThanWellFounded, WFMin, Zenon
<1>2. \A m \in T : ~(m < n)
  BY <1>1 DEF OpToRel
<1>3. \A m \in T : n <= m
  BY <1>2
<1> QED BY <1>3

\* One turn of the loop, and the turns up to the n-th.
Turn(acc, p) == IF Accepted(p) THEN NormalizePaper(acc, p) ELSE acc
Turns(after, s, n) ==
  after = [i \in 0..n |-> IF i = 0 THEN Start ELSE Turn(after[i - 1], s[i])]

LEMMA TurnsExist ==
  ASSUME NEW s, NEW N \in Nat
  PROVE  \E after : Turns(after, s, N)
<1> DEFINE Bad == {n \in Nat : ~ \E after : Turns(after, s, n)}
<1> SUFFICES ASSUME Bad # {} PROVE FALSE
  OBVIOUS
<1>1. PICK n \in Bad : \A m \in Bad : n <= m
  <2>1. Bad \in SUBSET Nat
    OBVIOUS
  <2> HIDE DEF Bad
  <2> QED BY <2>1, LeastNumber
<1>2. n # 0
  <2>1. Turns([i \in 0..0 |-> Start], s, 0)
    BY DEF Turns
  <2> QED BY <2>1
<1>3. n - 1 \in Nat /\ n - 1 \notin Bad
  BY <1>1, <1>2
<1>4. PICK f : Turns(f, s, n - 1)
  BY <1>3
<1> DEFINE g == [i \in 0..n |-> IF i = n THEN Turn(f[n - 1], s[n]) ELSE f[i]]
<1>5. Turns(g, s, n)
  <2>1. \A i \in 0..n : g[i] = IF i = 0 THEN Start ELSE Turn(g[i - 1], s[i])
    <3> SUFFICES ASSUME NEW i \in 0..n PROVE g[i] = IF i = 0 THEN Start ELSE Turn(g[i - 1], s[i])
      OBVIOUS
    <3>1. CASE i = n
      <4>1. g[i - 1] = f[n - 1] /\ g[i] = Turn(f[n - 1], s[n])
        BY <1>2, <1>3, <3>1
      <4> QED BY <1>2, <3>1, <4>1
    <3>2. CASE i # n
      <4>1. i \in 0..(n - 1) /\ g[i] = f[i] /\ (i # 0 => g[i - 1] = f[i - 1])
        BY <3>2
      <4>2. f[i] = IF i = 0 THEN Start ELSE Turn(f[i - 1], s[i])
        BY <1>4, <4>1 DEF Turns
      <4> QED BY <4>1, <4>2
    <3> QED BY <3>1, <3>2
  <2> QED BY <2>1 DEF Turns
<1> QED BY <1>1, <1>5

\* What the filter makes of its papers is what the last turn leaves.
LEMMA NormalizedByTurns ==
  ASSUME NEW s, Len(s) \in Nat
  PROVE  \E after : Turns(after, s, Len(s)) /\ NormalizePayloads(s) = after[Len(s)]
<1>1. PICK f : f = CHOOSE g : Turns(g, s, Len(s))
  OBVIOUS
<1>2. Turns(f, s, Len(s))
  BY <1>1, TurnsExist
<1>3. NormalizePayloads(s) = f[Len(s)]
  BY <1>1 DEF NormalizePayloads, Turns, Turn
<1> QED BY <1>2, <1>3

-----------------------------------------------------------------------------
(* The filter makes one entry of a paper.                                  *)

\* A raw paper, and an entry, made of these DOIs, titles and dates.
RawPaper(p, D, T, W) == p.doi \in D /\ p.title \in T /\ p.pdf \in BOOLEAN /\ p.date \in W
Entry(D, T, W) ==
  [key : {"doi", "title"} \X (D \cup T), doi : D, title : T, pdf : BOOLEAN, date : W]

\* An entry goes by its title as long as it has no DOI.
Keyed(e) ==
  IF e.doi = None THEN e.title # None /\ e.key = TitleKey(e) ELSE e.key[1] = "doi"

\* An index leads to one of n entries.
Leads(index, n) ==
  None \notin DOMAIN index /\ \A k \in DOMAIN index : index[k] \in 1..n

\* Both indexes lead to entries.
Indexed(acc, E) ==
  /\ acc = [papers |-> acc.papers, byDoi |-> acc.byDoi, byTitle |-> acc.byTitle,
            conflicts |-> acc.conflicts]
  /\ acc.papers \in Seq(E) /\ acc.conflicts \in Nat
  /\ Leads(acc.byDoi, Len(acc.papers)) /\ Leads(acc.byTitle, Len(acc.papers))
  /\ \A i \in 1..Len(acc.papers) : Keyed(acc.papers[i])

\* A paper with this title had this DOI.
Titled(s, n, title, doi) ==
  \E i \in 1..n : Accepted(s[i]) /\ s[i].title = title /\ s[i].doi # None /\ s[i].doi = doi

\* Entry e is known by this title.
KnownAs(e, title, s, n) == e.title = title \/ Titled(s, n, title, e.doi)

\* Entry e is paper p's.
Stands(e, p, s, n) ==
  IF p.doi # None THEN e.doi = p.doi ELSE KnownAs(e, p.title, s, n)

(* What the first n papers have left, as long as no DOI was contradicted:   *)
(* the indexes lead to entries with that DOI or known by that title, every  *)
(* entry is found by what it goes by, and every paper has its entry.        *)
DoisLead(acc) == \A k \in DOMAIN acc.byDoi : acc.papers[acc.byDoi[k]].doi = k
TitlesLead(acc, s, n) ==
  \A k \in DOMAIN acc.byTitle : KnownAs(acc.papers[acc.byTitle[k]], k, s, n)
FoundByDoi(acc) ==
  \A i \in 1..Len(acc.papers) :
    LET e == acc.papers[i] IN
    e.doi # None => e.key = DoiKey(e) /\ e.doi \in DOMAIN acc.byDoi /\ acc.byDoi[e.doi] = i
FoundByTitle(acc) ==
  \A i \in 1..Len(acc.papers) :
    LET e == acc.papers[i] IN
    e.doi = None => e.title \in DOMAIN acc.byTitle /\ acc.byTitle[e.title] = i
Covered(acc, s, n) ==
  \A m \in 1..n : Accepted(s[m]) =>
    \E j \in 1..Len(acc.papers) : Stands(acc.papers[j], s[m], s, n)
Clean(acc, s, n) ==
  /\ DoisLead(acc) /\ TitlesLead(acc, s, n)
  /\ FoundByDoi(acc) /\ FoundByTitle(acc) /\ Covered(acc, s, n)

LEMMA PutLeads ==
  ASSUME NEW n \in Nat, NEW m \in Nat, n <= m, NEW i \in 1..m, NEW index, Leads(index, n),
         NEW key
  PROVE  Leads(index, m) /\ (key # None => Leads(Put(index, key, i), m))
BY DEF Leads, Put

LEMMA MergedEntry ==
  ASSUME NEW D, NEW T, NEW W, NEW p, RawPaper(p, D, T, W), NEW e \in Entry(D, T, W)
  PROVE  LET m == MergeEnvelope(e, p) IN
         /\ m \in Entry(D, T, W)
         /\ m.doi = IF e.doi = None THEN p.doi ELSE e.doi
         /\ m.title = IF e.title = None THEN p.title ELSE e.title
         /\ m.key = IF m.doi # None THEN DoiKey(m) ELSE e.key
<1> DEFINE m == MergeEnvelope(e, p)
<1>1. /\ m.doi = (IF e.doi = None THEN p.doi ELSE e.doi)
      /\ m.title = (IF e.title = None THEN p.title ELSE e.title)
      /\ m.key = (IF m.doi # None THEN <<"doi", m.doi>> ELSE e.key)
      /\ m.pdf = (e.pdf \/ p.pdf)
      /\ m.date \in {e.date, p.date}
      /\ m = [key |-> m.key, doi |-> m.doi, title |-> m.title, pdf |-> m.pdf, date |-> m.date]
  BY DEF MergeEnvelope
<1>2. m.doi \in D /\ m.title \in T /\ m.date \in W
  BY <1>1 DEF Entry, RawPaper
<1>3. m.pdf \in BOOLEAN
  BY <1>1 DEF Entry, RawPaper
<1>4. m.key \in {"doi", "title"} \X (D \cup T)
  BY <1>1, <1>2 DEF Entry
<1> HIDE DEF m
<1>5. m \in Entry(D, T, W)
  BY <1>1, <1>2, <1>3, <1>4 DEF Entry
<1> QED BY <1>1, <1>5 DEF m, DoiKey

LEMMA NewEntry ==
  ASSUME NEW D, NEW T, NEW W, NEW p, RawPaper(p, D, T, W)
  PROVE  /\ Envelope(p) \in Entry(D, T, W)
         /\ Envelope(p).doi = p.doi /\ Envelope(p).title = p.title
         /\ Envelope(p).key = IF p.doi # None THEN DoiKey(p) ELSE TitleKey(p)
BY DEF Envelope, Entry, RawPaper, DoiKey, TitleKey

\* A renamed entry has a DOI before and after; all others stay.
LEMMA RenamedIndexed ==
  ASSUME NEW D, NEW T, NEW W, NEW p, RawPaper(p, D, T, W),
         NEW acc, Indexed(acc, Entry(D, T, W))
  PROVE  LET was == Renamed(acc, p) IN
         /\ Indexed(was, Entry(D, T, W)) /\ Len(was.papers) = Len(acc.papers)
         /\ ~Conflicts(acc, p) => was = acc
<1> DEFINE was == Renamed(acc, p)
           t == Find(acc.byTitle, p.title)
           old == acc.papers[t].doi
<1>1. CASE ~Renames(acc, p)
  BY <1>1 DEF Renamed
<1>2. CASE Renames(acc, p)
  <2>1. /\ t \in 1..Len(acc.papers) /\ p.doi # None /\ old # None
        /\ Conflicts(acc, p)
    BY <1>2 DEF Renames, Conflicts, Find, Indexed, Leads
  <2>2. was = [acc EXCEPT !.papers[t].doi = p.doi,
                           !.byDoi = IF Find(@, old) = t THEN Drop(@, old) ELSE @]
    BY <1>2 DEF Renamed
  <2>3. /\ was.papers = [acc.papers EXCEPT ![t].doi = p.doi]
        /\ was.byDoi = (IF Find(acc.byDoi, old) = t THEN Drop(acc.byDoi, old) ELSE acc.byDoi)
        /\ was.byTitle = acc.byTitle /\ was.conflicts = acc.conflicts
        /\ was = [papers |-> was.papers, byDoi |-> was.byDoi, byTitle |-> was.byTitle,
                   conflicts |-> was.conflicts]
    BY <2>2 DEF Indexed
  <2> HIDE DEF was, t, old
  <2>4. acc.papers \in Seq(Entry(D, T, W)) /\ acc.papers[t] \in Entry(D, T, W)
    BY <2>1 DEF Indexed
  <2>5. [acc.papers[t] EXCEPT !.doi = p.doi] \in Entry(D, T, W)
    BY <2>4 DEF Entry, RawPaper
  <2>6. /\ was.papers \in Seq(Entry(D, T, W)) /\ Len(was.papers) = Len(acc.papers)
        /\ \A i \in 1..Len(acc.papers) : i # t => was.papers[i] = acc.papers[i]
        /\ was.papers[t] = [acc.papers[t] EXCEPT !.doi = p.doi]
    BY <2>1, <2>3, <2>4, <2>5
  <2>7. Keyed(was.papers[t])
    <3>1. acc.papers[t].doi # None /\ Keyed(acc.papers[t])
      BY <2>1 DEF old, Indexed
    <3>2. was.papers[t].doi = p.doi /\ was.papers[t].key = acc.papers[t].key
      BY <2>4, <2>6 DEF Entry
    <3> QED BY <2>1, <3>1, <3>2 DEF Keyed
  <2>8. \A i \in 1..Len(acc.papers) : Keyed(was.papers[i])
    BY <2>6, <2>7 DEF Indexed
  <2>9. /\ DOMAIN was.byDoi \subseteq DOMAIN acc.byDoi
        /\ \A k \in DOMAIN was.byDoi : was.byDoi[k] = acc.byDoi[k]
    BY <2>3 DEF Drop
  <2>10. Indexed(was, Entry(D, T, W))
    BY <2>3, <2>6, <2>8, <2>9 DEF Indexed, Leads
  <2> QED BY <2>1, <2>6, <2>10 DEF was
<1> QED BY <1>1, <1>2

\* The turn of one accepted paper.
LEMMA PaperTurn ==
  ASSUME NEW D, NEW T, NEW W, NEW p, RawPaper(p, D, T, W), Accepted(p),
         NEW acc, Indexed(acc, Entry(D, T, W))
  PROVE  LET was == Renamed(acc, p)
             next == NormalizePaper(acc, p)
             target == EntryFor(acc, p)
             doi == next.papers[target].doi
         IN /\ Indexed(next, Entry(D, T, W))
            /\ target \in 1..Len(next.papers)
            /\ target <= Len(acc.papers) =>
                 /\ Len(next.papers) = Len(acc.papers)
                 /\ next.papers[target] = MergeEnvelope(was.papers[target], p)
            /\ target > Len(acc.papers) =>
                 /\ Len(next.papers) = Len(acc.papers) + 1 /\ target = Len(acc.papers) + 1
                 /\ next.papers[target] = Envelope(p)
            /\ \A i \in 1..Len(acc.papers) : i # target => next.papers[i] = was.papers[i]
            /\ next.byDoi = IF doi # None THEN Put(was.byDoi, doi, target) ELSE was.byDoi
            /\ next.byTitle = IF p.title # None /\ Find(acc.byTitle, p.title) = 0
                              THEN Put(was.byTitle, p.title, target) ELSE was.byTitle
            /\ next.conflicts = acc.conflicts + IF Conflicts(acc, p) THEN 1 ELSE 0
<1> DEFINE E == Entry(D, T, W)
           was == Renamed(acc, p)
           next == NormalizePaper(acc, p)
           target == EntryFor(acc, p)
           doi == next.papers[target].doi
           n == Len(acc.papers)
<1>1. Indexed(was, E) /\ Len(was.papers) = n /\ n \in Nat /\ acc.conflicts \in Nat
  BY RenamedIndexed DEF Indexed
<1>2. target \in 1..n + 1
  BY <1>1 DEF EntryFor, Find, Indexed, Leads
<1> DEFINE papers == IF target > n THEN Append(was.papers, Envelope(p))
                     ELSE [was.papers EXCEPT ![target] = MergeEnvelope(@, p)]
<1>3. next = [papers    |-> papers,
              byDoi     |-> IF papers[target].doi # None
                            THEN Put(was.byDoi, papers[target].doi, target) ELSE was.byDoi,
              byTitle   |-> IF p.title # None /\ Find(acc.byTitle, p.title) = 0
                            THEN Put(was.byTitle, p.title, target) ELSE was.byTitle,
              conflicts |-> acc.conflicts + IF Conflicts(acc, p) THEN 1 ELSE 0]
  <2>1. Len(was.papers) = n
    BY <1>1
  <2> QED BY <2>1 DEF NormalizePaper
<1> HIDE DEF next, was, target, E, papers
<1>4. /\ next.papers = papers
      /\ next.byDoi = (IF doi # None THEN Put(was.byDoi, doi, target) ELSE was.byDoi)
      /\ next.byTitle = (IF p.title # None /\ Find(acc.byTitle, p.title) = 0
                         THEN Put(was.byTitle, p.title, target) ELSE was.byTitle)
      /\ next.conflicts = acc.conflicts + IF Conflicts(acc, p) THEN 1 ELSE 0
      /\ next.conflicts \in Nat
      /\ next = [papers |-> next.papers, byDoi |-> next.byDoi, byTitle |-> next.byTitle,
                 conflicts |-> next.conflicts]
  BY <1>1, <1>3
<1>5. was.papers \in Seq(E) /\ Leads(was.byDoi, n) /\ Leads(was.byTitle, n)
  BY <1>1 DEF Indexed
<1>6. ASSUME NEW m \in Nat, n <= m, target \in 1..m
      PROVE  Leads(next.byDoi, m) /\ Leads(next.byTitle, m)
  <2>1. Leads(was.byDoi, m) /\ (doi # None => Leads(Put(was.byDoi, doi, target), m))
    BY <1>1, <1>5, <1>6, PutLeads
  <2>2. /\ Leads(was.byTitle, m)
        /\ p.title # None => Leads(Put(was.byTitle, p.title, target), m)
    BY <1>1, <1>5, <1>6, PutLeads
  <2> QED BY <1>4, <2>1, <2>2
<1>7. CASE target <= n
  <2>1. target \in 1..n
    BY <1>1, <1>2, <1>7
  <2>2. was.papers[target] \in E /\ Keyed(was.papers[target])
    BY <1>1, <1>5, <2>1 DEF Indexed
  <2>3. /\ MergeEnvelope(was.papers[target], p) \in E
        /\ Keyed(MergeEnvelope(was.papers[target], p))
    <3> DEFINE e == was.papers[target]
               m == MergeEnvelope(was.papers[target], p)
    <3>1. /\ m \in E
          /\ m.doi = (IF e.doi = None THEN p.doi ELSE e.doi)
          /\ m.title = (IF e.title = None THEN p.title ELSE e.title)
          /\ m.key = IF m.doi # None THEN DoiKey(m) ELSE e.key
      BY <2>2, MergedEntry DEF E
    <3> HIDE DEF m
    <3>2. Keyed(m)
      BY <2>2, <3>1 DEF Keyed, DoiKey, TitleKey
    <3> QED BY <3>1, <3>2 DEF m
  <2>4. papers = [was.papers EXCEPT ![target] = MergeEnvelope(@, p)]
    BY <1>1, <1>2, <1>7 DEF papers
  <2>5. /\ papers \in Seq(E) /\ Len(papers) = n
        /\ papers[target] = MergeEnvelope(was.papers[target], p)
        /\ \A i \in 1..n : i # target => papers[i] = was.papers[i]
    BY <1>1, <1>5, <2>1, <2>3, <2>4
  <2>6. \A i \in 1..n : Keyed(papers[i])
    BY <1>1, <2>3, <2>5 DEF Indexed
  <2>7. Indexed(next, E)
    BY <1>1, <1>4, <1>6, <2>1, <2>5, <2>6 DEF Indexed
  <2> QED BY <1>1, <1>4, <1>7, <2>1, <2>5, <2>7 DEF next, was, target, E
<1>8. CASE target > n
  <2>1. target = n + 1 /\ papers = Append(was.papers, Envelope(p))
    BY <1>1, <1>2, <1>8 DEF papers
  <2>2. Envelope(p) \in E /\ Keyed(Envelope(p))
    <3>1. p.doi # None \/ p.title # None
      BY DEF Accepted, IdentityKeys, DoiKey, TitleKey
    <3>2. /\ Envelope(p) \in E /\ Envelope(p).doi = p.doi /\ Envelope(p).title = p.title
          /\ Envelope(p).key = IF p.doi # None THEN DoiKey(p) ELSE TitleKey(p)
      BY NewEntry DEF E
    <3> QED BY <3>1, <3>2 DEF Keyed, DoiKey, TitleKey
  <2>3. /\ papers \in Seq(E) /\ Len(papers) = n + 1
        /\ papers[target] = Envelope(p)
        /\ \A i \in 1..n : papers[i] = was.papers[i]
    BY <1>1, <1>5, <2>1, <2>2
  <2>4. \A i \in 1..n + 1 : Keyed(papers[i])
    BY <1>1, <2>1, <2>2, <2>3 DEF Indexed
  <2>5. Leads(next.byDoi, n + 1) /\ Leads(next.byTitle, n + 1)
    BY <1>1, <1>6, <2>1
  <2>6. Indexed(next, E)
    BY <1>4, <2>3, <2>4, <2>5 DEF Indexed
  <2> QED BY <1>1, <1>4, <1>8, <2>1, <2>3, <2>6 DEF next, was, target, E
<1> QED BY <1>1, <1>2, <1>7, <1>8 DEF target

-----------------------------------------------------------------------------
(* As long as no DOI is contradicted.                                      *)

\* Entry m keeps the DOI and the title that e has.
Grows(e, m) ==
  (e.doi # None => m.doi = e.doi) /\ (e.title # None => m.title = e.title)

LEMMA StillKnown ==
  ASSUME NEW s, NEW n \in Nat, NEW e, NEW m, Grows(e, m), NEW title, title # None,
         KnownAs(e, title, s, n)
  PROVE  KnownAs(m, title, s, n + 1)
<1>1. CASE e.title = title
  BY <1>1 DEF Grows, KnownAs
<1>2. CASE Titled(s, n, title, e.doi)
  <2>1. PICK i \in 1..n :
          Accepted(s[i]) /\ s[i].title = title /\ s[i].doi # None /\ s[i].doi = e.doi
    BY <1>2 DEF Titled
  <2>2. i \in 1..n + 1 /\ m.doi = e.doi
    BY <2>1 DEF Grows
  <2>3. Titled(s, n + 1, title, m.doi)
    BY <2>1, <2>2 DEF Titled
  <2> QED BY <2>3 DEF KnownAs
<1> QED BY <1>1, <1>2 DEF KnownAs

LEMMA StillStands ==
  ASSUME NEW s, NEW n \in Nat, NEW e, NEW m, Grows(e, m), NEW p, Accepted(p), Stands(e, p, s, n)
  PROVE  Stands(m, p, s, n + 1)
<1>1. CASE p.doi # None
  BY <1>1 DEF Stands, Grows
<1>2. CASE p.doi = None
  <2>1. p.title # None
    BY <1>2 DEF Accepted, IdentityKeys, DoiKey, TitleKey
  <2>2. KnownAs(e, p.title, s, n)
    BY <1>2 DEF Stands
  <2> QED BY <1>2, <2>1, <2>2, StillKnown DEF Stands
<1> QED BY <1>1, <1>2

\* When the entries have only grown, so have those that were found.
LEMMA StillCovered ==
  ASSUME NEW s, NEW n \in Nat, NEW acc, NEW next, Covered(acc, s, n),
         Len(acc.papers) \in Nat, Len(next.papers) \in Nat, Len(acc.papers) <= Len(next.papers),
         \A i \in 1..Len(acc.papers) : Grows(acc.papers[i], next.papers[i]),
         Accepted(s[n + 1]) =>
           \E j \in 1..Len(next.papers) : Stands(next.papers[j], s[n + 1], s, n + 1)
  PROVE  Covered(next, s, n + 1)
<1> SUFFICES ASSUME NEW m \in 1..n + 1, Accepted(s[m])
             PROVE  \E j \in 1..Len(next.papers) : Stands(next.papers[j], s[m], s, n + 1)
  BY DEF Covered
<1>1. CASE m = n + 1
  BY <1>1
<1>2. CASE m # n + 1
  <2>1. m \in 1..n
    BY <1>2
  <2>2. PICK j \in 1..Len(acc.papers) : Stands(acc.papers[j], s[m], s, n)
    BY <2>1 DEF Covered
  <2>3. Stands(next.papers[j], s[m], s, n + 1)
    BY <2>2, StillStands
  <2>4. j \in 1..Len(next.papers)
    OBVIOUS
  <2> QED BY <2>3, <2>4
<1> QED BY <1>1, <1>2

\* A paper that is not accepted changes nothing.
LEMMA CleanWaits ==
  ASSUME NEW s, NEW n \in Nat, NEW acc, NEW E, Indexed(acc, E), Clean(acc, s, n),
         ~Accepted(s[n + 1])
  PROVE  Clean(acc, s, n + 1)
<1>1. \A e : Grows(e, e)
  BY DEF Grows
<1>2. TitlesLead(acc, s, n + 1)
  BY <1>1, StillKnown DEF Clean, TitlesLead, Indexed, Leads
<1>3. Covered(acc, s, n + 1)
  <2>1. Len(acc.papers) \in Nat
    BY DEF Indexed
  <2> QED BY <1>1, <2>1, StillCovered DEF Clean
<1> QED BY <1>2, <1>3 DEF Clean

\* An accepted paper finds an entry, or becomes one.
LEMMA CleanTurn ==
  ASSUME NEW D, NEW T, NEW W, NEW s, NEW n \in Nat, Accepted(s[n + 1]),
         RawPaper(s[n + 1], D, T, W), NEW acc, Indexed(acc, Entry(D, T, W)),
         Clean(acc, s, n), ~Conflicts(acc, s[n + 1])
  PROVE  Clean(NormalizePaper(acc, s[n + 1]), s, n + 1)
<1> DEFINE p == s[n + 1]
           next == NormalizePaper(acc, p)
           target == EntryFor(acc, p)
           N == Len(acc.papers)
           d == Find(acc.byDoi, p.doi)
           t == Find(acc.byTitle, p.title)
           e == acc.papers[target]
           m == next.papers[target]
<1>1. /\ N \in Nat /\ Leads(acc.byDoi, N) /\ Leads(acc.byTitle, N)
      /\ acc.papers \in Seq(Entry(D, T, W))
  BY DEF Indexed
<1>2. /\ Indexed(next, Entry(D, T, W)) /\ target \in 1..Len(next.papers)
      /\ target <= N => Len(next.papers) = N /\ m = MergeEnvelope(e, p)
      /\ target > N => Len(next.papers) = N + 1 /\ target = N + 1 /\ m = Envelope(p)
      /\ \A i \in 1..N : i # target => next.papers[i] = acc.papers[i]
      /\ next.byDoi = (IF m.doi # None THEN Put(acc.byDoi, m.doi, target) ELSE acc.byDoi)
      /\ next.byTitle = (IF p.title # None /\ t = 0 THEN Put(acc.byTitle, p.title, target)
                         ELSE acc.byTitle)
  BY RenamedIndexed, PaperTurn
<1>3. target = IF d # 0 THEN d ELSE IF t # 0 THEN t ELSE N + 1
  BY DEF EntryFor
<1>4. /\ d # 0 => p.doi \in DOMAIN acc.byDoi /\ d = acc.byDoi[p.doi]
      /\ d = 0 => p.doi \notin DOMAIN acc.byDoi
      /\ t # 0 => p.title \in DOMAIN acc.byTitle /\ t = acc.byTitle[p.title]
      /\ t = 0 => p.title \notin DOMAIN acc.byTitle
  BY <1>1 DEF Find, Leads
<1>5. p.doi # None \/ p.title # None
  BY DEF Accepted, IdentityKeys, DoiKey, TitleKey
<1>6. /\ DoisLead(acc) /\ TitlesLead(acc, s, n)
      /\ FoundByDoi(acc) /\ FoundByTitle(acc) /\ Covered(acc, s, n)
  BY DEF Clean
<1>7. target <= N =>
        /\ e \in Entry(D, T, W)
        /\ m.doi = (IF e.doi = None THEN p.doi ELSE e.doi)
        /\ m.title = (IF e.title = None THEN p.title ELSE e.title)
        /\ m.doi # None => m.key = DoiKey(m)
  <2> SUFFICES ASSUME target <= N
               PROVE  /\ e \in Entry(D, T, W)
                      /\ m.doi = (IF e.doi = None THEN p.doi ELSE e.doi)
                      /\ m.title = (IF e.title = None THEN p.title ELSE e.title)
                      /\ m.doi # None => m.key = DoiKey(m)
    OBVIOUS
  <2> HIDE DEF next, target
  <2>1. target \in 1..N
    BY <1>2
  <2>2. e \in Entry(D, T, W)
    BY <1>1, <2>1
  <2> QED BY <1>2, <2>2, MergedEntry
<1>8. target > N => /\ m.doi = p.doi /\ m.title = p.title
                    /\ m.doi # None => m.key = DoiKey(m)
  <2> HIDE DEF next, target
  <2>1. target > N => m = Envelope(p)
    BY <1>2
  <2>2. /\ Envelope(p).doi = p.doi /\ Envelope(p).title = p.title
        /\ p.doi # None => Envelope(p).key = DoiKey(p)
    BY NewEntry
  <2> QED BY <2>1, <2>2 DEF DoiKey
<1>9. t # 0 /\ p.doi # None => acc.papers[t].doi \in {None, p.doi}
  BY DEF Conflicts
<1> HIDE DEF next, target, p
\* The entry a paper is merged into has not another DOI.
<1>10. target <= N /\ p.doi # None => m.doi = p.doi
  <2> SUFFICES ASSUME target <= N, p.doi # None PROVE m.doi = p.doi
    OBVIOUS
  <2>1. CASE d # 0
    BY <1>3, <1>4, <1>6, <1>7, <2>1 DEF DoisLead
  <2>2. CASE d = 0
    BY <1>3, <1>7, <1>9, <2>2
  <2> QED BY <2>1, <2>2
<1>11. m.doi # None => m.key = DoiKey(m)
  BY <1>1, <1>2, <1>7, <1>8
<1>12. \A i \in 1..N : Grows(acc.papers[i], next.papers[i])
  <2> SUFFICES ASSUME NEW i \in 1..N PROVE Grows(acc.papers[i], next.papers[i])
    OBVIOUS
  <2>1. CASE i = target BY <1>7, <2>1 DEF Grows
  <2>2. CASE i # target BY <1>2, <2>2 DEF Grows
  <2> QED BY <2>1, <2>2
<1>13. p.doi # None => m.doi = p.doi
  BY <1>1, <1>2, <1>8, <1>10
<1> HIDE DEF d, t, e, m, N
<1>14. DoisLead(next)
  <2> SUFFICES ASSUME NEW k \in DOMAIN next.byDoi PROVE next.papers[next.byDoi[k]].doi = k
    BY DEF DoisLead
  <2>1. CASE m.doi # None /\ k = m.doi
    BY <1>2, <2>1 DEF Put, m
  <2>2. CASE ~(m.doi # None /\ k = m.doi)
    <3>1. k \in DOMAIN acc.byDoi /\ next.byDoi[k] = acc.byDoi[k]
      BY <1>2, <2>2 DEF Put
    <3>2. acc.byDoi[k] \in 1..N /\ acc.papers[acc.byDoi[k]].doi = k /\ k # None
      BY <1>1, <1>6, <3>1 DEF Leads, DoisLead
    <3>3. next.papers[acc.byDoi[k]].doi = k
      BY <1>12, <3>2 DEF Grows
    <3> QED BY <3>1, <3>3
  <2> QED BY <2>1, <2>2
\* The paper itself shows that its title goes with its DOI.
<1>15. m.title = p.title \/ Titled(s, n + 1, p.title, m.doi) \/ p.doi = None
  <2>1. CASE p.doi # None
    <3>1. n + 1 \in 1..n + 1 /\ m.doi = p.doi
      BY <1>13, <2>1
    <3> QED BY <2>1, <3>1 DEF Titled, p
  <2> QED BY <2>1
<1>16. TitlesLead(next, s, n + 1)
  <2> SUFFICES ASSUME NEW k \in DOMAIN next.byTitle
               PROVE  KnownAs(next.papers[next.byTitle[k]], k, s, n + 1)
    BY DEF TitlesLead
  <2>1. CASE k \in DOMAIN acc.byTitle
    <3>1. next.byTitle[k] = acc.byTitle[k]
      BY <1>2, <1>4, <2>1 DEF Put
    <3>2. acc.byTitle[k] \in 1..N /\ KnownAs(acc.papers[acc.byTitle[k]], k, s, n) /\ k # None
      BY <1>1, <1>6, <2>1 DEF Leads, TitlesLead
    <3>3. Grows(acc.papers[acc.byTitle[k]], next.papers[acc.byTitle[k]])
      BY <1>12, <3>2
    <3> QED BY <3>1, <3>2, <3>3, StillKnown
  <2>2. CASE k \notin DOMAIN acc.byTitle
    <3>1. k = p.title /\ p.title # None /\ t = 0 /\ next.byTitle[k] = target
      BY <1>2, <2>2 DEF Put
    <3>2. CASE target > N
      BY <1>8, <3>1, <3>2 DEF KnownAs, m
    <3>3. CASE ~(target > N)
      <4>1. d # 0 /\ p.doi # None
        BY <1>1, <1>3, <1>4, <3>1, <3>3 DEF Leads
      <4> QED BY <1>15, <3>1, <4>1 DEF KnownAs, m
    <3> QED BY <3>2, <3>3
  <2> QED BY <2>1, <2>2
<1>17. FoundByDoi(next)
  <2> SUFFICES ASSUME NEW i \in 1..Len(next.papers), next.papers[i].doi # None
               PROVE  /\ next.papers[i].key = DoiKey(next.papers[i])
                      /\ next.papers[i].doi \in DOMAIN next.byDoi
                      /\ next.byDoi[next.papers[i].doi] = i
    BY DEF FoundByDoi
  <2>1. CASE i = target
    BY <1>2, <1>11, <2>1 DEF Put, m
  <2>2. CASE i # target
    <3>1. i \in 1..N /\ next.papers[i] = acc.papers[i]
      BY <1>1, <1>2, <2>2 DEF N
    <3> DEFINE o == acc.papers[i]
    <3>2. o.key = DoiKey(o) /\ o.doi \in DOMAIN acc.byDoi /\ acc.byDoi[o.doi] = i
      BY <1>6, <3>1 DEF FoundByDoi, N
    <3>3. m.doi # o.doi
      <4> SUFFICES ASSUME m.doi = o.doi PROVE FALSE
        OBVIOUS
      <4>1. CASE target > N
        <5>1. p.doi = o.doi
          BY <1>8, <4>1
        <5>2. d = i
          BY <1>1, <1>4, <3>1, <3>2, <5>1 DEF Leads
        <5> QED BY <1>3, <2>2, <3>1, <5>2
      <4>2. CASE ~(target > N) /\ e.doi # None
        <5>1. target \in 1..N /\ e.doi = o.doi
          BY <1>1, <1>2, <1>7, <4>2
        <5>2. acc.byDoi[e.doi] = target
          BY <1>6, <4>2, <5>1 DEF FoundByDoi, e, N
        <5> QED BY <2>2, <3>2, <5>1, <5>2
      <4>3. CASE ~(target > N) /\ e.doi = None
        <5>1. target \in 1..N /\ p.doi = o.doi
          BY <1>1, <1>2, <1>7, <4>3
        <5>2. d = i
          BY <1>1, <1>4, <3>1, <3>2, <5>1 DEF Leads
        <5> QED BY <1>3, <2>2, <3>1, <5>2
      <4> QED BY <4>1, <4>2, <4>3
    <3> QED BY <1>2, <3>1, <3>2, <3>3 DEF Put
  <2> QED BY <2>1, <2>2
<1>18. FoundByTitle(next)
  <2> SUFFICES ASSUME NEW i \in 1..Len(next.papers), next.papers[i].doi = None
               PROVE  /\ next.papers[i].title \in DOMAIN next.byTitle
                      /\ next.byTitle[next.papers[i].title] = i
    BY DEF FoundByTitle
  <2>1. ASSUME NEW k \in DOMAIN acc.byTitle
        PROVE  k \in DOMAIN next.byTitle /\ next.byTitle[k] = acc.byTitle[k]
    BY <1>2, <1>4 DEF Put
  <2>2. CASE i \in 1..N
    <3>1. acc.papers[i].doi = None
      BY <1>12, <2>2 DEF Grows
    <3>2. acc.papers[i].title \in DOMAIN acc.byTitle /\ acc.byTitle[acc.papers[i].title] = i
      BY <1>6, <2>2, <3>1 DEF FoundByTitle, N
    <3>3. next.papers[i].title = acc.papers[i].title
      BY <1>1, <1>12, <2>2, <3>2 DEF Grows, Leads
    <3> QED BY <2>1, <3>2, <3>3
  <2>3. CASE i \notin 1..N
    <3>1. i = target /\ target > N /\ next.papers[i] = m
      BY <1>1, <1>2, <2>3 DEF m, N
    <3>2. p.doi = None /\ p.title # None /\ t = 0 /\ m.title = p.title
      BY <1>1, <1>3, <1>4, <1>5, <1>8, <3>1 DEF Leads
    <3> QED BY <1>2, <3>1, <3>2 DEF Put
  <2> QED BY <2>2, <2>3
<1>19. Stands(m, p, s, n + 1)
  <2>1. CASE p.doi # None
    BY <1>13, <2>1 DEF Stands
  <2>2. CASE p.doi = None
    <3>1. CASE target > N
      BY <1>8, <2>2, <3>1 DEF Stands, KnownAs
    <3>2. CASE ~(target > N)
      <4>1. t # 0 /\ target = acc.byTitle[p.title] /\ p.title \in DOMAIN acc.byTitle
        BY <1>1, <1>3, <1>4, <2>2, <3>2 DEF Leads
      <4>2. p.title \in DOMAIN next.byTitle /\ next.byTitle[p.title] = target
        BY <1>2, <4>1
      <4> QED BY <1>16, <2>2, <4>2 DEF TitlesLead, Stands, m
    <3> QED BY <3>1, <3>2
  <2> QED BY <2>1, <2>2
<1>20. Covered(next, s, n + 1)
  <2>1. Len(next.papers) \in Nat /\ Len(next.papers) >= N
    BY <1>1, <1>2
  <2>2. \E j \in 1..Len(next.papers) : Stands(next.papers[j], s[n + 1], s, n + 1)
    BY <1>2, <1>19 DEF p, m
  <2> QED BY <1>1, <1>6, <1>12, <2>1, <2>2, StillCovered DEF N
<1> QED BY <1>14, <1>16, <1>17, <1>18, <1>20 DEF Clean, next, p

-----------------------------------------------------------------------------
(* The whole loop.                                                         *)

\* All papers of s are made of these DOIs, titles and dates.
RawPapers(s, D, T, W) == Len(s) \in Nat /\ \A i \in 1..Len(s) : RawPaper(s[i], D, T, W)

\* What holds after n turns.
LoopInv(acc, s, n, E) == Indexed(acc, E) /\ (acc.conflicts = 0 => Clean(acc, s, n))

LEMMA LoopStarts == ASSUME NEW s, NEW E PROVE LoopInv(Start, s, 0, E)
<1>1. /\ Start.papers = <<>> /\ Start.byDoi = <<>> /\ Start.byTitle = <<>>
      /\ Start.conflicts = 0 /\ Len(<<>>) = 0 /\ DOMAIN <<>> = {} /\ 1..0 = {}
  BY DEF Start
<1>2. Indexed(Start, E)
  BY <1>1 DEF Start, Indexed, Leads
<1>3. Clean(Start, s, 0)
  BY <1>1 DEF Clean, DoisLead, TitlesLead, FoundByDoi, FoundByTitle, Covered
<1> QED BY <1>2, <1>3 DEF LoopInv

LEMMA LoopTurns ==
  ASSUME NEW D, NEW T, NEW W, NEW s, NEW n \in Nat, RawPaper(s[n + 1], D, T, W),
         NEW acc, LoopInv(acc, s, n, Entry(D, T, W))
  PROVE  LoopInv(Turn(acc, s[n + 1]), s, n + 1, Entry(D, T, W))
<1>1. Indexed(acc, Entry(D, T, W))
  BY DEF LoopInv
<1>2. CASE ~Accepted(s[n + 1])
  BY <1>1, <1>2, CleanWaits DEF LoopInv, Turn
<1>3. CASE Accepted(s[n + 1])
  <2> DEFINE p == s[n + 1]
             next == NormalizePaper(acc, p)
  <2>1. Indexed(next, Entry(D, T, W)) /\ acc.conflicts \in Nat
        /\ next.conflicts = acc.conflicts + IF Conflicts(acc, p) THEN 1 ELSE 0
    BY <1>1, <1>3, PaperTurn DEF Indexed
  <2>2. ASSUME next.conflicts = 0 PROVE Clean(next, s, n + 1)
    <3>1. acc.conflicts = 0 /\ ~Conflicts(acc, p)
      BY <2>1, <2>2
    <3>2. Clean(acc, s, n)
      BY <3>1 DEF LoopInv
    <3> QED BY <1>1, <1>3, <3>1, <3>2, CleanTurn
  <2> QED BY <1>3, <2>1, <2>2 DEF LoopInv, Turn
<1> QED BY <1>2, <1>3

\* The first turn after which it does not hold would follow one after which it does.
LEMMA LoopKeeps ==
  ASSUME NEW D, NEW T, NEW W, NEW s, RawPapers(s, D, T, W), NEW after, Turns(after, s, Len(s))
  PROVE  \A n \in 0..Len(s) : LoopInv(after[n], s, n, Entry(D, T, W))
<1> DEFINE Bad == {n \in 0..Len(s) : ~LoopInv(after[n], s, n, Entry(D, T, W))}
<1> SUFFICES ASSUME Bad # {} PROVE FALSE
  OBVIOUS
<1>1. PICK n \in Bad : \A m \in Bad : n <= m
  <2>1. Bad \in SUBSET Nat
    BY DEF RawPapers
  <2> HIDE DEF Bad
  <2> QED BY <2>1, LeastNumber
<1>2. Len(s) \in Nat /\ n \in 0..Len(s)
  BY <1>1 DEF RawPapers
<1>3. after[n] = IF n = 0 THEN Start ELSE Turn(after[n - 1], s[n])
  BY <1>2 DEF Turns
<1>4. n # 0
  BY <1>1, <1>3, LoopStarts
<1>5. n - 1 \in Nat /\ n - 1 \in 0..Len(s) /\ n - 1 \notin Bad /\ (n - 1) + 1 = n
  BY <1>1, <1>2, <1>4
<1>6. LoopInv(after[n - 1], s, n - 1, Entry(D, T, W)) /\ RawPaper(s[n], D, T, W)
  BY <1>2, <1>4, <1>5 DEF RawPapers
<1>7. LoopInv(Turn(after[n - 1], s[n]), s, n, Entry(D, T, W))
  <2>1. RawPaper(s[(n - 1) + 1], D, T, W)
    BY <1>5, <1>6
  <2>2. LoopInv(Turn(after[n - 1], s[(n - 1) + 1]), s, (n - 1) + 1, Entry(D, T, W))
    BY <1>5, <1>6, <2>1, LoopTurns
  <2> QED BY <1>5, <2>2
<1> QED BY <1>1, <1>3, <1>4, <1>7

(* Of any raw papers the filter makes a sequence of entries that go by      *)
(* their DOI or their title; unless a DOI was contradicted, no two of them  *)
(* go by the same, and every accepted paper has its entry.                  *)
THEOREM FilterIsSound ==
  ASSUME NEW D, NEW T, NEW W, NEW s, RawPapers(s, D, T, W)
  PROVE  LET normal == NormalizePayloads(s) IN
         /\ normal.papers \in Seq(Entry(D, T, W)) /\ normal.conflicts \in Nat
         /\ \A i \in 1..Len(normal.papers) : Keyed(normal.papers[i])
         /\ normal.conflicts = 0 =>
              /\ \A i, j \in 1..Len(normal.papers) :
                   normal.papers[i].key = normal.papers[j].key => i = j
              /\ Covered(normal, s, Len(s))
<1>1. Len(s) \in Nat
  BY DEF RawPapers
<1>2. PICK after : Turns(after, s, Len(s)) /\ NormalizePayloads(s) = after[Len(s)]
  BY <1>1, NormalizedByTurns
<1> DEFINE normal == NormalizePayloads(s)
<1>3. LoopInv(normal, s, Len(s), Entry(D, T, W))
  BY <1>1, <1>2, LoopKeeps
<1> HIDE DEF normal
<1>4. /\ normal.papers \in Seq(Entry(D, T, W)) /\ normal.conflicts \in Nat
      /\ \A i \in 1..Len(normal.papers) : Keyed(normal.papers[i])
  BY <1>3 DEF LoopInv, Indexed
<1>5. ASSUME normal.conflicts = 0, NEW i \in 1..Len(normal.papers),
             NEW j \in 1..Len(normal.papers), normal.papers[i].key = normal.papers[j].key
      PROVE  i = j
  <2>1. Clean(normal, s, Len(s))
    BY <1>3, <1>5 DEF LoopInv
  <2>2. Keyed(normal.papers[i]) /\ Keyed(normal.papers[j])
    BY <1>4
  <2>3. CASE normal.papers[i].doi # None
    <3>1. /\ normal.papers[i].key[2] = normal.papers[i].doi /\ normal.papers[i].key[1] = "doi"
          /\ normal.byDoi[normal.papers[i].doi] = i
      BY <2>1, <2>3 DEF Clean, FoundByDoi, DoiKey
    <3>2. normal.papers[j].doi # None
      <4>1. normal.papers[j].key[1] = "doi"
        BY <1>5, <3>1
      <4> QED BY <2>2, <4>1 DEF Keyed, TitleKey
    <3>3. /\ normal.papers[j].key[2] = normal.papers[j].doi
          /\ normal.byDoi[normal.papers[j].doi] = j
      BY <2>1, <3>2 DEF Clean, FoundByDoi, DoiKey
    <3> QED BY <1>5, <3>1, <3>3
  <2>4. CASE normal.papers[i].doi = None
    <3>1. /\ normal.papers[i].key[2] = normal.papers[i].title /\ normal.papers[i].key[1] = "title"
          /\ normal.byTitle[normal.papers[i].title] = i
      BY <2>1, <2>2, <2>4 DEF Clean, FoundByTitle, TitleKey, Keyed
    <3>2. normal.papers[j].doi = None
      <4>1. normal.papers[j].key[1] = "title"
        BY <1>5, <3>1
      <4> QED BY <2>2, <4>1 DEF Keyed
    <3>3. /\ normal.papers[j].key[2] = normal.papers[j].title
          /\ normal.byTitle[normal.papers[j].title] = j
      BY <2>1, <2>2, <3>2 DEF Clean, FoundByTitle, TitleKey, Keyed
    <3> QED BY <1>5, <3>1, <3>3
  <2> QED BY <2>3, <2>4
<1>6. normal.conflicts = 0 => Covered(normal, s, Len(s))
  BY <1>3 DEF LoopInv, Clean
<1> QED BY <1>4, <1>5, <1>6 DEF normal

-----------------------------------------------------------------------------
(* The candidates.                                                         *)

\* An entry of the filter's.
IsEntry(e) ==
  e = [key |-> e.key, doi |-> e.doi, title |-> e.title, pdf |-> e.pdf, date |-> e.date]

\* Crossref has not touched the candidates yet.
Gathering == NotSearched \/ node \in {"search", "filter", "review", "enrich", "crossref_enrich"}

KeysDiffer(papers) == \A i, j \in DOMAIN papers : papers[i].key = papers[j].key => i = j
AllRepresented ==
  \A i \in DOMAIN raw : Accepted(source[raw[i]]) =>
    \E j \in DOMAIN found.papers : Represents(found.papers[j], source[raw[i]])

(* A candidate that is known goes by its DOI or its title, and so does a    *)
(* fresh one until Crossref is asked: an entry it adds a DOI to still goes  *)
(* by its title, and no known one with a DOI does.                          *)
CandidatesInv ==
  /\ source \in Sources \cup {<<>>}
  /\ fresh \cap known = {}
  /\ \A e \in known : Keyed(e)
  /\ Gathering => \A e \in fresh : Keyed(e) /\ IsEntry(e)
  /\ found.conflicts = 0 =>
       KeysDiffer(found.papers) /\ (node = "review" => AllRepresented)

LEMMA CandidatesStart == Init => CandidatesInv
BY DEF Init, Nothing, CandidatesInv, KeysDiffer

\* Candidates are dropped, no more.
LEMMA CandidatesWait ==
  ASSUME CandidatesInv, source' \in {source, <<>>}, fresh' \subseteq fresh, known' \subseteq known,
         found' \in {found, Nothing}, node' # "review", Gathering' => Gathering
  PROVE  CandidatesInv'
<1>1. /\ source' \in Sources \cup {<<>>} /\ fresh' \cap known' = {}
      /\ \A e \in known' : Keyed(e)
      /\ Gathering' => \A e \in fresh' : Keyed(e) /\ IsEntry(e)
  BY DEF CandidatesInv
<1>2. found'.conflicts = 0 => KeysDiffer(found'.papers)
  BY DEF CandidatesInv, Nothing, KeysDiffer
<1> QED BY <1>1, <1>2 DEF CandidatesInv

\* What the filter is given is what the search has read of the source.
LEMMA RawPapersRead ==
  ASSUME RoundsInv, CandidatesInv
  PROVE  LET s == [i \in DOMAIN raw |-> source[raw[i]]] IN
         /\ Len(s) = Len(raw) /\ \A i \in DOMAIN raw : s[i] = source[raw[i]]
         /\ \E D, T, W : RawPapers(s, D, T, W)
<1> DEFINE s == [i \in DOMAIN raw |-> source[raw[i]]]
           X == {source[i] : i \in 1..Len(source)}
<1>1. /\ Len(raw) \in Nat /\ DOMAIN raw = 1..Len(raw)
      /\ Len(source) \in Nat /\ Len(raw) <= Len(source)
      /\ \A i \in DOMAIN raw : raw[i] = i
  BY DEF RoundsInv
<1>2. s \in [1..Len(raw) -> X]
  BY <1>1
<1>3. Len(s) = Len(raw) /\ \A i \in DOMAIN raw : s[i] = source[raw[i]]
  BY <1>1, <1>2
<1>4. \A i \in 1..Len(source) : source[i].pdf \in BOOLEAN
  <2>1. CASE source \in Sources
    BY <2>1, SearchAssumption
  <2>2. CASE source = <<>>
    <3>1. Len(source) = 0
      BY <2>2
    <3> QED BY <3>1
  <2> QED BY <2>1, <2>2 DEF CandidatesInv
<1>5. \A i \in 1..Len(raw) : s[i].pdf \in BOOLEAN
  BY <1>1, <1>3, <1>4
<1> HIDE DEF s
<1>6. RawPapers(s, {s[i].doi : i \in 1..Len(raw)}, {s[i].title : i \in 1..Len(raw)},
                {s[i].date : i \in 1..Len(raw)})
  BY <1>1, <1>3, <1>5 DEF RawPapers, RawPaper
<1> QED BY <1>3, <1>6 DEF s

LEMMA CandidatesFiltered ==
  ASSUME RoundsInv, CandidatesInv, FilterPapers, node' = "review"
  PROVE  CandidatesInv'
<1> DEFINE s == [i \in DOMAIN raw |-> source[raw[i]]]
           normal == NormalizePayloads(s)
           entries == {normal.papers[i] : i \in DOMAIN normal.papers}
<1>1. /\ found' = [papers |-> normal.papers, conflicts |-> normal.conflicts]
      /\ known' = ResolveCachedPapers(entries) /\ fresh' = entries \ known'
      /\ UNCHANGED <<source, raw>>
  BY DEF FilterPapers, NodeFails, Fails, FailsWith, TerminalTarget
<1>2. /\ Len(s) = Len(raw) /\ \A i \in DOMAIN raw : s[i] = source[raw[i]]
      /\ \E D, T, W : RawPapers(s, D, T, W)
  BY RawPapersRead
<1> HIDE DEF s
<1>3. PICK D, T, W : RawPapers(s, D, T, W)
  BY <1>2
<1>4. /\ normal.papers \in Seq(Entry(D, T, W)) /\ normal.conflicts \in Nat
      /\ \A i \in 1..Len(normal.papers) : Keyed(normal.papers[i])
      /\ normal.conflicts = 0 =>
           /\ \A i, j \in 1..Len(normal.papers) :
                normal.papers[i].key = normal.papers[j].key => i = j
           /\ Covered(normal, s, Len(s))
  BY <1>3, FilterIsSound
<1> HIDE DEF normal
<1>5. DOMAIN normal.papers = 1..Len(normal.papers) /\ DOMAIN raw = 1..Len(raw)
  BY <1>4 DEF RoundsInv
<1>6. \A e \in entries : Keyed(e) /\ IsEntry(e)
  <2>1. \A i \in 1..Len(normal.papers) : normal.papers[i] \in Entry(D, T, W)
    BY <1>4
  <2>2. \A e \in Entry(D, T, W) : IsEntry(e)
    BY DEF Entry, IsEntry
  <2> QED BY <1>4, <1>5, <2>1, <2>2
<1>7. known' \subseteq entries /\ fresh' \subseteq entries /\ fresh' \cap known' = {}
  BY <1>1 DEF ResolveCachedPapers
<1>8. ASSUME normal.conflicts = 0, NEW i \in DOMAIN raw, Accepted(source[raw[i]])
      PROVE  \E j \in DOMAIN normal.papers :
               LET e == normal.papers[j]
                   p == source[raw[i]]
               IN IF p.doi # None THEN e.doi = p.doi
                  ELSE \/ e.title = p.title
                       \/ \E k \in DOMAIN raw : LET q == source[raw[k]] IN
                            Accepted(q) /\ q.title = p.title /\ q.doi # None /\ q.doi = e.doi
  <2>1. s[i] = source[raw[i]] /\ i \in 1..Len(s)
    BY <1>2, <1>5
  <2>2. PICK j \in 1..Len(normal.papers) : Stands(normal.papers[j], s[i], s, Len(s))
    BY <1>4, <1>8, <2>1 DEF Covered
  <2>3. CASE source[raw[i]].doi # None
    BY <1>5, <2>1, <2>2, <2>3 DEF Stands
  <2>4. CASE source[raw[i]].doi = None /\ normal.papers[j].title = source[raw[i]].title
    BY <1>5, <2>4
  <2>5. CASE source[raw[i]].doi = None /\ Titled(s, Len(s), source[raw[i]].title, normal.papers[j].doi)
    <3>1. PICK k \in 1..Len(s) :
            Accepted(s[k]) /\ s[k].title = source[raw[i]].title /\ s[k].doi # None
            /\ s[k].doi = normal.papers[j].doi
      BY <2>5 DEF Titled
    <3>2. k \in DOMAIN raw /\ s[k] = source[raw[k]]
      BY <1>2, <1>5
    <3> QED BY <1>5, <2>5, <3>1, <3>2
  <2> QED BY <2>1, <2>2, <2>3, <2>4, <2>5 DEF Stands, KnownAs
<1>9. found'.conflicts = 0 => KeysDiffer(found'.papers) /\ AllRepresented'
  <2> SUFFICES ASSUME normal.conflicts = 0 PROVE KeysDiffer(found'.papers) /\ AllRepresented'
    BY <1>1
  <2>1. KeysDiffer(found'.papers)
    BY <1>1, <1>4, <1>5 DEF KeysDiffer
  <2>2. AllRepresented'
    BY <1>1, <1>8 DEF AllRepresented, Represents
  <2> QED BY <2>1, <2>2
<1>10. source' \in Sources \cup {<<>>}
  BY <1>1 DEF CandidatesInv
<1> QED BY <1>6, <1>7, <1>9, <1>10 DEF CandidatesInv

\* An entry that is given a DOI goes by its title: it is none of the known.
LEMMA CrossrefAddsNoKnown ==
  ASSUME NEW e, Keyed(e), IsEntry(e), NEW doi, NEW S, \A k \in S : Keyed(k), e \notin S
  PROVE  CrossrefMerge(e, doi) \notin S
<1> DEFINE x == CrossrefMerge(e, doi)
<1>1. CASE e.doi # None
  BY <1>1 DEF CrossrefMerge
<1>2. CASE e.doi = None
  <2>1. x = [key |-> e.key, doi |-> doi, title |-> e.title, pdf |-> e.pdf, date |-> e.date]
    BY <1>2 DEF CrossrefMerge, IsEntry
  <2>2. x.key = e.key /\ x.doi = doi
    BY <2>1
  <2>3. e.key[1] = "title"
    BY <1>2 DEF Keyed, TitleKey
  <2>4. CASE doi = None
    BY <1>2, <2>1, <2>4 DEF IsEntry
  <2>5. CASE doi # None
    BY <2>2, <2>3, <2>5 DEF Keyed
  <2> QED BY <2>4, <2>5
<1> QED BY <1>1, <1>2

LEMMA CandidatesAreKept ==
  CandidatesInv /\ RoundsInv /\ ReportInv /\ [Next]_vars => CandidatesInv'
<1> SUFFICES ASSUME CandidatesInv, RoundsInv, ReportInv, [Next]_vars PROVE CandidatesInv'
  OBVIOUS
<1>0. \A downloaded, hasTask :
        TerminalTarget(downloaded, hasTask) \in {"finalize_pdfs", "finalize_result"}
  BY DEF TerminalTarget
<1>1. CASE InitializeSearch \/ PlanSearch
  <2>1. /\ node \in {"initialize", "plan_search"} /\ UNCHANGED <<source, fresh, known, found>>
        /\ node' # "review"
    BY <1>0, <1>1 DEF InitializeSearch, PlanSearch, NodeFails, Proceeds, Fails, FailsWith,
       searchVars, paperVars
  <2> QED BY <2>1, CandidatesWait DEF Gathering, NotSearched
<1>2. CASE SearchSources \/ ReviewSearch
  <2>1. /\ node \in {"search", "review"} /\ UNCHANGED <<source, fresh, known, found>>
        /\ node' # "review"
    BY <1>0, <1>2 DEF SearchSources, SearchFailed, ReviewSearch, PlanSupplement, NodeFails,
       Proceeds, Fails, FailsWith, paperVars
  <2> QED BY <2>1, CandidatesWait DEF Gathering
<1>3. CASE FilterPapers
  <2>1. CASE node' = "review"
    BY <1>3, <2>1, CandidatesFiltered
  <2>2. CASE node' # "review"
    <3>1. node = "filter" /\ UNCHANGED <<source, fresh, known, found>>
      BY <1>3, <2>2 DEF FilterPapers, Proceeds
    <3> QED BY <2>2, <3>1, CandidatesWait DEF Gathering
  <2> QED BY <2>1, <2>2
<1>4. CASE EnrichPapers
  <2>1. /\ node = "enrich" /\ node' # "review" /\ source' = <<>> /\ found' = Nothing
        /\ fresh' \subseteq fresh /\ UNCHANGED known
    BY <1>0, <1>4 DEF EnrichPapers, ForgetsSearch, NodeFails, Proceeds, Fails, FailsWith
  <2> QED BY <2>1, CandidatesWait DEF Gathering
<1>5. CASE CrossrefEnrich
  <2>1. node = "crossref_enrich" /\ UNCHANGED <<source, raw, found, known>> /\ node' # "review"
    BY <1>0, <1>5 DEF CrossrefEnrich, NodeFails, Proceeds, Fails, FailsWith, searchVars
  <2>2. CASE UNCHANGED fresh
    BY <2>1, <2>2, CandidatesWait DEF Gathering
  <2>3. CASE ~UNCHANGED fresh
    <3>1. PICK doi \in [fresh -> Dois \cup {None}] :
            fresh' = {CrossrefMerge(e, doi[e]) : e \in fresh} /\ node' = "venue"
      BY <1>5, <2>3 DEF CrossrefEnrich, Proceeds
    <3>2. ASSUME NEW e \in fresh PROVE CrossrefMerge(e, doi[e]) \notin known
      <4>1. Keyed(e) /\ IsEntry(e) /\ e \notin known /\ \A k \in known : Keyed(k)
        BY <2>1 DEF CandidatesInv, Gathering
      <4> QED BY <4>1, CrossrefAddsNoKnown
    <3>3. fresh' \cap known' = {}
      BY <2>1, <3>1, <3>2
    <3>4. ~Gathering'
      BY <3>1 DEF Gathering, NotSearched
    <3> QED BY <2>1, <3>3, <3>4 DEF CandidatesInv
  <2> QED BY <2>2, <2>3
<1>6. CASE ResolveVenues \/ DownloadPdfs \/ AbstractEnrich
  <2>1. /\ node' \notin {"review", "initialize", "plan_search", "update_task_status", "search",
                        "filter", "enrich", "crossref_enrich"}
        /\ UNCHANGED <<source, found, known>> /\ fresh' \subseteq fresh
    BY <1>0, <1>6 DEF ResolveVenues, DownloadPdfs, Downloads, AbstractEnrich, NodeFails, Proceeds,
       Fails, FailsWith, searchVars, paperVars
  <2> QED BY <2>1, CandidatesWait DEF Gathering, NotSearched
<1>7. CASE RecommendPapers \/ CreateTask \/ PersistPapers
  <2>1. /\ node' \in {"create_task", "persist", "finalize_pdfs", "finalize_result"}
        /\ UNCHANGED <<source, found, known, fresh>>
    BY <1>0, <1>7 DEF RecommendPapers, CreateTask, CreateRemoteTask, BindFails, PersistPapers,
       NodeFails, Fails, FailsWith, Proceeds, searchVars, paperVars
  <2> QED BY <2>1, CandidatesWait DEF Gathering, NotSearched
<1>8. CASE FinalizePdfs
  <2>1. /\ node' = "update_task_status" /\ stage' # "running"
        /\ UNCHANGED <<source, found, known, fresh>>
    BY <1>8 DEF FinalizePdfs, Proceeds, searchVars, paperVars, ReportInv
  <2> QED BY <2>1, CandidatesWait DEF Gathering, NotSearched
<1>9. CASE UpdateTaskStatus
  <2>1. /\ UNCHANGED <<source, found, known, fresh>>
        /\ \/ node' = "finalize_result"
           \/ node' = "plan_search" /\ node = "update_task_status" /\ stage = "running"
    BY <1>9 DEF UpdateTaskStatus, searchVars, paperVars
  <2> QED BY <2>1, CandidatesWait DEF Gathering, NotSearched
<1>10. CASE FinalizeResult \/ Cancelled
  <2>1. /\ node' = "done" /\ source' = <<>> /\ found' = Nothing /\ fresh' = {} /\ known' = {}
    BY <1>10 DEF FinalizeResult, Cancelled, Ends, ForgetsSearch
  <2> QED BY <2>1, CandidatesWait DEF Gathering, NotSearched
<1>11. CASE UNCHANGED vars
  <2>1. UNCHANGED <<node, stage, source, raw, found, known, fresh>>
    BY <1>11 DEF vars, searchVars, paperVars
  <2> QED BY <2>1 DEF CandidatesInv, Gathering, NotSearched, AllRepresented, Represents
<1> QED BY <1>1, <1>2, <1>3, <1>4, <1>5, <1>6, <1>7, <1>8, <1>9, <1>10, <1>11 DEF Next

(* The filter makes one candidate of a paper, in whatever order and however *)
(* often any source lists it, and no candidate is both fresh and known,     *)
(* whatever DOIs Crossref adds.                                             *)
THEOREM CandidatesDistinct == Spec => []CandidatesAreDistinct
<1>1. Init => ReportInv /\ RoundsInv /\ CandidatesInv
  BY ReportStarts, RoundsStart, CandidatesStart
<1>2. ReportInv /\ RoundsInv /\ CandidatesInv /\ [Next]_vars =>
        (ReportInv /\ RoundsInv /\ CandidatesInv)'
  BY ReportIsKept, RoundsAreKept, CandidatesAreKept
<1>3. CandidatesInv => CandidatesAreDistinct
  BY DEF CandidatesInv, CandidatesAreDistinct, KeysDiffer, AllRepresented
<1> QED BY <1>1, <1>2, <1>3, PTL DEF Spec
=============================================================================
