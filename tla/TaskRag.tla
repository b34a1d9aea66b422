------------------------------- MODULE TaskRag -------------------------------
(***************************************************************************)
(* Indexing the papers of one search task: the task_indexing workflow that *)
(* serves a request, the background worker that the batch runner keeps per *)
(* task, the processor that parses and indexes a batch, and, external, the *)
(* paper service that hands out papers under a lease and takes results.    *)
(*                                                                         *)
(* A run of the worker is named by the request that started it.  Paper ids *)
(* are numbers, because a parse operation cuts its files into batches in   *)
(* order.  One indexed paper counts as one chunk.  Time is abstract: a     *)
(* wait may time out, and a lease may end, at any moment.                  *)
(***************************************************************************)
EXTENDS Integers, FiniteSets

CONSTANTS Papers,      \* the papers of the task
          Requests,    \* calls of the task_indexing subagent
          NoRequest,
          ClaimLimit,  \* papers per claim
          ParseLimit,  \* files per batch handed to the parser
          Adversity    \* the faults this instance may meet

ASSUME RagAssumption ==
  /\ Papers \subseteq Nat /\ IsFiniteSet(Papers)
  /\ NoRequest \notin Requests
  /\ ClaimLimit \in Nat \ {0} /\ ParseLimit \in Nat \ {0}
  /\ Adversity \subseteq {"serviceFault", "parseFault", "indexFault", "lease",
                          "cancel", "publication", "shutdown", "crash"}

VARIABLES
  task, paper, holder,          \* the paper service
  content,                      \* what the content index holds of a paper
  registry,                     \* runner._runs
  worker, batch, results,       \* a run: where it is, its claim, its results
  summary, committed,           \* run.summary, run.committed_summary
  verdict, listeners,           \* its result, run.listeners
  request, seen, base, joined,  \* a request: node, status read, run it waits for
  answer

serviceVars == <<task, paper, holder>>
runVars     == <<worker, batch, results, summary, committed, verdict>>
requestVars == <<request, seen, base, joined, answer>>
vars == <<serviceVars, content, registry, runVars, listeners, requestVars>>

TaskStates  == {"SEARCHING", "SEARCH_FAILED", "SEARCH_COMPLETED", "RAG_RUNNING",
                "RAG_COMPLETED", "RAG_FAILED"}
Outcomes    == {"ready", "skipped", "failed"}
PaperStates == {"pending", "indexing"} \cup Outcomes
Keys        == {"total", "chunks"} \cup PaperStates
\* "unnamed" is a failure whose exception has no text: its error is empty.
Results     == {"none", "unnamed"} \cup Outcomes
RunErrors   == {"RAG_CLAIM_FAILED", "RAG_PROCESSING_FAILED", "RAG_BATCH_COMPLETE_FAILED",
                "RAG_PAPER_FAILED", "RAG_NO_CLAIMED_PAPERS", "RAG_UNEXPECTED_TASK_STATE",
                "RAG_WORKER_CANCELLED"}
Live        == {"claiming", "preparing", "parsing", "indexing", "completing",
                "completingFailure", "finishing"}
Waiting     == {"waiting", "remote"}

None(S)   == [k \in S |-> "none"]
Zero      == [k \in Keys |-> 0]
Held(w)   == {p \in Papers : holder[p] = w}
At(s)     == {p \in Papers : paper[p] = s}

(* The counts get_task_rag_status reads from the service. *)
StatusOf(state) ==
  [k \in Keys |-> CASE k = "total"  -> Cardinality(Papers)
                    [] k = "chunks" -> Cardinality({p \in Papers : state[p] = "ready"})
                    [] OTHER        -> Cardinality({p \in Papers : state[p] = k})]
Settled(s)   == s["ready"] + s["skipped"] + s["failed"]
Unsettled(s) == s["pending"] + s["indexing"]
LeftOver(n)  == IF n > 0 THEN n ELSE 0

IsRagComplete ==
  task = "RAG_COMPLETED" /\ \A p \in Papers : paper[p] \in {"ready", "skipped"}
CanGenerateReview == IsRagComplete /\ At("ready") # {}
IsIndexable == task \in {"SEARCH_COMPLETED", "RAG_RUNNING"}
IsRagFailed == task \in {"SEARCH_FAILED", "RAG_FAILED"} \/ At("failed") # {}

-----------------------------------------------------------------------------
(* The paper service. *)

AfterComplete(state) ==
  IF \E p \in Papers : state[p] = "failed"
    THEN {"RAG_FAILED"} \cup
         (IF \E p \in Papers : state[p] \notin Outcomes THEN {"RAG_RUNNING"} ELSE {})
  ELSE IF \A p \in Papers : state[p] \in Outcomes THEN {"RAG_COMPLETED"}
  ELSE {"RAG_RUNNING"}

ServiceClaims(w, S) ==
  /\ IsIndexable
  /\ S \subseteq At("pending") /\ S # {}
  /\ Cardinality(S) <= ClaimLimit
  /\ Cardinality(S) < ClaimLimit => S = At("pending")
  /\ task' = "RAG_RUNNING"
  /\ paper' = [p \in Papers |-> IF p \in S THEN "indexing" ELSE paper[p]]
  /\ holder' = [p \in Papers |-> IF p \in S THEN w ELSE holder[p]]

ServiceHasNothing ==
  /\ IsIndexable => At("pending") = {}
  /\ task' = IF IsIndexable /\ At("indexing") = {}
               THEN CHOOSE s \in AfterComplete(paper) : TRUE ELSE task
  /\ UNCHANGED <<paper, holder>>

ServiceCompletes(w, outcome) ==
  /\ batch[w] = Held(w)
  /\ paper' = [p \in Papers |-> IF p \in batch[w] THEN outcome[p] ELSE paper[p]]
  /\ holder' = [p \in Papers |-> IF p \in batch[w] THEN NoRequest ELSE holder[p]]
  /\ task' \in AfterComplete(paper')

SearchEnds ==
  /\ task = "SEARCHING"
  /\ task' \in {"SEARCH_COMPLETED", "SEARCH_FAILED"}
  /\ UNCHANGED <<paper, holder, content, registry, runVars, listeners, requestVars>>

LeaseEnds(p) ==
  /\ "lease" \in Adversity
  /\ paper[p] = "indexing"
  /\ paper' = [paper EXCEPT ![p] = "pending"]
  /\ holder' = [holder EXCEPT ![p] = NoRequest]
  /\ UNCHANGED <<task, content, registry, runVars, listeners, requestVars>>

-----------------------------------------------------------------------------
(* The nodes of the task_indexing workflow. *)

\* finalize_result: the stage decides between success, error and retryable
Ends(q, stage) ==
  /\ request' = [request EXCEPT ![q] = "done"]
  /\ answer' = [answer EXCEPT ![q] = stage]

InitializeRequest(q) ==
  /\ request[q] = "new"
  /\ \/ /\ request' = [request EXCEPT ![q] = "checking"] /\ UNCHANGED answer
     \/ Ends(q, "failed")
  /\ UNCHANGED <<serviceVars, content, registry, runVars, listeners, seen, base, joined>>

StatusUnreadable(q) ==
  /\ "serviceFault" \in Adversity
  /\ Ends(q, "failed")

\* The status a request goes on with: run_or_wait uses what was read here.
ReadsStatus(q) ==
  /\ seen' = [seen EXCEPT ![q] = task]
  /\ base' = [base EXCEPT ![q] = StatusOf(paper)]

ForgetsStatus(q) ==
  /\ seen' = [seen EXCEPT ![q] = "none"]
  /\ base' = [base EXCEPT ![q] = Zero]

CheckRagStatus(q) ==
  /\ request[q] = "checking"
  /\ \/ /\ \/ StatusUnreadable(q)
           \/ CanGenerateReview /\ Ends(q, "completed")
           \/ IsRagComplete /\ ~CanGenerateReview /\ Ends(q, "failed")
           \/ ~IsRagComplete /\ (IsRagFailed \/ ~IsIndexable) /\ Ends(q, "failed")
        /\ UNCHANGED <<seen, base>>
     \/ /\ ~IsRagComplete /\ ~IsRagFailed /\ IsIndexable
        /\ ReadsStatus(q)
        /\ request' = [request EXCEPT ![q] = "indexing"]
        /\ UNCHANGED answer
  /\ UNCHANGED <<serviceVars, content, registry, runVars, listeners, joined>>

Joins(q, w) ==
  /\ joined' = [joined EXCEPT ![q] = w]
  /\ request' = [request EXCEPT ![q] = "waiting"]
  /\ listeners' = [listeners EXCEPT ![w] = @ \cup {q}]

\* Mutant of StartRun: the registry is not asked.
StartRun_Again(q) ==
  /\ request[q] = "indexing" /\ seen[q] = "SEARCH_COMPLETED"
  /\ registry' = q
  /\ worker' = [worker EXCEPT ![q] = "claiming"]
  /\ summary' = [summary EXCEPT ![q] = base[q]]
  /\ committed' = [committed EXCEPT ![q] = base[q]]
  /\ Joins(q, q) /\ ForgetsStatus(q)
  /\ UNCHANGED <<serviceVars, content, batch, results, verdict, answer>>

StartRun(q) ==
  /\ request[q] = "indexing" /\ seen[q] = "SEARCH_COMPLETED" /\ registry = NoRequest
  /\ registry' = q
  /\ worker' = [worker EXCEPT ![q] = "claiming"]
  /\ summary' = [summary EXCEPT ![q] = base[q]]
  /\ committed' = [committed EXCEPT ![q] = base[q]]
  /\ Joins(q, q) /\ ForgetsStatus(q)
  /\ UNCHANGED <<serviceVars, content, batch, results, verdict, answer>>

JoinRun(q) ==
  /\ request[q] = "indexing" /\ registry # NoRequest
  /\ Joins(q, registry) /\ ForgetsStatus(q)
  /\ UNCHANGED <<serviceVars, content, registry, runVars, answer>>

WaitForRemoteTask(q) ==
  /\ request[q] = "indexing" /\ seen[q] # "SEARCH_COMPLETED" /\ registry = NoRequest
  /\ request' = [request EXCEPT ![q] = "remote"]
  /\ ForgetsStatus(q)
  /\ UNCHANGED <<serviceVars, content, registry, runVars, listeners, joined, answer>>

\* _remove_listener: the listener goes only while its run is registered
Unsubscribes(q) ==
  /\ listeners' = IF registry = joined[q]
                    THEN [listeners EXCEPT ![joined[q]] = @ \ {q}] ELSE listeners
  /\ joined' = [joined EXCEPT ![q] = NoRequest]

\* Mutant of WorkerAnswers: the worker's word is enough.
WorkerAnswers_Trusting(q) ==
  /\ request[q] = "waiting" /\ worker[joined[q]] = "ended"
  /\ Ends(q, IF verdict[joined[q]] = "ok" THEN "completed" ELSE "failed")
  /\ Unsubscribes(q)
  /\ UNCHANGED <<serviceVars, content, registry, runVars, seen, base>>

WorkerAnswers(q) ==
  /\ request[q] = "waiting" /\ worker[joined[q]] = "ended"
  /\ IF verdict[joined[q]] = "ok"
       THEN request' = [request EXCEPT ![q] = "verifying"] /\ UNCHANGED answer
       ELSE Ends(q, "failed")
  /\ Unsubscribes(q)
  /\ UNCHANGED <<serviceVars, content, registry, runVars, seen, base>>

WaitTimesOut(q) ==
  /\ request[q] = "waiting" /\ worker[joined[q]] # "ended"
  /\ \/ /\ ~IsRagFailed /\ IsRagComplete
        /\ request' = [request EXCEPT ![q] = "verifying"] /\ UNCHANGED answer
     \/ IsRagFailed /\ Ends(q, "failed")
     \/ /\ "serviceFault" \in Adversity \/ (~IsRagFailed /\ ~IsRagComplete)
        /\ Ends(q, "timed_out")
  /\ Unsubscribes(q)
  /\ UNCHANGED <<serviceVars, content, registry, runVars, seen, base>>

PollRemote(q) ==
  /\ request[q] = "remote"
  /\ \/ IsRagFailed /\ Ends(q, "failed")
     \/ /\ ~IsRagFailed /\ IsRagComplete
        /\ request' = [request EXCEPT ![q] = "verifying"] /\ UNCHANGED answer
  /\ UNCHANGED <<serviceVars, content, registry, runVars, listeners, seen, base, joined>>

PollFails(q) ==
  /\ request[q] = "remote" /\ StatusUnreadable(q)
  /\ UNCHANGED <<serviceVars, content, registry, runVars, listeners, seen, base, joined>>

\* Mutant of RemoteTimesOut: the wait for another process has no limit.
RemoteTimesOut_Never(q) ==
  /\ request[q] = "remote" /\ FALSE
  /\ UNCHANGED vars

RemoteTimesOut(q) ==
  /\ request[q] = "remote" /\ ~IsRagFailed /\ ~IsRagComplete
  /\ Ends(q, "timed_out")
  /\ UNCHANGED <<serviceVars, content, registry, runVars, listeners, seen, base, joined>>

VerifyCompletion(q) ==
  /\ request[q] = "verifying"
  /\ \/ StatusUnreadable(q)
     \/ CanGenerateReview /\ Ends(q, "completed")
     \/ ~CanGenerateReview /\ Ends(q, "failed")
  /\ UNCHANGED <<serviceVars, content, registry, runVars, listeners, seen, base, joined>>

\* _publish_progress: the worker queues its events for the listeners of its run.
Notified(q) == request[q] = "waiting" /\ q \in listeners[joined[q]]

\* A progress event the bus cannot store ends its request, never the worker.
PublicationFails(q) ==
  /\ "publication" \in Adversity
  /\ \/ Notified(q) /\ Unsubscribes(q)
     \/ request[q] = "remote" /\ UNCHANGED <<listeners, joined>>
  /\ Ends(q, "raised")
  /\ UNCHANGED <<serviceVars, content, registry, runVars, seen, base>>

CancelRequest(q) ==
  /\ "cancel" \in Adversity
  /\ request[q] \in Waiting
  /\ IF request[q] = "waiting" THEN Unsubscribes(q) ELSE UNCHANGED <<listeners, joined>>
  /\ Ends(q, "raised")
  /\ UNCHANGED <<serviceVars, content, registry, runVars, seen, base>>

-----------------------------------------------------------------------------
(* The worker of a run: one batch after another. *)

Finishes(w, code) ==
  /\ worker' = [worker EXCEPT ![w] = "finishing"]
  /\ verdict' = [verdict EXCEPT ![w] = code]

\* A claim of n papers in the counts of the run.
CountsClaim(w, n) ==
  [summary[w] EXCEPT !["total"]    = IF @ = 0 THEN n ELSE @,
                     !["pending"]  = LeftOver(@ - n),
                     !["indexing"] = @ + n]

ClaimPapers(w) ==
  /\ worker[w] = "claiming"
  /\ \E S \in SUBSET Papers :
       /\ ServiceClaims(w, S)
       /\ batch' = [batch EXCEPT ![w] = S]
       /\ results' = [results EXCEPT ![w] = None(Papers)]
       /\ summary' = [summary EXCEPT ![w] = CountsClaim(w, Cardinality(S))]
       /\ worker' = [worker EXCEPT ![w] = "preparing"]
  /\ UNCHANGED <<content, registry, committed, verdict, listeners, requestVars>>

ClaimNothing(w) ==
  /\ worker[w] = "claiming"
  /\ ServiceHasNothing
  /\ Finishes(w, CASE task' = "RAG_COMPLETED" -> "ok"
                   [] task' = "RAG_RUNNING" -> "RAG_NO_CLAIMED_PAPERS"
                   [] OTHER -> "RAG_UNEXPECTED_TASK_STATE")
  /\ UNCHANGED <<content, registry, batch, results, summary, committed, listeners, requestVars>>

\* The call fails before the service acts, or its reply is lost.
ClaimFails(w) ==
  /\ "serviceFault" \in Adversity
  /\ worker[w] = "claiming"
  /\ UNCHANGED serviceVars \/ \E S \in SUBSET Papers : ServiceClaims(w, S)
  /\ Finishes(w, "RAG_CLAIM_FAILED")
  /\ UNCHANGED <<content, registry, batch, results, summary, committed, listeners, requestVars>>

(* on_paper_result for every paper of "outcome", in whatever order. *)
Counts(w, outcome) ==
  [k \in Keys |->
     LET n == Cardinality({p \in DOMAIN outcome : outcome[p] = k})
         m == Cardinality({p \in DOMAIN outcome : outcome[p] = "unnamed"})
     IN CASE k = "indexing" -> LeftOver(summary[w][k] - Cardinality(DOMAIN outcome))
          [] k = "failed"   -> summary[w][k] + n + m
          [] k = "chunks"   -> summary[w][k]
                               + Cardinality({p \in DOMAIN outcome : outcome[p] = "ready"})
          [] OTHER          -> summary[w][k] + n]

Records(w, outcome) ==
  /\ results' = [results EXCEPT ![w] =
                   [p \in Papers |-> IF p \in DOMAIN outcome THEN outcome[p] ELSE @[p]]]
  /\ summary' = [summary EXCEPT ![w] = Counts(w, outcome)]

Unrecorded(w) == {p \in batch[w] : results[w][p] = "none"}

\* A paper without a PDF is skipped, one whose address is no address fails.
PreparePapers(w) ==
  /\ worker[w] = "preparing"
  /\ \E S \in SUBSET batch[w] :
       \E outcome \in [S -> {"skipped", "failed"}] : Records(w, outcome)
  /\ worker' = [worker EXCEPT ![w] = "parsing"]
  /\ UNCHANGED <<serviceVars, content, registry, batch, committed, verdict, listeners, requestVars>>

BatchOf(p, files) == Cardinality({x \in files : x < p}) \div ParseLimit

\* Batches whose submission or polling raises, or never comes to an end.
LostBatches(files) == SUBSET {BatchOf(p, files) : p \in files}

\* What the parsing service says of a file; its archive may be unusable.
ParserAnswers == {"done", "failed", "absent", "unusable"}

\* A batch that raises fails its files, one file of it only itself.
Unparsed(files, raised, says) ==
  {p \in files : BatchOf(p, files) \in raised \/ says[p] # "done"}

ParseFiles(w) ==
  /\ worker[w] = "parsing"
  /\ LET files == Unrecorded(w) IN
     \E raised \in LostBatches(files) :
       \E says \in [files -> ParserAnswers] :
         /\ "parseFault" \notin Adversity =>
              raised = {} /\ \A p \in files : says[p] = "done"
         /\ LET bad == Unparsed(files, raised, says) IN
              /\ Records(w, [p \in bad |-> "failed"])
              /\ worker' = [worker EXCEPT ![w] = "indexing"]
  /\ UNCHANGED <<serviceVars, content, registry, batch, committed, verdict, listeners, requestVars>>

\* Every chunk is upserted; those an earlier indexing left are deleted.
BuildIndex(p) == content' = [content EXCEPT ![p] = "whole"]

\* The chunks are upserted in batches, and a later batch may fail.
BuildFails(p) == UNCHANGED content \/ content' = [content EXCEPT ![p] = "partial"]

\* One parsed paper under the index lock: its abstract, then its chunks.
IndexPaper(w, p) ==
  /\ worker[w] = "indexing" /\ p \in Unrecorded(w)
  /\ \/ BuildIndex(p) /\ Records(w, [x \in {p} |-> "ready"])
     \/ /\ UNCHANGED content
        /\ Records(w, [x \in {p} |-> "skipped"])
     \/ /\ "indexFault" \in Adversity
        /\ BuildFails(p)
        /\ \E r \in {"failed", "unnamed"} : Records(w, [x \in {p} |-> r])
  /\ UNCHANGED <<serviceVars, registry, worker, batch, committed, verdict, listeners, requestVars>>

ProcessingEnds(w) ==
  /\ worker[w] = "indexing" /\ Unrecorded(w) = {}
  /\ worker' = [worker EXCEPT ![w] = "completing"]
  /\ UNCHANGED <<serviceVars, content, registry, batch, results, summary, committed, verdict,
                 listeners, requestVars>>

\* Mutant of ProcessingRaises: the claim is not reported.
ProcessingRaises_Silent(w) ==
  /\ "parseFault" \in Adversity
  /\ worker[w] \in {"preparing", "parsing"}
  /\ Finishes(w, "RAG_PROCESSING_FAILED")
  /\ UNCHANGED <<serviceVars, content, registry, batch, results, summary, committed, listeners,
                 requestVars>>

\* process_many raises: every paper of the claim is reported as failed
ProcessingRaises(w) ==
  /\ "parseFault" \in Adversity
  /\ worker[w] \in {"preparing", "parsing"}
  /\ worker' = [worker EXCEPT ![w] = "completingFailure"]
  /\ UNCHANGED <<serviceVars, content, registry, batch, results, summary, committed, verdict,
                 listeners, requestVars>>

\* The client refuses results it may not send: a failure without its error.
Sendable(w) ==
  worker[w] = "completing" => \A p \in batch[w] : results[w][p] # "unnamed"

Reported(w) ==
  IF worker[w] = "completing" THEN results[w] ELSE [p \in Papers |-> "failed"]

ReadyOf(w) == {p \in batch[w] : Reported(w)[p] = "ready"}

\* Mutants of Commits: the chunks of the batch are counted twice; the counts
\* are those from before the call.
Commits_Twice(w) ==
  LET counts == [StatusOf(paper') EXCEPT
                   !["chunks"] = summary[w]["chunks"] + Cardinality(ReadyOf(w))]
  IN /\ summary' = [summary EXCEPT ![w] = counts]
     /\ committed' = [committed EXCEPT ![w] = counts]

Commits_Stale(w) ==
  LET counts == [StatusOf(paper) EXCEPT
                   !["chunks"] = committed[w]["chunks"] + Cardinality(ReadyOf(w))]
  IN /\ summary' = [summary EXCEPT ![w] = counts]
     /\ committed' = [committed EXCEPT ![w] = counts]

Commits(w) ==
  LET counts == [StatusOf(paper') EXCEPT
                   !["chunks"] = committed[w]["chunks"] + Cardinality(ReadyOf(w))]
  IN /\ summary' = [summary EXCEPT ![w] = counts]
     /\ committed' = [committed EXCEPT ![w] = counts]

HasFailed(w) ==
  \/ \E p \in batch[w] : results[w][p] = "failed"
  \/ summary'[w]["failed"] > 0

CompleteBatch(w) ==
  /\ worker[w] = "completing" /\ Sendable(w)
  /\ ServiceCompletes(w, Reported(w))
  /\ Commits(w)
  /\ batch' = [batch EXCEPT ![w] = {}]
  /\ results' = [results EXCEPT ![w] = None(Papers)]
  /\ CASE HasFailed(w) -> Finishes(w, "RAG_PAPER_FAILED")
       [] ~HasFailed(w) /\ task' = "RAG_RUNNING" ->
            worker' = [worker EXCEPT ![w] = "claiming"] /\ UNCHANGED verdict
       [] ~HasFailed(w) /\ task' = "RAG_COMPLETED" -> Finishes(w, "ok")
       [] OTHER -> Finishes(w, "RAG_UNEXPECTED_TASK_STATE")
  /\ UNCHANGED <<content, registry, listeners, requestVars>>

CompleteFailedClaim(w) ==
  /\ worker[w] = "completingFailure"
  /\ ServiceCompletes(w, Reported(w))
  /\ Commits(w)
  /\ batch' = [batch EXCEPT ![w] = {}]
  /\ results' = [results EXCEPT ![w] = None(Papers)]
  /\ Finishes(w, "RAG_PROCESSING_FAILED")
  /\ UNCHANGED <<content, registry, listeners, requestVars>>

\* The client or the service refuses, or the call fails with or without effect.
CompleteFails(w) ==
  /\ worker[w] \in {"completing", "completingFailure"}
  /\ \/ /\ ~Sendable(w) \/ batch[w] # Held(w) \/ "serviceFault" \in Adversity
        /\ UNCHANGED serviceVars
     \/ "serviceFault" \in Adversity /\ Sendable(w) /\ ServiceCompletes(w, Reported(w))
  /\ Finishes(w, "RAG_BATCH_COMPLETE_FAILED")
  /\ UNCHANGED <<content, registry, batch, results, summary, committed, listeners, requestVars>>

CancelWorker(w) ==
  /\ "shutdown" \in Adversity
  /\ worker[w] \in Live \ {"finishing"}
  /\ Finishes(w, "RAG_WORKER_CANCELLED")
  /\ UNCHANGED <<serviceVars, content, registry, batch, results, summary, committed,
                 listeners, requestVars>>

\* The run leaves with its result; its counts and listeners go with it.
EndRun(w) ==
  /\ worker[w] = "finishing"
  /\ worker' = [worker EXCEPT ![w] = "ended"]
  /\ registry' = IF registry = w THEN NoRequest ELSE registry
  /\ batch' = [batch EXCEPT ![w] = {}]
  /\ results' = [results EXCEPT ![w] = None(Papers)]
  /\ summary' = [summary EXCEPT ![w] = Zero]
  /\ committed' = [committed EXCEPT ![w] = Zero]
  /\ listeners' = [listeners EXCEPT ![w] = {}]
  /\ UNCHANGED <<serviceVars, content, verdict, requestVars>>

\* The process dies: its runs and the requests it was serving are gone.
Crash ==
  /\ "crash" \in Adversity
  /\ registry # NoRequest
  /\ registry' = NoRequest
  /\ worker' = [w \in Requests |-> IF worker[w] \in Live THEN "dead" ELSE worker[w]]
  /\ request' = [q \in Requests |-> IF request[q] \in {"new", "done"} THEN request[q] ELSE "done"]
  /\ answer' = [q \in Requests |->
                  IF request[q] \in {"new", "done"} THEN answer[q]
                  ELSE "raised"]
  /\ listeners' = [w \in Requests |-> {}]
  /\ batch' = [w \in Requests |-> {}]
  /\ results' = [w \in Requests |-> None(Papers)]
  /\ seen' = None(Requests)
  /\ base' = [q \in Requests |-> Zero]
  /\ summary' = [w \in Requests |-> Zero]
  /\ committed' = [w \in Requests |-> Zero]
  /\ joined' = [q \in Requests |-> NoRequest]
  /\ UNCHANGED <<serviceVars, content, verdict>>

-----------------------------------------------------------------------------
Init ==
  /\ task \in {"SEARCHING", "SEARCH_COMPLETED"}
  /\ paper \in [Papers -> {"pending", "ready"}]
  /\ \E p \in Papers : paper[p] = "pending"
  /\ holder = [p \in Papers |-> NoRequest]
  /\ content = [p \in Papers |-> IF paper[p] = "ready" THEN "whole" ELSE "none"]
  /\ registry = NoRequest
  /\ worker = None(Requests)
  /\ batch = [w \in Requests |-> {}]
  /\ results = [w \in Requests |-> None(Papers)]
  /\ summary = [w \in Requests |-> Zero]
  /\ committed = [w \in Requests |-> Zero]
  /\ verdict = None(Requests)
  /\ listeners = [w \in Requests |-> {}]
  /\ request = [q \in Requests |-> "new"]
  /\ seen = None(Requests)
  /\ base = [q \in Requests |-> Zero]
  /\ joined = [q \in Requests |-> NoRequest]
  /\ answer = None(Requests)

RequestStep(q) ==
  \/ InitializeRequest(q) \/ CheckRagStatus(q) \/ StartRun(q) \/ JoinRun(q)
  \/ WaitForRemoteTask(q) \/ WorkerAnswers(q) \/ PollRemote(q) \/ VerifyCompletion(q)

TimeOut(q) == WaitTimesOut(q) \/ RemoteTimesOut(q)

WorkerStep(w) ==
  \/ ClaimPapers(w) \/ ClaimNothing(w) \/ ClaimFails(w) \/ PreparePapers(w) \/ ParseFiles(w)
  \/ \E p \in Papers : IndexPaper(w, p)
  \/ ProcessingEnds(w) \/ ProcessingRaises(w)
  \/ CompleteBatch(w) \/ CompleteFailedClaim(w) \/ CompleteFails(w) \/ EndRun(w)

Disturbance ==
  \/ SearchEnds \/ Crash
  \/ \E p \in Papers : LeaseEnds(p)
  \/ \E q \in Requests :
       PollFails(q) \/ PublicationFails(q) \/ CancelRequest(q) \/ CancelWorker(q)

Next ==
  \/ \E q \in Requests : RequestStep(q) \/ TimeOut(q) \/ WorkerStep(q)
  \/ Disturbance

Spec == Init /\ [][Next]_vars

(* The event loop runs every coroutine that can move, the waits are bounded *)
(* by timers; the environment and the faults are under no obligation.       *)
FairSpec ==
  /\ Spec
  /\ \A q \in Requests : /\ WF_vars(RequestStep(q))
                         /\ WF_vars(TimeOut(q))
                         /\ WF_vars(WorkerStep(q))

-----------------------------------------------------------------------------
(* The types of the variables. *)
TypeOK ==
  /\ task \in TaskStates
  /\ paper \in [Papers -> PaperStates]
  /\ holder \in [Papers -> Requests \cup {NoRequest}]
  /\ content \in [Papers -> {"none", "partial", "whole"}]
  /\ registry \in Requests \cup {NoRequest}
  /\ worker \in [Requests -> Live \cup {"none", "ended", "dead"}]
  /\ batch \in [Requests -> SUBSET Papers]
  /\ results \in [Requests -> [Papers -> Results]]
  /\ summary \in [Requests -> [Keys -> Nat]]
  /\ committed \in [Requests -> [Keys -> Nat]]
  /\ verdict \in [Requests -> RunErrors \cup {"none", "ok"}]
  /\ listeners \in [Requests -> SUBSET Requests]
  /\ request \in [Requests -> {"new", "checking", "indexing", "verifying", "done"} \cup Waiting]
  /\ seen \in [Requests -> TaskStates \cup {"none"}]
  /\ base \in [Requests -> [Keys -> Nat]]
  /\ joined \in [Requests -> Requests \cup {NoRequest}]
  /\ answer \in [Requests -> {"none", "completed", "failed", "timed_out", "raised"}]

(* At most one worker of the task is alive in the process, and it is the   *)
(* registered one: two would index the same papers side by side.           *)
OneLiveRun ==
  \A w \in Requests : worker[w] \in Live <=> registry = w

(* The counts a run reports never lose a paper, and never settle more than *)
(* the task has, although each batch moves them twice: on its own results   *)
(* and again by what the service counts.  (A paper whose lease ran out may  *)
(* be counted as indexing twice until the next commit.)                     *)
CountsAddUp ==
  \A w \in Requests : worker[w] \in Live =>
    /\ Settled(summary[w]) <= summary[w]["total"]
    /\ Settled(summary[w]) + Unsettled(summary[w]) >= summary[w]["total"]

(* What a run calls committed is what the service has stored.              *)
CommittedIsStored ==
  \A w \in Requests : \A k \in Outcomes \cup {"chunks"} :
    committed[w][k] <= StatusOf(paper)[k]

(* A paper the service calls ready has all its chunks in the index: no     *)
(* later or concurrent indexing has left it half written.                  *)
ReadyIsIndexed ==
  \A p \in Papers : paper[p] = "ready" => content[p] = "whole"

(* A worker that ended holds no paper, unless a call to the service went   *)
(* wrong or it was cancelled; only then do papers wait for their lease.    *)
EndedRunHoldsNothing ==
  \A w \in Requests :
    worker[w] = "ended" /\ Held(w) # {} =>
      verdict[w] \in {"RAG_CLAIM_FAILED", "RAG_BATCH_COMPLETE_FAILED", "RAG_WORKER_CANCELLED"}

(* A request is told that indexing succeeded only if the service has every *)
(* paper of the task settled, none failed and one of them ready.           *)
SuccessIsConfirmed ==
  \A q \in Requests : answer[q] = "completed" => CanGenerateReview

(* What is reported of a run is so: its counts, what it calls committed, and *)
(* the papers it made ready.                                                *)
ReportsAreTrue == CountsAddUp /\ CommittedIsStored /\ ReadyIsIndexed

(* A request listens only to the run it waits for, and nobody to a run that *)
(* has not started.                                                         *)
ListenersWait ==
  /\ \A w, q \in Requests :
       registry = w /\ q \in listeners[w] => request[q] = "waiting" /\ joined[q] = w
  /\ \A q \in Requests : worker[q] = "none" => listeners[q] = {}
  /\ \A q \in Requests : request[q] \in {"new", "checking", "indexing"} => worker[q] = "none"

(* The service keeps a lease for indexing papers only.                      *)
LeasesIndex == \A p \in Papers : holder[p] # NoRequest => paper[p] = "indexing"

(* A worker at work has a claim, and everything it holds is in it; it keeps *)
(* a paper beyond its end only when a call went wrong or it was cancelled.  *)
AtWork == {"preparing", "parsing", "indexing", "completing", "completingFailure"}
Unsure == {"RAG_CLAIM_FAILED", "RAG_BATCH_COMPLETE_FAILED", "RAG_WORKER_CANCELLED"}

ClaimsAreHeld ==
  \A w \in Requests :
    /\ worker[w] \in AtWork => batch[w] # {}
    /\ Held(w) # {} =>
         \/ worker[w] \in AtWork /\ Held(w) \subseteq batch[w]
         \/ worker[w] \in {"finishing", "ended"} /\ verdict[w] \in Unsure
         \/ worker[w] = "dead"

(* A paper of a claim is not settled behind its worker's back, counts as    *)
(* ready only with all its chunks in the index, and has its result when the *)
(* claim is reported.                                                       *)
ClaimsAreOpen ==
  \A w \in Requests : worker[w] \in AtWork =>
    \A p \in batch[w] : /\ paper[p] \in {"pending", "indexing"}
                        /\ results[w][p] = "ready" => content[p] = "whole"
                        /\ worker[w] = "completing" => results[w][p] # "none"

(* What ties the process and the service together, in every state.         *)
RagInv ==
  /\ TypeOK /\ OneLiveRun /\ ListenersWait /\ LeasesIndex
  /\ ClaimsAreHeld /\ ClaimsAreOpen /\ ReadyIsIndexed

(* The share of settled papers a run reports never falls, also when a      *)
(* commit replaces its own counts by the service's.                        *)
ProgressNeverFalls ==
  [][\A w \in Requests : worker[w] \in Live /\ worker'[w] \in Live =>
       Settled(summary'[w]) >= Settled(summary[w])]_vars

(* Everything comes to rest: every request ends, also when its worker never *)
(* answers, and every worker that started ends or dies with its process,    *)
(* also when all its requests have left.                                    *)
RequestsAndRunsEnd ==
  <>[](\A q \in Requests : request[q] = "done" /\ worker[q] \notin Live)
=============================================================================
