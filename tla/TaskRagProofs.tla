--------------------------- MODULE TaskRagProofs ---------------------------
(***************************************************************************)
(* Theorems about TaskRag for every set of papers and requests, every size *)
(* of claims and batches and every adversity: claims do not leak, success  *)
(* is true, and the counts a run reports add up.                           *)
(***************************************************************************)
EXTENDS TaskRag, FiniteSetTheorems, TLAPS

USE RagAssumption

-----------------------------------------------------------------------------
(* Types.  The counts are natural numbers because the papers are finite;   *)
(* all else follows from the sets the actions choose from.                 *)

\* The variables of the service, of the runs and of the requests.
ServiceOK ==
  /\ task \in TaskStates
  /\ paper \in [Papers -> PaperStates]
  /\ holder \in [Papers -> Requests \cup {NoRequest}]
  /\ content \in [Papers -> {"none", "partial", "whole"}]

RunsOK ==
  /\ registry \in Requests \cup {NoRequest}
  /\ worker \in [Requests -> Live \cup {"none", "ended", "dead"}]
  /\ batch \in [Requests -> SUBSET Papers]
  /\ results \in [Requests -> [Papers -> Results]]
  /\ verdict \in [Requests -> RunErrors \cup {"none", "ok"}]

CountsOK ==
  /\ summary \in [Requests -> [Keys -> Nat]]
  /\ committed \in [Requests -> [Keys -> Nat]]
  /\ base \in [Requests -> [Keys -> Nat]]

RequestsOK ==
  /\ listeners \in [Requests -> SUBSET Requests]
  /\ request \in [Requests -> {"new", "checking", "indexing", "verifying", "done"} \cup Waiting]
  /\ seen \in [Requests -> TaskStates \cup {"none"}]
  /\ joined \in [Requests -> Requests \cup {NoRequest}]
  /\ answer \in [Requests -> {"none", "completed", "failed", "timed_out", "raised"}]

\* TypeOK is the conjunction of these parts.
LEMMA TypeSplit ==
  /\ TypeOK <=> ServiceOK /\ RunsOK /\ CountsOK /\ RequestsOK
  /\ TypeOK' <=> ServiceOK' /\ RunsOK' /\ CountsOK' /\ RequestsOK'
BY DEF TypeOK, ServiceOK, RunsOK, CountsOK, RequestsOK

\* A count of papers is a natural number.
LEMMA PaperCount == ASSUME NEW S \in SUBSET Papers PROVE Cardinality(S) \in Nat
BY FS_Subset, FS_CardinalityType

LEMMA StatusCounts == ASSUME NEW state PROVE StatusOf(state) \in [Keys -> Nat]
<1>1. ASSUME NEW k \in Keys PROVE StatusOf(state)[k] \in Nat
  <2>1. /\ Cardinality(Papers) \in Nat
        /\ Cardinality({p \in Papers : state[p] = "ready"}) \in Nat
        /\ Cardinality({p \in Papers : state[p] = k}) \in Nat
    BY PaperCount, Zenon
  <2> QED BY <2>1 DEF StatusOf
<1> QED BY <1>1 DEF StatusOf

LEMMA Left == ASSUME NEW n \in Int PROVE LeftOver(n) \in Nat
BY DEF LeftOver

\* What the results of some papers make of the counts of a run.
LEMMA CountsCount ==
  ASSUME CountsOK, NEW w \in Requests, NEW S \in SUBSET Papers, NEW outcome, DOMAIN outcome = S
  PROVE  Counts(w, outcome) \in [Keys -> Nat]
<1>1. ASSUME NEW k \in Keys PROVE Counts(w, outcome)[k] \in Nat
  <2>1. summary[w][k] \in Nat
    BY DEF CountsOK
  <2>2. /\ Cardinality(S) \in Nat
        /\ Cardinality({p \in S : outcome[p] = k}) \in Nat
        /\ Cardinality({p \in S : outcome[p] = "unnamed"}) \in Nat
        /\ Cardinality({p \in S : outcome[p] = "ready"}) \in Nat
    BY PaperCount, Zenon
  <2>3. LeftOver(summary[w][k] - Cardinality(S)) \in Nat
    BY <2>1, <2>2, Left
  <2> QED BY <2>1, <2>2, <2>3 DEF Counts
<1> QED BY <1>1 DEF Counts

\* What a claim makes of the counts of a run.
LEMMA ClaimCount ==
  ASSUME CountsOK, NEW w \in Requests, NEW n \in Nat
  PROVE  CountsClaim(w, n) \in [Keys -> Nat]
<1> DEFINE total == IF summary[w]["total"] = 0 THEN n ELSE summary[w]["total"]
           left  == LeftOver(summary[w]["pending"] - n)
           more  == summary[w]["indexing"] + n
<1>1. summary[w] \in [Keys -> Nat]
  BY DEF CountsOK
<1>2. total \in Nat /\ left \in Nat /\ more \in Nat
  <2>1. summary[w]["total"] \in Nat /\ summary[w]["pending"] \in Nat /\ summary[w]["indexing"] \in Nat
    BY <1>1 DEF Keys, PaperStates
  <2> QED BY <2>1, Left
<1>3. CountsClaim(w, n) =
        [summary[w] EXCEPT !["total"] = total, !["pending"] = left, !["indexing"] = more]
  BY DEF CountsClaim
<1> HIDE DEF total, left, more
<1> QED BY <1>1, <1>2, <1>3

LEMMA Recorded ==
  ASSUME RunsOK, CountsOK, NEW w \in Requests, NEW S \in SUBSET Papers,
         NEW outcome \in [S -> Results], Records(w, outcome)
  PROVE  /\ results' \in [Requests -> [Papers -> Results]]
         /\ summary' \in [Requests -> [Keys -> Nat]]
<1>1. [p \in Papers |-> IF p \in DOMAIN outcome THEN outcome[p] ELSE results[w][p]]
        \in [Papers -> Results]
  BY DEF RunsOK
<1>2. results' \in [Requests -> [Papers -> Results]]
  BY <1>1, Zenon DEF Records, RunsOK
<1>3. Counts(w, outcome) \in [Keys -> Nat]
  BY CountsCount
<1>4. summary' \in [Requests -> [Keys -> Nat]]
  BY <1>3, Zenon DEF Records, CountsOK
<1> QED BY <1>2, <1>4

\* What the service leaves after a completion is a state of the task.
LEMMA AfterCompleteType ==
  ASSUME NEW state PROVE AfterComplete(state) \in SUBSET TaskStates /\ AfterComplete(state) # {}
BY DEF AfterComplete, TaskStates

LEMMA ClaimType ==
  ASSUME ServiceOK, NEW w \in Requests, NEW S, ServiceClaims(w, S), UNCHANGED content
  PROVE  ServiceOK'
BY DEF ServiceOK, ServiceClaims, TaskStates, PaperStates

LEMMA CompleteType ==
  ASSUME ServiceOK, NEW w \in Requests, NEW outcome, \A p \in batch[w] : outcome[p] \in Outcomes,
         ServiceCompletes(w, outcome), UNCHANGED content
  PROVE  ServiceOK'
<1>1. task' \in TaskStates
  BY AfterCompleteType DEF ServiceCompletes
<1> QED BY <1>1 DEF ServiceOK, ServiceCompletes, PaperStates

LEMMA CommitType ==
  ASSUME CountsOK, NEW w \in Requests, batch[w] \in SUBSET Papers, Commits(w), UNCHANGED base
  PROVE  CountsOK'
<1> DEFINE n == committed[w]["chunks"] + Cardinality(ReadyOf(w))
           counts == [StatusOf(paper') EXCEPT !["chunks"] = n]
<1>1. Cardinality(ReadyOf(w)) \in Nat
  BY PaperCount DEF ReadyOf
<1>2. n \in Nat
  BY <1>1 DEF CountsOK, Keys
<1>3. counts \in [Keys -> Nat]
  BY <1>2, StatusCounts
<1>4. /\ summary' = [summary EXCEPT ![w] = counts]
      /\ committed' = [committed EXCEPT ![w] = counts]
  BY DEF Commits
<1> HIDE DEF counts
<1> QED BY <1>3, <1>4 DEF CountsOK

\* What a report sends of each paper of the claim is an outcome.
LEMMA ReportedType ==
  ASSUME RagInv, NEW w \in Requests, worker[w] \in {"completing", "completingFailure"}, Sendable(w)
  PROVE  \A p \in batch[w] : Reported(w)[p] \in Outcomes
<1>1. CASE worker[w] = "completing"
  <2>1. \A p \in batch[w] : results[w][p] \in Results \ {"none", "unnamed"}
    BY <1>1 DEF RagInv, ClaimsAreOpen, AtWork, Sendable, TypeOK
  <2> QED BY <1>1, <2>1 DEF Reported, Results, Outcomes
<1>2. CASE worker[w] = "completingFailure"
  BY <1>2 DEF RagInv, TypeOK, Reported, Outcomes
<1> QED BY <1>1, <1>2
-----------------------------------------------------------------------------
(* Types are kept by every step, one class of actions after another.       *)

\* What no action of a class touches keeps its type.
LEMMA SameService == ASSUME ServiceOK, UNCHANGED <<task, paper, holder, content>> PROVE ServiceOK'
BY DEF ServiceOK

LEMMA SameRuns ==
  ASSUME RunsOK, UNCHANGED <<registry, worker, batch, results, verdict>> PROVE RunsOK'
BY DEF RunsOK

LEMMA SameCounts == ASSUME CountsOK, UNCHANGED <<summary, committed, base>> PROVE CountsOK'
BY DEF CountsOK

LEMMA SameRequests ==
  ASSUME RequestsOK, UNCHANGED <<listeners, request, seen, joined, answer>> PROVE RequestsOK'
BY DEF RequestsOK

\* Reading or forgetting the status keeps what a request knows well formed.
LEMMA StatusReadType ==
  ASSUME TypeOK, NEW q \in Requests, ReadsStatus(q) \/ ForgetsStatus(q)
  PROVE  /\ seen' \in [Requests -> TaskStates \cup {"none"}]
         /\ base' \in [Requests -> [Keys -> Nat]]
<1>1. StatusOf(paper) \in [Keys -> Nat] /\ Zero \in [Keys -> Nat]
  BY StatusCounts DEF Zero
<1>2. /\ base \in [Requests -> [Keys -> Nat]] /\ task \in TaskStates
      /\ seen \in [Requests -> TaskStates \cup {"none"}]
  BY DEF TypeOK
<1>3. CASE ReadsStatus(q)
  <2>1. base' = [base EXCEPT ![q] = StatusOf(paper)] /\ seen' = [seen EXCEPT ![q] = task]
    BY <1>3 DEF ReadsStatus
  <2> QED BY <2>1, <1>1, <1>2, Zenon
<1>4. CASE ForgetsStatus(q)
  <2>1. base' = [base EXCEPT ![q] = Zero] /\ seen' = [seen EXCEPT ![q] = "none"]
    BY <1>4 DEF ForgetsStatus
  <2> QED BY <2>1, <1>1, <1>2, Zenon
<1> QED BY <1>3, <1>4

LEMMA RequestTypes ==
  ASSUME TypeOK, NEW q \in Requests, RequestStep(q) \/ TimeOut(q)
  PROVE  TypeOK'
<1> USE TypeSplit DEF serviceVars, runVars, requestVars
<1>1. CASE InitializeRequest(q)
  <2>1. RequestsOK' BY <1>1 DEF InitializeRequest, Ends, RequestsOK
  <2> QED BY <1>1, <2>1, SameService, SameRuns, SameCounts DEF InitializeRequest
<1>2. CASE CheckRagStatus(q)
  <2>1. seen' \in [Requests -> TaskStates \cup {"none"}] /\ base' \in [Requests -> [Keys -> Nat]]
    <3>1. CASE ReadsStatus(q) BY <3>1, StatusReadType
    <3>2. CASE UNCHANGED <<seen, base>> BY <3>2 DEF TypeOK
    <3> QED BY <1>2, <3>1, <3>2 DEF CheckRagStatus
  <2>2. /\ UNCHANGED <<listeners, joined>>
        /\ \/ \E s \in {"completed", "failed"} : Ends(q, s)
           \/ request' = [request EXCEPT ![q] = "indexing"] /\ UNCHANGED answer
    BY <1>2, Zenon DEF CheckRagStatus, StatusUnreadable
  <2>4. RequestsOK' BY <2>1, <2>2 DEF Ends, RequestsOK
  <2>3. CountsOK' BY <1>2, <2>1 DEF CheckRagStatus, CountsOK
  <2> QED BY <1>2, <2>3, <2>4, SameService, SameRuns DEF CheckRagStatus
<1>3. CASE StartRun(q)
  <2>1. seen' \in [Requests -> TaskStates \cup {"none"}] /\ base' \in [Requests -> [Keys -> Nat]]
    BY <1>3, StatusReadType DEF StartRun
  <2>2. RequestsOK' BY <1>3, <2>1 DEF StartRun, Joins, RequestsOK, Waiting
  <2>3. CountsOK' BY <1>3, <2>1 DEF StartRun, CountsOK
  <2>4. RunsOK' BY <1>3 DEF StartRun, RunsOK, Live
  <2> QED BY <1>3, <2>2, <2>3, <2>4, SameService DEF StartRun
<1>4. CASE JoinRun(q)
  <2>1. seen' \in [Requests -> TaskStates \cup {"none"}] /\ base' \in [Requests -> [Keys -> Nat]]
    BY <1>4, StatusReadType DEF JoinRun
  <2>2. RequestsOK' BY <1>4, <2>1 DEF JoinRun, Joins, RequestsOK, RunsOK, Waiting
  <2>3. CountsOK' BY <1>4, <2>1 DEF JoinRun, CountsOK
  <2> QED BY <1>4, <2>2, <2>3, SameService, SameRuns DEF JoinRun
<1>5. CASE WaitForRemoteTask(q)
  <2>1. seen' \in [Requests -> TaskStates \cup {"none"}] /\ base' \in [Requests -> [Keys -> Nat]]
    BY <1>5, StatusReadType DEF WaitForRemoteTask
  <2>2. RequestsOK' BY <1>5, <2>1 DEF WaitForRemoteTask, RequestsOK, Waiting
  <2>3. CountsOK' BY <1>5, <2>1 DEF WaitForRemoteTask, CountsOK
  <2> QED BY <1>5, <2>2, <2>3, SameService, SameRuns DEF WaitForRemoteTask
<1>6. CASE WorkerAnswers(q)
  <2>1. RequestsOK' BY <1>6 DEF WorkerAnswers, Ends, Unsubscribes, RequestsOK
  <2> QED BY <1>6, <2>1, SameService, SameRuns, SameCounts DEF WorkerAnswers
<1>7. CASE PollRemote(q)
  <2>1. RequestsOK' BY <1>7 DEF PollRemote, Ends, RequestsOK
  <2> QED BY <1>7, <2>1, SameService, SameRuns, SameCounts DEF PollRemote
<1>8. CASE VerifyCompletion(q)
  <2>1. RequestsOK' BY <1>8 DEF VerifyCompletion, StatusUnreadable, Ends, RequestsOK
  <2> QED BY <1>8, <2>1, SameService, SameRuns, SameCounts DEF VerifyCompletion
<1>9. CASE WaitTimesOut(q)
  <2>1. RequestsOK' BY <1>9 DEF WaitTimesOut, Ends, Unsubscribes, RequestsOK
  <2> QED BY <1>9, <2>1, SameService, SameRuns, SameCounts DEF WaitTimesOut
<1>10. CASE RemoteTimesOut(q)
  <2>1. RequestsOK' BY <1>10 DEF RemoteTimesOut, Ends, RequestsOK
  <2> QED BY <1>10, <2>1, SameService, SameRuns, SameCounts DEF RemoteTimesOut
<1> QED BY <1>1, <1>2, <1>3, <1>4, <1>5, <1>6, <1>7, <1>8, <1>9, <1>10 DEF RequestStep, TimeOut

LEMMA DisturbanceTypes == ASSUME TypeOK, Disturbance PROVE TypeOK'
<1> USE TypeSplit DEF serviceVars, runVars, requestVars
<1>1. CASE SearchEnds
  <2>1. ServiceOK' BY <1>1 DEF SearchEnds, ServiceOK, TaskStates
  <2> QED BY <1>1, <2>1, SameRuns, SameCounts, SameRequests DEF SearchEnds
<1>2. CASE Crash
  <2>1. RunsOK' BY <1>2 DEF Crash, RunsOK, None, Results
  <2>2. Zero \in [Keys -> Nat] BY DEF Zero
  <2>3. CountsOK' BY <1>2, <2>2 DEF Crash, CountsOK
  <2>4. RequestsOK' BY <1>2 DEF Crash, RequestsOK, None
  <2> QED BY <1>2, <2>1, <2>3, <2>4, SameService DEF Crash
<1>3. ASSUME NEW p \in Papers, LeaseEnds(p) PROVE TypeOK'
  <2>1. ServiceOK' BY <1>3 DEF LeaseEnds, ServiceOK, PaperStates
  <2> QED BY <1>3, <2>1, SameRuns, SameCounts, SameRequests DEF LeaseEnds
<1>4. ASSUME NEW q \in Requests, PollFails(q) PROVE TypeOK'
  <2>1. RequestsOK' BY <1>4 DEF PollFails, StatusUnreadable, Ends, RequestsOK
  <2> QED BY <1>4, <2>1, SameService, SameRuns, SameCounts DEF PollFails
<1>5. ASSUME NEW q \in Requests, PublicationFails(q) PROVE TypeOK'
  <2>1. RequestsOK' BY <1>5 DEF PublicationFails, Unsubscribes, Ends, RequestsOK
  <2> QED BY <1>5, <2>1, SameService, SameRuns, SameCounts DEF PublicationFails
<1>6. ASSUME NEW q \in Requests, CancelRequest(q) PROVE TypeOK'
  <2>1. RequestsOK' BY <1>6 DEF CancelRequest, Unsubscribes, Ends, RequestsOK
  <2> QED BY <1>6, <2>1, SameService, SameRuns, SameCounts DEF CancelRequest
<1>7. ASSUME NEW q \in Requests, CancelWorker(q) PROVE TypeOK'
  <2>1. RunsOK' BY <1>7 DEF CancelWorker, Finishes, RunsOK, Live, RunErrors
  <2> QED BY <1>7, <2>1, SameService, SameCounts, SameRequests DEF CancelWorker
<1> QED BY <1>1, <1>2, <1>3, <1>4, <1>5, <1>6, <1>7 DEF Disturbance

\* Recording results under the claim of a run keeps the types.
LEMMA RecordsTypes ==
  ASSUME TypeOK, NEW w \in Requests, NEW S \in SUBSET Papers, NEW outcome \in [S -> Results],
         Records(w, outcome), ServiceOK', worker' \in [Requests -> Live \cup {"none", "ended", "dead"}],
         UNCHANGED <<registry, batch, committed, verdict, listeners, requestVars>>
  PROVE  TypeOK'
<1> USE TypeSplit DEF requestVars
<1>1. results' \in [Requests -> [Papers -> Results]] /\ summary' \in [Requests -> [Keys -> Nat]]
  BY Recorded
<1>2. RunsOK' BY <1>1 DEF RunsOK
<1>3. CountsOK' BY <1>1 DEF CountsOK
<1> QED BY <1>2, <1>3, SameRequests

\* Finishing keeps the types of what belongs to the runs.
LEMMA FinishesTypes ==
  ASSUME RunsOK, NEW w \in Requests, NEW code \in RunErrors \cup {"ok"}, Finishes(w, code),
         UNCHANGED <<registry, batch, results>>
  PROVE  RunsOK'
BY DEF RunsOK, Finishes, Live

LEMMA WorkerTypes ==
  ASSUME RagInv, NEW w \in Requests, WorkerStep(w)
  PROVE  TypeOK'
<1> USE TypeSplit DEF serviceVars, runVars, requestVars
<1>0. TypeOK BY DEF RagInv
<1>1. CASE ClaimPapers(w)
  <2>1. PICK S \in SUBSET Papers :
          /\ ServiceClaims(w, S)
          /\ batch' = [batch EXCEPT ![w] = S]
          /\ results' = [results EXCEPT ![w] = None(Papers)]
          /\ summary' = [summary EXCEPT ![w] = CountsClaim(w, Cardinality(S))]
          /\ worker' = [worker EXCEPT ![w] = "preparing"]
    BY <1>1 DEF ClaimPapers
  <2>2. ServiceOK' BY <1>0, <1>1, <2>1, ClaimType DEF ClaimPapers
  <2>3. None(Papers) \in [Papers -> Results] BY DEF None, Results
  <2>4. RunsOK' BY <1>0, <1>1, <2>1, <2>3 DEF ClaimPapers, RunsOK, Live
  <2>5. CountsClaim(w, Cardinality(S)) \in [Keys -> Nat]
    BY <1>0, PaperCount, ClaimCount
  <2>6. CountsOK' BY <1>0, <1>1, <2>1, <2>5 DEF ClaimPapers, CountsOK
  <2> QED BY <1>0, <1>1, <2>2, <2>4, <2>6, SameRequests DEF ClaimPapers
<1>2. CASE ClaimNothing(w)
  <2>1. ServiceOK' BY <1>0, <1>2, AfterCompleteType DEF ClaimNothing, ServiceHasNothing, ServiceOK
  <2>2. \E code \in RunErrors \cup {"ok"} : Finishes(w, code)
    BY <1>2 DEF ClaimNothing, RunErrors
  <2>3. RunsOK' BY <1>0, <1>2, <2>2, FinishesTypes DEF ClaimNothing
  <2> QED BY <1>0, <1>2, <2>1, <2>3, SameCounts, SameRequests DEF ClaimNothing
<1>3. CASE ClaimFails(w)
  <2>1. ServiceOK' BY <1>0, <1>3, ClaimType, SameService DEF ClaimFails
  <2>2. RunsOK' BY <1>0, <1>3, FinishesTypes DEF ClaimFails, RunErrors
  <2> QED BY <1>0, <1>3, <2>1, <2>2, SameCounts, SameRequests DEF ClaimFails
<1>4. CASE PreparePapers(w)
  <2>1. PICK S \in SUBSET batch[w] :
          \E outcome \in [S -> {"skipped", "failed"}] : Records(w, outcome)
    BY <1>4 DEF PreparePapers
  <2>2. S \in SUBSET Papers BY <1>0, <2>1 DEF TypeOK
  <2>3. PICK outcome \in [S -> Results] : Records(w, outcome)
    BY <2>1 DEF Results, Outcomes
  <2>4. worker' \in [Requests -> Live \cup {"none", "ended", "dead"}]
    BY <1>0, <1>4 DEF PreparePapers, TypeOK, Live
  <2>5. ServiceOK' BY <1>0, <1>4, SameService DEF PreparePapers
  <2> QED BY <1>0, <1>4, <2>2, <2>3, <2>4, <2>5, RecordsTypes DEF PreparePapers
<1>5. CASE ParseFiles(w)
  <2>1. PICK bad \in SUBSET Unrecorded(w) : Records(w, [p \in bad |-> "failed"])
    BY <1>5 DEF ParseFiles, Unparsed
  <2>2. bad \in SUBSET Papers BY <1>0, <2>1 DEF TypeOK, Unrecorded
  <2>3. [p \in bad |-> "failed"] \in [bad -> Results] BY DEF Results, Outcomes
  <2>4. worker' \in [Requests -> Live \cup {"none", "ended", "dead"}]
    <3>1. worker' = [worker EXCEPT ![w] = "indexing"] BY <1>5 DEF ParseFiles
    <3> QED BY <1>0, <3>1 DEF TypeOK, Live
  <2>5. ServiceOK' BY <1>0, <1>5, SameService DEF ParseFiles
  <2> QED BY <1>0, <1>5, <2>1, <2>2, <2>3, <2>4, <2>5, RecordsTypes DEF ParseFiles
<1>6. ASSUME NEW p \in Papers, IndexPaper(w, p) PROVE TypeOK'
  <2>1. \E r \in Results : Records(w, [x \in {p} |-> r])
    BY <1>6 DEF IndexPaper, Results, Outcomes
  <2>2. PICK outcome \in [{p} -> Results] : Records(w, outcome)
    BY <2>1
  <2>3. ServiceOK' BY <1>0, <1>6 DEF IndexPaper, BuildIndex, BuildFails, ServiceOK
  <2>4. worker' \in [Requests -> Live \cup {"none", "ended", "dead"}]
    BY <1>0, <1>6 DEF IndexPaper, TypeOK
  <2> QED BY <1>0, <1>6, <2>2, <2>3, <2>4, RecordsTypes DEF IndexPaper
<1>7. CASE ProcessingEnds(w)
  <2>1. RunsOK' BY <1>0, <1>7 DEF ProcessingEnds, RunsOK, Live
  <2> QED BY <1>0, <1>7, <2>1, SameService, SameCounts, SameRequests DEF ProcessingEnds
<1>8. CASE ProcessingRaises(w)
  <2>1. RunsOK' BY <1>0, <1>8 DEF ProcessingRaises, RunsOK, Live
  <2> QED BY <1>0, <1>8, <2>1, SameService, SameCounts, SameRequests DEF ProcessingRaises
<1>9. ASSUME CompleteBatch(w) \/ CompleteFailedClaim(w) PROVE TypeOK'
  <2>1. /\ worker[w] \in {"completing", "completingFailure"} /\ Sendable(w)
        /\ ServiceCompletes(w, Reported(w)) /\ Commits(w)
        /\ batch' = [batch EXCEPT ![w] = {}] /\ results' = [results EXCEPT ![w] = None(Papers)]
        /\ UNCHANGED <<content, registry, listeners, requestVars>>
    BY <1>9 DEF CompleteBatch, CompleteFailedClaim, Sendable
  <2>2. ServiceOK' BY <1>0, <2>1, ReportedType, CompleteType
  <2>3. CountsOK'
    <3>1. batch[w] \in SUBSET Papers BY <1>0 DEF TypeOK
    <3> QED BY <1>0, <2>1, <3>1, CommitType
  <2>4. \/ worker' = [worker EXCEPT ![w] = "claiming"] /\ UNCHANGED verdict
        \/ \E code \in RunErrors \cup {"ok"} : Finishes(w, code)
    <3>1. CASE CompleteFailedClaim(w) BY <3>1 DEF CompleteFailedClaim, RunErrors
    <3>2. CASE CompleteBatch(w)
      <4>1. {"RAG_PAPER_FAILED", "RAG_UNEXPECTED_TASK_STATE", "ok"} \subseteq RunErrors \cup {"ok"}
        BY DEF RunErrors
      <4> QED BY <3>2, <4>1 DEF CompleteBatch
    <3> QED BY <1>9, <3>1, <3>2
  <2>5. None(Papers) \in [Papers -> Results] BY DEF None, Results
  <2>6. RunsOK'
    <3>1. \E s \in Live : worker' = [worker EXCEPT ![w] = s]
      BY <2>4 DEF Finishes, Live
    <3>2. verdict' = verdict \/ \E code \in RunErrors \cup {"ok"} : verdict' = [verdict EXCEPT ![w] = code]
      BY <2>4 DEF Finishes
    <3> QED BY <1>0, <2>1, <2>5, <3>1, <3>2 DEF RunsOK
  <2> QED BY <1>0, <2>1, <2>2, <2>3, <2>6, SameRequests
<1>10. CASE CompleteFails(w)
  <2>1. ServiceOK'
    <3>1. CASE UNCHANGED serviceVars BY <1>0, <1>10, <3>1, SameService DEF CompleteFails
    <3>2. CASE Sendable(w) /\ ServiceCompletes(w, Reported(w))
      BY <1>0, <1>10, <3>2, ReportedType, CompleteType DEF CompleteFails
    <3> QED BY <1>10, <3>1, <3>2 DEF CompleteFails
  <2>2. RunsOK' BY <1>0, <1>10, FinishesTypes DEF CompleteFails, RunErrors
  <2> QED BY <1>0, <1>10, <2>1, <2>2, SameCounts, SameRequests DEF CompleteFails
<1>11. CASE EndRun(w)
  <2>1. None(Papers) \in [Papers -> Results] BY DEF None, Results
  <2>2. RunsOK' BY <1>0, <1>11, <2>1 DEF EndRun, RunsOK
  <2>3. Zero \in [Keys -> Nat] BY DEF Zero
  <2>4. CountsOK' BY <1>0, <1>11, <2>3 DEF EndRun, CountsOK
  <2>5. RequestsOK' BY <1>0, <1>11 DEF EndRun, RequestsOK
  <2> QED BY <1>0, <1>11, <2>2, <2>4, <2>5, SameService DEF EndRun
<1> QED BY <1>1, <1>2, <1>3, <1>4, <1>5, <1>6, <1>7, <1>8, <1>9, <1>10, <1>11 DEF WorkerStep

THEOREM TypesAreKept == RagInv /\ [Next]_vars => TypeOK'
<1> SUFFICES ASSUME RagInv, [Next]_vars PROVE TypeOK'
  OBVIOUS
<1>0. TypeOK BY DEF RagInv
<1>1. ASSUME NEW q \in Requests, RequestStep(q) \/ TimeOut(q) PROVE TypeOK'
  BY <1>0, <1>1, RequestTypes
<1>2. ASSUME NEW w \in Requests, WorkerStep(w) PROVE TypeOK'
  BY <1>2, WorkerTypes
<1>3. CASE Disturbance
  BY <1>0, <1>3, DisturbanceTypes
<1>4. CASE UNCHANGED vars
  BY <1>0, <1>4 DEF vars, serviceVars, runVars, requestVars, TypeOK
<1> QED BY <1>1, <1>2, <1>3, <1>4 DEF Next

-----------------------------------------------------------------------------
(* One live worker, and listeners that wait for it.                        *)

\* A step that starts and ends no worker keeps the live one.
LEMMA SameLive ==
  ASSUME OneLiveRun, UNCHANGED registry,
         \A w \in Requests : worker'[w] \in Live <=> worker[w] \in Live
  PROVE  OneLiveRun'
BY DEF OneLiveRun

\* A step of a run's own worker keeps the worker alive.
LEMMA WorkerStaysLive ==
  ASSUME TypeOK, OneLiveRun, NEW w \in Requests, WorkerStep(w), ~EndRun(w)
  PROVE  /\ UNCHANGED <<registry, listeners, requestVars>>
         /\ worker[w] \in Live /\ worker'[w] \in Live
         /\ \A x \in Requests : x # w => worker'[x] = worker[x]
<1> USE DEF Live, Finishes, requestVars, TypeOK
<1>1. CASE ClaimPapers(w) BY <1>1 DEF ClaimPapers
<1>2. CASE ClaimNothing(w) BY <1>2 DEF ClaimNothing
<1>3. CASE ClaimFails(w) BY <1>3 DEF ClaimFails
<1>4. CASE PreparePapers(w) BY <1>4 DEF PreparePapers
<1>5. CASE ParseFiles(w)
  <2>1. worker[w] = "parsing" /\ worker' = [worker EXCEPT ![w] = "indexing"]
        /\ UNCHANGED <<registry, listeners, requestVars>>
    BY <1>5 DEF ParseFiles
  <2> QED BY <2>1
<1>6. ASSUME NEW p \in Papers, IndexPaper(w, p)
      PROVE  worker[w] = "indexing" /\ UNCHANGED <<worker, registry, listeners, requestVars>>
  BY <1>6 DEF IndexPaper
<1>7. CASE ProcessingEnds(w) BY <1>7 DEF ProcessingEnds
<1>8. CASE ProcessingRaises(w) BY <1>8 DEF ProcessingRaises
<1>9. CASE CompleteBatch(w)
  <2>1. worker[w] = "completing" /\ UNCHANGED <<registry, listeners, requestVars>>
    BY <1>9 DEF CompleteBatch
  <2>2. \E s \in {"claiming", "finishing"} : worker' = [worker EXCEPT ![w] = s]
    BY <1>9 DEF CompleteBatch
  <2> QED BY <2>1, <2>2
<1>10. CASE CompleteFailedClaim(w) BY <1>10 DEF CompleteFailedClaim
<1>11. CASE CompleteFails(w) BY <1>11 DEF CompleteFails
<1> QED BY <1>1, <1>2, <1>3, <1>4, <1>5, <1>6, <1>7, <1>8, <1>9, <1>10, <1>11 DEF WorkerStep

THEOREM OneLiveRunIsKept == RagInv /\ [Next]_vars => OneLiveRun'
<1> SUFFICES ASSUME RagInv, [Next]_vars PROVE OneLiveRun'
  OBVIOUS
<1>0. TypeOK /\ OneLiveRun BY DEF RagInv
<1> USE DEF runVars, serviceVars, requestVars
<1>1. ASSUME NEW q \in Requests, RequestStep(q) \/ TimeOut(q) PROVE OneLiveRun'
  <2>1. CASE StartRun(q)
    BY <1>0, <2>1 DEF StartRun, OneLiveRun, TypeOK, Live
  <2>2. CASE ~StartRun(q)
    <3>1. UNCHANGED <<registry, worker>>
      BY <1>1, <2>2 DEF RequestStep, TimeOut, InitializeRequest, CheckRagStatus, JoinRun,
           WaitForRemoteTask, WorkerAnswers, PollRemote, VerifyCompletion, WaitTimesOut, RemoteTimesOut
    <3> QED BY <1>0, <3>1 DEF OneLiveRun
  <2> QED BY <2>1, <2>2
<1>2. ASSUME NEW w \in Requests, WorkerStep(w) PROVE OneLiveRun'
  <2>1. CASE EndRun(w)
    BY <1>0, <2>1 DEF EndRun, OneLiveRun, TypeOK, Live
  <2>2. CASE ~EndRun(w)
    BY <1>0, <1>2, <2>2, WorkerStaysLive, SameLive
  <2> QED BY <2>1, <2>2
<1>3. CASE Disturbance
  <2>1. CASE Crash
    BY <1>0, <2>1 DEF Crash, OneLiveRun, TypeOK, Live
  <2>2. ASSUME NEW w \in Requests, CancelWorker(w) PROVE OneLiveRun'
    BY <1>0, <2>2 DEF CancelWorker, Finishes, OneLiveRun, TypeOK, Live
  <2>3. CASE UNCHANGED <<registry, worker>>
    BY <1>0, <2>3 DEF OneLiveRun
  <2> QED BY <1>3, <2>1, <2>2, <2>3 DEF Disturbance, SearchEnds, LeaseEnds, PollFails,
            PublicationFails, CancelRequest
<1>4. CASE UNCHANGED vars
  BY <1>0, <1>4 DEF vars, OneLiveRun
<1> QED BY <1>1, <1>2, <1>3, <1>4 DEF Next

\* A step that moves no request and no listener keeps the listeners waiting.
LEMMA SameListeners ==
  ASSUME ListenersWait, UNCHANGED <<registry, listeners, request, joined>>,
         \A w \in Requests : worker'[w] = "none" <=> worker[w] = "none"
  PROVE  ListenersWait'
BY DEF ListenersWait

\* A request that leaves its run, or was subscribed to none.
LEMMA LeavingListeners ==
  ASSUME TypeOK, ListenersWait, NEW q \in Requests,
         request[q] \notin {"new", "checking", "indexing"},
         request'[q] \notin {"new", "checking", "indexing"},
         \A x \in Requests \ {q} : request'[x] = request[x],
         Unsubscribes(q) \/ (request[q] # "waiting" /\ UNCHANGED <<listeners, joined>>),
         UNCHANGED <<registry, worker>>
  PROVE  ListenersWait'
<1>1. ASSUME NEW w \in Requests, NEW x \in Requests, registry' = w, x \in listeners'[w]
      PROVE  request'[x] = "waiting" /\ joined'[x] = w
  <2>1. x \in listeners[w] BY <1>1 DEF Unsubscribes, TypeOK
  <2>2. request[x] = "waiting" /\ joined[x] = w
    BY <1>1, <2>1 DEF ListenersWait
  <2>3. x # q
    BY <1>1, <2>2 DEF Unsubscribes, TypeOK
  <2> QED BY <2>2, <2>3 DEF Unsubscribes, TypeOK
<1>2. ASSUME NEW x \in Requests, worker'[x] = "none" PROVE listeners'[x] = {}
  <2>1. listeners[x] = {} BY <1>2 DEF ListenersWait
  <2>2. CASE listeners' = listeners BY <2>1, <2>2
  <2>3. CASE listeners' = [listeners EXCEPT ![joined[q]] = @ \ {q}]
    <3>1. listeners \in [Requests -> SUBSET Requests] BY DEF TypeOK
    <3> QED BY <2>1, <2>3, <3>1
  <2> QED BY <2>2, <2>3 DEF Unsubscribes
<1>3. ASSUME NEW x \in Requests, request'[x] \in {"new", "checking", "indexing"}
      PROVE  worker'[x] = "none"
  BY <1>3 DEF ListenersWait
<1> QED BY <1>1, <1>2, <1>3 DEF ListenersWait

THEOREM ListenersWaitIsKept == RagInv /\ [Next]_vars => ListenersWait'
<1> SUFFICES ASSUME RagInv, [Next]_vars PROVE ListenersWait'
  OBVIOUS
<1>0. TypeOK /\ OneLiveRun /\ ListenersWait BY DEF RagInv
<1> USE DEF runVars, serviceVars, requestVars
<1>1. ASSUME NEW q \in Requests, InitializeRequest(q) \/ CheckRagStatus(q) PROVE ListenersWait'
  <2>1. /\ UNCHANGED <<registry, worker, listeners, joined>>
        /\ request[q] \in {"new", "checking"}
        /\ \E s \in {"checking", "indexing", "done"} : request' = [request EXCEPT ![q] = s]
    BY <1>1 DEF InitializeRequest, CheckRagStatus, StatusUnreadable, Ends
  <2>2. ASSUME NEW x \in Requests
        PROVE  /\ request[x] = "waiting" => request'[x] = "waiting"
               /\ request'[x] \in {"new", "checking", "indexing"} =>
                    request[x] \in {"new", "checking", "indexing"}
    BY <1>0, <2>1 DEF TypeOK
  <2> QED BY <1>0, <2>1, <2>2 DEF ListenersWait
<1>2. ASSUME NEW q \in Requests, StartRun(q) PROVE ListenersWait'
  <2>1. worker[q] = "none" /\ listeners[q] = {}
    BY <1>0, <1>2 DEF StartRun, ListenersWait
  <2>2. /\ registry' = q /\ worker' = [worker EXCEPT ![q] = "claiming"]
        /\ joined' = [joined EXCEPT ![q] = q] /\ request' = [request EXCEPT ![q] = "waiting"]
        /\ listeners' = [listeners EXCEPT ![q] = @ \cup {q}]
    BY <1>2 DEF StartRun, Joins
  <2> QED BY <1>0, <2>1, <2>2 DEF ListenersWait, TypeOK
<1>3. ASSUME NEW q \in Requests, JoinRun(q) PROVE ListenersWait'
  <2>1. registry \in Requests /\ worker[registry] \in Live
    BY <1>0, <1>3 DEF JoinRun, OneLiveRun, TypeOK
  <2>2. /\ UNCHANGED <<registry, worker>>
        /\ joined' = [joined EXCEPT ![q] = registry] /\ request' = [request EXCEPT ![q] = "waiting"]
        /\ listeners' = [listeners EXCEPT ![registry] = @ \cup {q}]
    BY <1>3 DEF JoinRun, Joins
  <2>3. worker[registry] # "none" BY <2>1 DEF Live
  <2> QED BY <1>0, <2>1, <2>2, <2>3 DEF ListenersWait, TypeOK
<1>4. ASSUME NEW q \in Requests, WaitForRemoteTask(q) PROVE ListenersWait'
  <2>1. /\ UNCHANGED <<registry, worker, listeners, joined>>
        /\ request[q] = "indexing" /\ request' = [request EXCEPT ![q] = "remote"]
    BY <1>4 DEF WaitForRemoteTask
  <2> QED BY <1>0, <2>1 DEF ListenersWait, TypeOK
<1>5. ASSUME NEW q \in Requests,
             \/ WorkerAnswers(q) \/ PollRemote(q) \/ VerifyCompletion(q) \/ TimeOut(q)
             \/ PollFails(q) \/ PublicationFails(q) \/ CancelRequest(q)
      PROVE  ListenersWait'
  <2>1. \E s \in {"verifying", "done"} : request' = [request EXCEPT ![q] = s]
    BY <1>5 DEF WorkerAnswers, PollRemote, VerifyCompletion, TimeOut, WaitTimesOut, RemoteTimesOut,
         PollFails, PublicationFails, CancelRequest, StatusUnreadable, Ends
  <2>2. UNCHANGED <<registry, worker>>
    BY <1>5 DEF WorkerAnswers, PollRemote, VerifyCompletion, TimeOut, WaitTimesOut, RemoteTimesOut,
         PollFails, PublicationFails, CancelRequest
  <2>3. request[q] \in {"waiting", "remote", "verifying"}
    BY <1>5 DEF WorkerAnswers, PollRemote, VerifyCompletion, TimeOut, WaitTimesOut, RemoteTimesOut,
         PollFails, PublicationFails, CancelRequest, Notified, Waiting
  <2>4. Unsubscribes(q) \/ (request[q] # "waiting" /\ UNCHANGED <<listeners, joined>>)
    BY <1>5 DEF WorkerAnswers, PollRemote, VerifyCompletion, TimeOut, WaitTimesOut, RemoteTimesOut,
         PollFails, PublicationFails, CancelRequest
  <2>5. /\ request'[q] \notin {"new", "checking", "indexing"}
        /\ \A x \in Requests \ {q} : request'[x] = request[x]
    BY <1>0, <2>1 DEF TypeOK
  <2> QED BY <1>0, <2>2, <2>3, <2>4, <2>5, LeavingListeners
<1>6. ASSUME NEW w \in Requests, WorkerStep(w) PROVE ListenersWait'
  <2>1. CASE EndRun(w)
    BY <1>0, <2>1 DEF EndRun, ListenersWait, TypeOK
  <2>2. CASE ~EndRun(w)
    <3>1. \A x \in Requests : worker'[x] = "none" <=> worker[x] = "none"
      BY <1>0, <1>6, <2>2, WorkerStaysLive DEF Live
    <3> QED BY <1>0, <1>6, <2>2, <3>1, WorkerStaysLive, SameListeners
  <2> QED BY <2>1, <2>2
<1>7. CASE Crash
  BY <1>0, <1>7 DEF Crash, ListenersWait, TypeOK, Live
<1>8. ASSUME NEW w \in Requests, CancelWorker(w) PROVE ListenersWait'
  BY <1>0, <1>8, SameListeners DEF CancelWorker, Finishes, Live, TypeOK
<1>9. CASE UNCHANGED <<registry, worker, listeners, request, joined>>
  BY <1>0, <1>9, SameListeners
<1> QED BY <1>1, <1>2, <1>3, <1>4, <1>5, <1>6, <1>7, <1>8, <1>9
        DEF Next, RequestStep, Disturbance, SearchEnds, LeaseEnds, vars

-----------------------------------------------------------------------------
(* Claims: what the service leases to a run and what the run makes of it.   *)

ClaimsInv == LeasesIndex /\ ClaimsAreHeld /\ ClaimsAreOpen /\ ReadyIsIndexed

\* A step that changes none of it, and starts or ends no work, keeps it.
LEMMA SameClaims ==
  ASSUME ClaimsInv, UNCHANGED <<paper, holder, content, worker, batch, results, verdict>>
  PROVE  ClaimsInv'
BY DEF ClaimsInv, LeasesIndex, ClaimsAreHeld, ClaimsAreOpen, ReadyIsIndexed, Held

\* A run at work is the only one alive.
LEMMA OneAtWork ==
  ASSUME OneLiveRun, NEW w \in Requests, worker[w] \in Live,
         NEW x \in Requests, worker[x] \in AtWork
  PROVE  x = w
BY DEF OneLiveRun, AtWork, Live

\* The service's part of a claim, and of the end of a lease.
LEMMA LeaseClaim ==
  ASSUME ServiceOK, LeasesIndex, ReadyIsIndexed, NEW w \in Requests, NEW S \in SUBSET Papers,
         ServiceClaims(w, S), UNCHANGED content
  PROVE  /\ LeasesIndex' /\ ReadyIsIndexed'
         /\ \A x \in Requests : x # w => Held(x)' \subseteq Held(x)
         /\ Held(w)' \subseteq Held(w) \cup S
         /\ \A p \in Papers : paper'[p] = IF p \in S THEN "indexing" ELSE paper[p]
BY DEF ServiceOK, LeasesIndex, ReadyIsIndexed, ServiceClaims, Held

\* The service's part of a completion.
LEMMA LeaseComplete ==
  ASSUME ServiceOK, LeasesIndex, ReadyIsIndexed, NEW w \in Requests, NEW outcome,
         \A p \in batch[w] : outcome[p] = "ready" => content[p] = "whole",
         ServiceCompletes(w, outcome), UNCHANGED content
  PROVE  /\ LeasesIndex' /\ ReadyIsIndexed'
         /\ \A x \in Requests : Held(x)' \subseteq Held(x)
         /\ Held(w)' = {}
BY DEF ServiceOK, LeasesIndex, ReadyIsIndexed, ServiceCompletes, Held

\* A worker that goes on without touching its claim, or finishes it.
LEMMA WorkGoesOn ==
  ASSUME TypeOK, OneLiveRun, ClaimsInv, NEW w \in Requests, worker[w] \in Live,
         \/ /\ worker[w] \in AtWork /\ worker'[w] \in AtWork /\ UNCHANGED verdict
            /\ worker'[w] = "completing" => \A p \in batch[w] : results[w][p] # "none"
         \/ /\ worker'[w] = "finishing"
            /\ Held(w) = {} \/ verdict'[w] \in Unsure
            /\ \A x \in Requests : x # w => verdict'[x] = verdict[x],
         \A x \in Requests : x # w => worker'[x] = worker[x],
         UNCHANGED <<paper, holder, content, batch, results>>
  PROVE  ClaimsInv'
<1>1. LeasesIndex' /\ ReadyIsIndexed'
  BY DEF ClaimsInv, LeasesIndex, ReadyIsIndexed
<1>2. ClaimsAreHeld'
  <2>1. ASSUME NEW x \in Requests, x # w
        PROVE  worker'[x] = worker[x] /\ verdict'[x] = verdict[x] /\ Held(x)' = Held(x)
    BY <2>1 DEF Held
  <2>2. Held(w)' = Held(w) BY DEF Held
  <2>3. ASSUME NEW x \in Requests, x # w
        PROVE  /\ worker'[x] \in AtWork => batch'[x] # {}
               /\ Held(x)' # {} =>
                    \/ worker'[x] \in AtWork /\ Held(x)' \subseteq batch'[x]
                    \/ worker'[x] \in {"finishing", "ended"} /\ verdict'[x] \in Unsure
                    \/ worker'[x] = "dead"
    BY <2>1, <2>3 DEF ClaimsInv, ClaimsAreHeld
  <2>4. /\ worker'[w] \in AtWork => batch'[w] # {}
        /\ Held(w)' # {} =>
             \/ worker'[w] \in AtWork /\ Held(w)' \subseteq batch'[w]
             \/ worker'[w] \in {"finishing", "ended"} /\ verdict'[w] \in Unsure
             \/ worker'[w] = "dead"
    BY <2>2 DEF ClaimsInv, ClaimsAreHeld, AtWork
  <2> QED BY <2>3, <2>4 DEF ClaimsAreHeld
<1>3. ClaimsAreOpen'
  BY OneAtWork DEF ClaimsInv, ClaimsAreOpen, AtWork
<1> QED BY <1>1, <1>2, <1>3 DEF ClaimsInv

\* Results recorded under the claim of a worker, for papers of the claim.
LEMMA RecordsClaims ==
  ASSUME TypeOK, OneLiveRun, ClaimsInv, NEW w \in Requests, worker[w] \in AtWork,
         NEW outcome, Records(w, outcome),
         worker'[w] \in AtWork \ {"completing"},
         \A x \in Requests : x # w => worker'[x] = worker[x],
         \A p \in DOMAIN outcome : outcome[p] = "ready" => content'[p] = "whole",
         \A p \in Papers : content'[p] # content[p] => content'[p] = "whole" \/ p \in batch[w],
         \A p \in Papers : content'[p] # content[p] => content'[p] = "whole" \/ p \in DOMAIN outcome,
         UNCHANGED <<paper, holder, batch, verdict>>
  PROVE  ClaimsInv'
<1>1. LeasesIndex' /\ ReadyIsIndexed'
  BY DEF ClaimsInv, LeasesIndex, ReadyIsIndexed, ClaimsAreOpen
<1>2. ClaimsAreHeld'
  BY DEF ClaimsInv, ClaimsAreHeld, Held, AtWork
<1>3. ASSUME NEW p \in batch[w]
      PROVE  /\ paper'[p] \in {"pending", "indexing"}
             /\ results'[w][p] = "ready" => content'[p] = "whole"
  <2>1. p \in Papers BY DEF TypeOK
  <2>2. results'[w][p] = IF p \in DOMAIN outcome THEN outcome[p] ELSE results[w][p]
    BY <2>1 DEF Records, TypeOK
  <2>3. /\ paper[p] \in {"pending", "indexing"}
        /\ results[w][p] = "ready" => content[p] = "whole"
    BY DEF ClaimsInv, ClaimsAreOpen
  <2> QED BY <2>1, <2>2, <2>3
<1>4. ClaimsAreOpen'
  <2>1. ASSUME NEW x \in Requests, worker'[x] \in AtWork PROVE x = w
    BY <2>1, OneAtWork DEF AtWork, Live
  <2> QED BY <1>3, <2>1 DEF ClaimsAreOpen, AtWork
<1> QED BY <1>1, <1>2, <1>4 DEF ClaimsInv

LEMMA WorkerClaims ==
  ASSUME RagInv, NEW w \in Requests, WorkerStep(w)
  PROVE  ClaimsInv'
<1>0. TypeOK /\ OneLiveRun /\ ClaimsInv
  BY DEF RagInv, ClaimsInv
<1>a. ServiceOK /\ RunsOK
  BY <1>0, TypeSplit
<1> USE DEF serviceVars
<1>1. CASE ClaimPapers(w)
  <2>1. PICK S \in SUBSET Papers : ServiceClaims(w, S) /\ batch' = [batch EXCEPT ![w] = S]
    BY <1>1 DEF ClaimPapers
  <2>2. /\ worker[w] = "claiming" /\ worker' = [worker EXCEPT ![w] = "preparing"]
        /\ results' = [results EXCEPT ![w] = None(Papers)]
        /\ UNCHANGED <<content, verdict>>
    BY <1>1 DEF ClaimPapers
  <2>3. /\ LeasesIndex' /\ ReadyIsIndexed'
        /\ \A x \in Requests : x # w => Held(x)' \subseteq Held(x)
        /\ Held(w)' \subseteq Held(w) \cup S
        /\ \A p \in Papers : paper'[p] = IF p \in S THEN "indexing" ELSE paper[p]
    BY <1>0, <1>a, <2>1, <2>2, LeaseClaim DEF ClaimsInv
  <2>4. Held(w) = {} BY <1>0, <2>2 DEF ClaimsInv, ClaimsAreHeld, AtWork
  <2>5. S # {} BY <2>1 DEF ServiceClaims
  <2>6. ClaimsAreHeld'
    <3>1. worker'[w] = "preparing" /\ batch'[w] = S BY <1>a, <2>1, <2>2 DEF RunsOK
    <3>2. \A x \in Requests : x # w => worker'[x] = worker[x] /\ batch'[x] = batch[x]
      BY <1>a, <2>1, <2>2 DEF RunsOK
    <3>3. ASSUME NEW x \in Requests, x # w
          PROVE  /\ worker'[x] \in AtWork => batch'[x] # {}
                 /\ Held(x)' # {} =>
                      \/ worker'[x] \in AtWork /\ Held(x)' \subseteq batch'[x]
                      \/ worker'[x] \in {"finishing", "ended"} /\ verdict'[x] \in Unsure
                      \/ worker'[x] = "dead"
      BY <1>0, <2>2, <2>3, <3>2, <3>3 DEF ClaimsInv, ClaimsAreHeld
    <3>4. worker'[w] \in AtWork /\ batch'[w] # {} /\ Held(w)' \subseteq batch'[w]
      BY <2>3, <2>4, <2>5, <3>1 DEF AtWork
    <3> QED BY <3>3, <3>4 DEF ClaimsAreHeld
  <2>7. ClaimsAreOpen'
    <3>1. ASSUME NEW x \in Requests, worker'[x] \in AtWork PROVE x = w
      <4>1. x # w => worker[x] \in AtWork BY <1>a, <2>2, <3>1 DEF RunsOK
      <4> QED BY <1>0, <2>2, <4>1, OneAtWork DEF Live
    <3>2. batch'[w] = S /\ worker'[w] = "preparing" /\ results'[w] = None(Papers)
      BY <1>a, <2>1, <2>2 DEF RunsOK
    <3>3. \A p \in S : paper'[p] = "indexing" /\ results'[w][p] = "none"
      BY <2>3, <3>2 DEF None
    <3> QED BY <3>1, <3>2, <3>3 DEF ClaimsAreOpen
  <2> QED BY <2>3, <2>6, <2>7 DEF ClaimsInv
<1>2. CASE ClaimNothing(w)
  <2>1. /\ worker[w] = "claiming" /\ UNCHANGED <<paper, holder, content, batch, results>>
        /\ worker' = [worker EXCEPT ![w] = "finishing"]
        /\ \E code : verdict' = [verdict EXCEPT ![w] = code]
    BY <1>2 DEF ClaimNothing, ServiceHasNothing, Finishes
  <2>2. Held(w) = {} BY <1>0, <2>1 DEF ClaimsInv, ClaimsAreHeld, AtWork
  <2> QED BY <1>0, <1>a, <2>1, <2>2, WorkGoesOn DEF RunsOK, Live
<1>3. CASE ClaimFails(w)
  <2>1. /\ worker[w] = "claiming" /\ UNCHANGED <<content, batch, results>>
        /\ worker' = [worker EXCEPT ![w] = "finishing"]
        /\ verdict' = [verdict EXCEPT ![w] = "RAG_CLAIM_FAILED"]
    BY <1>3 DEF ClaimFails, Finishes
  <2>2. CASE UNCHANGED serviceVars
    BY <1>0, <1>a, <2>1, <2>2, WorkGoesOn DEF RunsOK, Live, Unsure
  <2>3. ASSUME NEW S \in SUBSET Papers, ServiceClaims(w, S) PROVE ClaimsInv'
    <3>1. /\ LeasesIndex' /\ ReadyIsIndexed'
          /\ \A x \in Requests : x # w => Held(x)' \subseteq Held(x)
          /\ \A p \in Papers : paper'[p] = IF p \in S THEN "indexing" ELSE paper[p]
      BY <1>0, <1>a, <2>1, <2>3, LeaseClaim DEF ClaimsInv
    <3>2. /\ worker'[w] = "finishing" /\ verdict'[w] \in Unsure
          /\ \A x \in Requests : x # w => worker'[x] = worker[x] /\ verdict'[x] = verdict[x]
      BY <1>a, <2>1 DEF RunsOK, Unsure
    <3>3. ClaimsAreHeld'
      <4>1. ASSUME NEW x \in Requests, x # w
            PROVE  /\ worker'[x] \in AtWork => batch'[x] # {}
                   /\ Held(x)' # {} =>
                        \/ worker'[x] \in AtWork /\ Held(x)' \subseteq batch'[x]
                        \/ worker'[x] \in {"finishing", "ended"} /\ verdict'[x] \in Unsure
                        \/ worker'[x] = "dead"
        BY <1>0, <2>1, <3>1, <3>2, <4>1 DEF ClaimsInv, ClaimsAreHeld
      <4>2. worker'[w] \notin AtWork BY <3>2 DEF AtWork
      <4> QED BY <3>2, <4>1, <4>2 DEF ClaimsAreHeld
    <3>4. ClaimsAreOpen'
      <4>1. ASSUME NEW x \in Requests PROVE worker'[x] \notin AtWork
        <5>1. x # w => worker[x] \notin AtWork BY <1>0, <2>1, OneAtWork DEF Live
        <5> QED BY <3>2, <5>1 DEF AtWork
      <4> QED BY <4>1 DEF ClaimsAreOpen
    <3> QED BY <3>1, <3>3, <3>4 DEF ClaimsInv
  <2> QED BY <1>3, <2>2, <2>3 DEF ClaimFails
<1>4. CASE PreparePapers(w)
  <2>1. PICK S \in SUBSET batch[w] :
          \E outcome \in [S -> {"skipped", "failed"}] : Records(w, outcome)
    BY <1>4 DEF PreparePapers
  <2>2. PICK outcome \in [S -> {"skipped", "failed"}] : Records(w, outcome)
    BY <2>1
  <2>3. /\ worker[w] = "preparing" /\ worker' = [worker EXCEPT ![w] = "parsing"]
        /\ UNCHANGED <<paper, holder, content, batch, verdict>>
    BY <1>4 DEF PreparePapers
  <2>4. \A p \in DOMAIN outcome : outcome[p] # "ready"
    BY <2>2
  <2>5. /\ worker[w] \in AtWork /\ worker'[w] \in AtWork \ {"completing"}
        /\ \A x \in Requests : x # w => worker'[x] = worker[x]
    BY <1>a, <2>3 DEF RunsOK, AtWork
  <2> HIDE DEF ClaimsInv
  <2> QED BY <1>0, <2>2, <2>3, <2>4, <2>5, RecordsClaims
<1>5. CASE ParseFiles(w)
  <2>1. PICK bad \in SUBSET Unrecorded(w) : Records(w, [p \in bad |-> "failed"])
    BY <1>5 DEF ParseFiles, Unparsed
  <2>2. /\ worker[w] = "parsing" /\ worker' = [worker EXCEPT ![w] = "indexing"]
        /\ UNCHANGED <<paper, holder, content, batch, verdict>>
    BY <1>5 DEF ParseFiles
  <2>3. /\ worker[w] \in AtWork /\ worker'[w] \in AtWork \ {"completing"}
        /\ \A x \in Requests : x # w => worker'[x] = worker[x]
    BY <1>a, <2>2 DEF RunsOK, AtWork
  <2>4. \A p \in bad : [x \in bad |-> "failed"][p] # "ready"
    OBVIOUS
  <2> QED BY <1>0, <2>1, <2>2, <2>3, <2>4, RecordsClaims
<1>6. ASSUME NEW p \in Papers, IndexPaper(w, p) PROVE ClaimsInv'
  <2>1. /\ worker[w] = "indexing" /\ p \in batch[w]
        /\ UNCHANGED <<paper, holder, worker, batch, verdict>>
    BY <1>6 DEF IndexPaper, Unrecorded
  <2>2. PICK r \in {"ready", "skipped", "failed", "unnamed"} :
          /\ Records(w, [x \in {p} |-> r])
          /\ \/ content' = [content EXCEPT ![p] = "whole"]
             \/ r # "ready" /\ content' = content
             \/ r # "ready" /\ content' = [content EXCEPT ![p] = "partial"]
    BY <1>6 DEF IndexPaper, BuildIndex, BuildFails
  <2> DEFINE outcome == [x \in {p} |-> r]
  <2>3. DOMAIN outcome = {p} /\ outcome[p] = r
    OBVIOUS
  <2>4. /\ r = "ready" => content'[p] = "whole"
        /\ \A x \in Papers : x # p => content'[x] = content[x]
    BY <1>a, <2>2 DEF ServiceOK
  <2>5. worker[w] \in AtWork /\ worker'[w] \in AtWork \ {"completing"}
    BY <2>1 DEF AtWork
  <2> HIDE DEF outcome
  <2> QED BY <1>0, <2>1, <2>2, <2>3, <2>4, <2>5, RecordsClaims DEF outcome
<1>7. CASE ProcessingEnds(w)
  <2>1. /\ worker[w] = "indexing" /\ worker' = [worker EXCEPT ![w] = "completing"]
        /\ Unrecorded(w) = {} /\ UNCHANGED <<paper, holder, content, batch, results, verdict>>
    BY <1>7 DEF ProcessingEnds
  <2> QED BY <1>0, <1>a, <2>1, WorkGoesOn DEF RunsOK, AtWork, Live, Unrecorded
<1>8. CASE ProcessingRaises(w)
  <2>1. /\ worker[w] \in {"preparing", "parsing"}
        /\ worker' = [worker EXCEPT ![w] = "completingFailure"]
        /\ UNCHANGED <<paper, holder, content, batch, results, verdict>>
    BY <1>8 DEF ProcessingRaises
  <2> QED BY <1>0, <1>a, <2>1, WorkGoesOn DEF RunsOK, AtWork, Live
<1>9. ASSUME CompleteBatch(w) \/ CompleteFailedClaim(w) \/
             (CompleteFails(w) /\ Sendable(w) /\ ServiceCompletes(w, Reported(w)))
      PROVE  ClaimsInv'
  <2>1. /\ worker[w] \in {"completing", "completingFailure"} /\ Sendable(w)
        /\ ServiceCompletes(w, Reported(w)) /\ UNCHANGED content
    BY <1>9 DEF CompleteBatch, CompleteFailedClaim, CompleteFails, Sendable
  <2>2. \A p \in batch[w] : Reported(w)[p] = "ready" => content[p] = "whole"
    BY <1>0, <1>a, <2>1 DEF Reported, ClaimsInv, ClaimsAreOpen, AtWork, RunsOK
  <2>3. /\ LeasesIndex' /\ ReadyIsIndexed'
        /\ \A x \in Requests : Held(x)' \subseteq Held(x)
        /\ Held(w)' = {}
    BY <1>0, <1>a, <2>1, <2>2, LeaseComplete DEF ClaimsInv
  <2>4. /\ worker'[w] \in {"claiming", "finishing"}
        /\ \A x \in Requests : x # w =>
             worker'[x] = worker[x] /\ batch'[x] = batch[x] /\ verdict'[x] = verdict[x]
    <3>1. /\ \E s \in {"claiming", "finishing"} : worker' = [worker EXCEPT ![w] = s]
          /\ verdict' = verdict \/ \E code : verdict' = [verdict EXCEPT ![w] = code]
          /\ batch' = batch \/ batch' = [batch EXCEPT ![w] = {}]
      BY <1>9 DEF CompleteBatch, CompleteFailedClaim, CompleteFails, Finishes
    <3> QED BY <1>a, <3>1 DEF RunsOK
  <2>5. ASSUME NEW x \in Requests PROVE worker'[x] \notin AtWork
    <3>1. x # w => worker[x] \notin AtWork BY <1>0, <2>1, OneAtWork DEF Live
    <3> QED BY <2>4, <3>1 DEF AtWork
  <2>6. ASSUME NEW x \in Requests, Held(x)' # {}
        PROVE  \/ worker'[x] \in {"finishing", "ended"} /\ verdict'[x] \in Unsure
               \/ worker'[x] = "dead"
    <3>1. x # w /\ Held(x) # {} BY <2>3, <2>6
    <3>2. worker[x] \notin AtWork BY <2>4, <2>5, <3>1
    <3> QED BY <1>0, <2>4, <3>1, <3>2 DEF ClaimsInv, ClaimsAreHeld
  <2> QED BY <2>3, <2>5, <2>6 DEF ClaimsInv, ClaimsAreHeld, ClaimsAreOpen
<1>10. CASE CompleteFails(w) /\ UNCHANGED serviceVars
  <2>1. /\ worker[w] \in {"completing", "completingFailure"}
        /\ worker' = [worker EXCEPT ![w] = "finishing"]
        /\ verdict' = [verdict EXCEPT ![w] = "RAG_BATCH_COMPLETE_FAILED"]
        /\ UNCHANGED <<paper, holder, content, batch, results>>
    BY <1>10 DEF CompleteFails, Finishes
  <2> QED BY <1>0, <1>a, <2>1, WorkGoesOn DEF RunsOK, Live, Unsure
<1>11. CASE EndRun(w)
  <2>1. /\ worker[w] = "finishing" /\ worker' = [worker EXCEPT ![w] = "ended"]
        /\ batch' = [batch EXCEPT ![w] = {}] /\ results' = [results EXCEPT ![w] = None(Papers)]
        /\ UNCHANGED <<paper, holder, content, verdict>>
    BY <1>11 DEF EndRun
  <2>2. ASSUME NEW x \in Requests
        PROVE  /\ worker'[x] = IF x = w THEN "ended" ELSE worker[x]
               /\ worker[x] \notin AtWork /\ worker'[x] \notin AtWork
    BY <1>0, <1>a, <2>1, OneAtWork DEF RunsOK, Live, AtWork
  <2>3. LeasesIndex' /\ ReadyIsIndexed'
    BY <1>0, <2>1 DEF ClaimsInv, LeasesIndex, ReadyIsIndexed
  <2>4. ClaimsAreHeld'
    BY <1>0, <2>1, <2>2 DEF ClaimsInv, ClaimsAreHeld, Held
  <2> QED BY <2>2, <2>3, <2>4 DEF ClaimsInv, ClaimsAreOpen
<1> QED BY <1>1, <1>2, <1>3, <1>4, <1>5, <1>6, <1>7, <1>8, <1>9, <1>10, <1>11
        DEF WorkerStep, CompleteFails

THEOREM ClaimsAreKept == RagInv /\ [Next]_vars => ClaimsInv'
<1> SUFFICES ASSUME RagInv, [Next]_vars PROVE ClaimsInv'
  OBVIOUS
<1>0. TypeOK /\ OneLiveRun /\ ListenersWait /\ ClaimsInv
  BY DEF RagInv, ClaimsInv
<1>a. ServiceOK /\ RunsOK
  BY <1>0, TypeSplit
<1> USE DEF serviceVars, runVars
<1>1. ASSUME NEW q \in Requests, StartRun(q) PROVE ClaimsInv'
  <2>1. worker[q] = "none"
    BY <1>0, <1>1 DEF StartRun, ListenersWait
  <2>2. /\ worker' = [worker EXCEPT ![q] = "claiming"]
        /\ UNCHANGED <<paper, holder, content, batch, results, verdict>>
    BY <1>1 DEF StartRun
  <2>3. Held(q) = {}
    BY <1>0, <2>1 DEF ClaimsInv, ClaimsAreHeld, AtWork
  <2>4. ASSUME NEW x \in Requests
        PROVE  /\ x # q => worker'[x] = worker[x]
               /\ worker'[q] \notin AtWork /\ Held(x)' = Held(x)
    BY <1>a, <2>2 DEF RunsOK, AtWork, Held
  <2>5. LeasesIndex' /\ ReadyIsIndexed'
    BY <1>0, <2>2 DEF ClaimsInv, LeasesIndex, ReadyIsIndexed
  <2>6. ClaimsAreHeld'
    BY <1>0, <2>2, <2>3, <2>4 DEF ClaimsInv, ClaimsAreHeld
  <2>7. ClaimsAreOpen'
    BY <1>0, <2>2, <2>4 DEF ClaimsInv, ClaimsAreOpen
  <2> QED BY <2>5, <2>6, <2>7 DEF ClaimsInv
<1>2. ASSUME NEW q \in Requests, RequestStep(q) \/ TimeOut(q), ~StartRun(q) PROVE ClaimsInv'
  BY <1>0, <1>2, SameClaims DEF RequestStep, TimeOut, InitializeRequest, CheckRagStatus, JoinRun,
     WaitForRemoteTask, WorkerAnswers, PollRemote, VerifyCompletion, WaitTimesOut, RemoteTimesOut
<1>3. ASSUME NEW w \in Requests, WorkerStep(w) PROVE ClaimsInv'
  BY <1>3, WorkerClaims
<1>4. ASSUME NEW p \in Papers, LeaseEnds(p) PROVE ClaimsInv'
  <2>1. /\ paper[p] = "indexing" /\ paper' = [paper EXCEPT ![p] = "pending"]
        /\ holder' = [holder EXCEPT ![p] = NoRequest]
        /\ UNCHANGED <<content, worker, batch, results, verdict>>
    BY <1>4 DEF LeaseEnds
  <2>2. \A w \in Requests : Held(w)' \subseteq Held(w)
    BY <1>a, <2>1 DEF ServiceOK, Held
  <2>3. \A x \in Papers : paper'[x] = paper[x] \/ (x = p /\ paper'[x] = "pending")
    BY <1>a, <2>1 DEF ServiceOK
  <2>4. LeasesIndex' /\ ReadyIsIndexed'
    BY <1>0, <1>a, <2>1, <2>3 DEF ServiceOK, ClaimsInv, LeasesIndex, ReadyIsIndexed
  <2>5. ClaimsAreHeld'
    BY <1>0, <2>1, <2>2 DEF ClaimsInv, ClaimsAreHeld
  <2>6. ClaimsAreOpen'
    BY <1>0, <1>a, <2>1, <2>3 DEF RunsOK, ClaimsInv, ClaimsAreOpen
  <2> QED BY <2>4, <2>5, <2>6 DEF ClaimsInv
<1>5. CASE Crash
  <2>1. /\ worker' = [w \in Requests |-> IF worker[w] \in Live THEN "dead" ELSE worker[w]]
        /\ UNCHANGED <<paper, holder, content, verdict>>
    BY <1>5 DEF Crash
  <2>2. ASSUME NEW x \in Requests
        PROVE  /\ worker'[x] \notin AtWork /\ Held(x)' = Held(x)
               /\ worker'[x] = "dead" \/ (worker'[x] = worker[x] /\ worker[x] \notin AtWork)
    BY <2>1 DEF Live, AtWork, Held
  <2>3. LeasesIndex' /\ ReadyIsIndexed'
    BY <1>0, <2>1 DEF ClaimsInv, LeasesIndex, ReadyIsIndexed
  <2>4. ClaimsAreHeld'
    BY <1>0, <2>1, <2>2 DEF ClaimsInv, ClaimsAreHeld
  <2> QED BY <2>2, <2>3, <2>4 DEF ClaimsInv, ClaimsAreOpen
<1>6. ASSUME NEW w \in Requests, CancelWorker(w) PROVE ClaimsInv'
  <2>1. /\ worker[w] \in Live /\ worker' = [worker EXCEPT ![w] = "finishing"]
        /\ verdict' = [verdict EXCEPT ![w] = "RAG_WORKER_CANCELLED"]
        /\ UNCHANGED <<paper, holder, content, batch, results>>
    BY <1>6 DEF CancelWorker, Finishes
  <2> QED BY <1>0, <1>a, <2>1, WorkGoesOn DEF RunsOK, Unsure
<1>7. ASSUME \/ SearchEnds
             \/ \E q \in Requests : PollFails(q) \/ PublicationFails(q) \/ CancelRequest(q)
             \/ UNCHANGED vars
      PROVE  ClaimsInv'
  BY <1>0, <1>7, SameClaims DEF SearchEnds, PollFails, PublicationFails, CancelRequest, vars
<1> QED BY <1>1, <1>2, <1>3, <1>4, <1>5, <1>6, <1>7 DEF Next, Disturbance

-----------------------------------------------------------------------------
(* What holds in every state.                                               *)

LEMMA InitHolds == Init => RagInv
<1> SUFFICES ASSUME Init PROVE RagInv
  OBVIOUS
<1>1. Zero \in [Keys -> Nat] BY DEF Zero
<1>2. TypeOK
  <2>1. ServiceOK BY DEF Init, ServiceOK, TaskStates, PaperStates, Outcomes
  <2>2. RunsOK BY DEF Init, RunsOK, None, Results
  <2>3. CountsOK BY <1>1 DEF Init, CountsOK
  <2>4. RequestsOK BY DEF Init, RequestsOK, None
  <2> QED BY <2>1, <2>2, <2>3, <2>4, TypeSplit
<1>3. \A w \in Requests : Held(w) = {} /\ worker[w] = "none"
  BY DEF Init, Held, None
<1>4. OneLiveRun BY <1>3 DEF OneLiveRun, Init, Live
<1>5. ListenersWait BY <1>3 DEF ListenersWait, Init
<1>6. LeasesIndex /\ ReadyIsIndexed BY DEF Init, LeasesIndex, ReadyIsIndexed
<1>7. ClaimsAreHeld /\ ClaimsAreOpen BY <1>3 DEF ClaimsAreHeld, ClaimsAreOpen, AtWork
<1> QED BY <1>2, <1>4, <1>5, <1>6, <1>7 DEF RagInv

(* RagInv holds in every state: one live worker per task and process,      *)
(* listeners only on the run they wait for, and claims, leases, results    *)
(* and index that agree, through every fault of the services, every        *)
(* cancellation and every crash of the process.                            *)
THEOREM RagInvHolds == Spec => []RagInv
<1>1. RagInv /\ [Next]_vars => RagInv'
  BY TypesAreKept, OneLiveRunIsKept, ListenersWaitIsKept, ClaimsAreKept DEF RagInv, ClaimsInv
<1> QED BY InitHolds, <1>1, PTL DEF Spec

(* No worker that ended keeps a paper of the service, unless a call to the *)
(* service went wrong or it was cancelled: claims do not leak.             *)
THEOREM NoClaimLeaks == Spec => []EndedRunHoldsNothing
<1>1. RagInv => EndedRunHoldsNothing
  BY DEF RagInv, ClaimsAreHeld, EndedRunHoldsNothing, AtWork, Unsure
<1> QED BY <1>1, RagInvHolds, PTL

\* A task whose papers are all settled stays as it is.
LEMMA CompletionIsFinal ==
  ASSUME RagInv, CanGenerateReview, [Next]_vars PROVE CanGenerateReview'
<1>0. TypeOK /\ LeasesIndex /\ ClaimsAreHeld
  BY DEF RagInv
<1>1. /\ task = "RAG_COMPLETED" /\ ~IsIndexable
      /\ \A p \in Papers : paper[p] \in {"ready", "skipped"}
  BY DEF CanGenerateReview, IsRagComplete, IsIndexable
<1>2. ASSUME NEW w \in Requests, worker[w] \in AtWork, NEW outcome PROVE ~ServiceCompletes(w, outcome)
  <2>1. batch[w] # {} BY <1>0, <1>2 DEF ClaimsAreHeld
  <2>2. Held(w) = {} BY <1>0, <1>1 DEF Held, LeasesIndex, TypeOK
  <2> QED BY <2>1, <2>2 DEF ServiceCompletes
<1>3. UNCHANGED <<task, paper>>
  <2> USE DEF serviceVars
  <2>1. ASSUME NEW q \in Requests, RequestStep(q) \/ TimeOut(q) PROVE UNCHANGED <<task, paper>>
    BY <2>1 DEF RequestStep, TimeOut, InitializeRequest, CheckRagStatus, StartRun, JoinRun,
       WaitForRemoteTask, WorkerAnswers, PollRemote, VerifyCompletion, WaitTimesOut, RemoteTimesOut
  <2>2. ASSUME NEW w \in Requests, WorkerStep(w) PROVE UNCHANGED <<task, paper>>
    <3>1. CASE ClaimPapers(w) BY <1>1, <3>1 DEF ClaimPapers, ServiceClaims
    <3>2. CASE ClaimNothing(w) BY <1>1, <3>2 DEF ClaimNothing, ServiceHasNothing
    <3>3. CASE ClaimFails(w) BY <1>1, <3>3 DEF ClaimFails, ServiceClaims
    <3>4. CASE CompleteBatch(w) BY <1>2, <3>4 DEF CompleteBatch, AtWork
    <3>5. CASE CompleteFailedClaim(w) BY <1>2, <3>5 DEF CompleteFailedClaim, AtWork
    <3>6. CASE CompleteFails(w) BY <1>2, <3>6 DEF CompleteFails, AtWork
    <3>7. CASE \/ PreparePapers(w) \/ ParseFiles(w) \/ \E p \in Papers : IndexPaper(w, p)
               \/ ProcessingEnds(w) \/ ProcessingRaises(w) \/ EndRun(w)
      BY <3>7 DEF PreparePapers, ParseFiles, IndexPaper, ProcessingEnds, ProcessingRaises, EndRun
    <3> QED BY <2>2, <3>1, <3>2, <3>3, <3>4, <3>5, <3>6, <3>7 DEF WorkerStep
  <2>3. CASE Disturbance
    BY <1>1, <2>3 DEF Disturbance, SearchEnds, Crash, LeaseEnds, PollFails, PublicationFails,
       CancelRequest, CancelWorker
  <2>4. CASE UNCHANGED vars BY <2>4 DEF vars
  <2> QED BY <2>1, <2>2, <2>3, <2>4 DEF Next
<1> QED BY <1>3 DEF CanGenerateReview, IsRagComplete, At

(* A request that is told of success finds every paper settled, none       *)
(* failed and one ready, then and for ever after: what it is told was read *)
(* from the service, and nothing undoes it.                                *)
THEOREM SuccessIsTrue == Spec => []SuccessIsConfirmed
<1>1. Init => SuccessIsConfirmed
  BY DEF Init, SuccessIsConfirmed, None
<1>2. RagInv /\ SuccessIsConfirmed /\ [Next]_vars => SuccessIsConfirmed'
  <2> SUFFICES ASSUME RagInv, SuccessIsConfirmed, [Next]_vars,
                      NEW q \in Requests, answer'[q] = "completed"
               PROVE  CanGenerateReview'
    BY DEF SuccessIsConfirmed
  <2>0. TypeOK BY DEF RagInv
  <2>1. answer[q] = "completed" \/ CanGenerateReview
    <3> USE DEF Ends, TypeOK, requestVars
    <3>1. ASSUME NEW x \in Requests, RequestStep(x) \/ TimeOut(x)
          PROVE  answer'[q] = answer[q] \/ answer'[q] # "completed" \/ CanGenerateReview
      <4>1. CASE \/ InitializeRequest(x) \/ StartRun(x) \/ JoinRun(x) \/ WaitForRemoteTask(x)
                 \/ WorkerAnswers(x) \/ PollRemote(x) \/ TimeOut(x)
        <5>1. UNCHANGED answer \/ \E s \in {"failed", "timed_out"} : answer' = [answer EXCEPT ![x] = s]
          BY <4>1 DEF InitializeRequest, StartRun, JoinRun, WaitForRemoteTask, WorkerAnswers,
             PollRemote, TimeOut, WaitTimesOut, RemoteTimesOut
        <5> QED BY <2>0, <5>1
      <4>2. CASE CheckRagStatus(x) \/ VerifyCompletion(x)
        <5>1. \/ UNCHANGED answer \/ answer' = [answer EXCEPT ![x] = "failed"] \/ CanGenerateReview
          BY <4>2 DEF CheckRagStatus, VerifyCompletion, StatusUnreadable
        <5> QED BY <2>0, <5>1
      <4> QED BY <3>1, <4>1, <4>2 DEF RequestStep
    <3>2. ASSUME NEW w \in Requests, WorkerStep(w) PROVE answer' = answer
      <4>1. CASE EndRun(w) BY <4>1 DEF EndRun
      <4>2. CASE ~EndRun(w) BY <2>0, <3>2, <4>2, WorkerStaysLive DEF RagInv
      <4> QED BY <4>1, <4>2
    <3>3. CASE Disturbance
      <4>1. \/ UNCHANGED answer
            \/ \E x \in Requests, s \in {"failed", "raised"} : answer' = [answer EXCEPT ![x] = s]
            \/ \A x \in Requests : answer'[x] = answer[x] \/ answer'[x] = "raised"
        BY <3>3 DEF Disturbance, SearchEnds, Crash, LeaseEnds, PollFails, StatusUnreadable,
           PublicationFails, CancelRequest, CancelWorker
      <4> QED BY <2>0, <4>1
    <3>4. CASE UNCHANGED vars BY <3>4 DEF vars
    <3> QED BY <3>1, <3>2, <3>3, <3>4 DEF Next
  <2>2. CanGenerateReview
    BY <2>1 DEF SuccessIsConfirmed
  <2> QED BY <2>2, CompletionIsFinal
<1> QED BY <1>1, <1>2, RagInvHolds, PTL DEF Spec

-----------------------------------------------------------------------------
(* The counts.                                                              *)

\* Counts that claim no more settled papers than a state of the service has.
SoundIn(counts, state) ==
  \A k \in Outcomes \cup {"chunks"} : counts[k] <= StatusOf(state)[k]

\* Counts in which no paper of the task is missing.
WholeCounts(counts) ==
  /\ counts["total"] = Cardinality(Papers)
  /\ Settled(counts) + Unsettled(counts) >= Cardinality(Papers)

\* A run's counts are what it last committed and the results of its claim.
RunAddsUp(counts, last, claim, result) ==
  /\ WholeCounts(counts)
  /\ Settled(counts) = Settled(last) + Cardinality({p \in claim : result[p] # "none"})
  /\ Settled(last) + Cardinality(claim) <= Cardinality(Papers)

CountsInv ==
  /\ Papers # {}
  /\ \A q \in Requests : /\ SoundIn(committed[q], paper) /\ SoundIn(base[q], paper)
                         /\ request[q] = "indexing" => WholeCounts(base[q])
  /\ \A w \in Requests :
       /\ worker[w] \in {"none", "claiming"} => batch[w] = {}
       /\ worker[w] = "preparing" => \A p \in batch[w] : results[w][p] = "none"
       /\ worker[w] \in Live => RunAddsUp(summary[w], committed[w], batch[w], results[w])

\* The step of ProgressNeverFalls.
Progresses ==
  \A w \in Requests : worker[w] \in Live /\ worker'[w] \in Live =>
    Settled(summary'[w]) >= Settled(summary[w])

\* Papers in two sets without a common one, and in a set and its subset.
LEMMA PapersApart ==
  ASSUME NEW S \in SUBSET Papers, NEW T \in SUBSET Papers, S \cap T = {}
  PROVE  Cardinality(S \cup T) = Cardinality(S) + Cardinality(T)
<1>1. IsFiniteSet(S) /\ IsFiniteSet(T)
  BY FS_Subset
<1>2. Cardinality(S \cap T) = 0
  BY FS_EmptySet
<1>3. Cardinality(S \cup T) = Cardinality(S) + Cardinality(T) - Cardinality(S \cap T)
  BY <1>1, FS_Union
<1> QED BY <1>2, <1>3, PaperCount

LEMMA FewerPapers ==
  ASSUME NEW T \in SUBSET Papers, NEW S \in SUBSET T PROVE Cardinality(S) <= Cardinality(T)
<1>1. IsFiniteSet(T)
  BY FS_Subset
<1> QED BY <1>1, FS_Subset

LEMMA CountTypes ==
  ASSUME NEW counts \in [Keys -> Nat]
  PROVE  /\ \A k \in PaperStates \cup {"total", "chunks"} : counts[k] \in Nat
         /\ Settled(counts) \in Nat /\ Unsettled(counts) \in Nat
<1>1. \A k \in PaperStates \cup {"total", "chunks"} : counts[k] \in Nat
  BY DEF Keys
<1> QED BY <1>1 DEF Settled, Unsettled, PaperStates, Outcomes

\* The papers in one state of the service, and those that are settled.
PapersIn(state, k) == {p \in Papers : state[p] = k}
SettledPapers(state) == {p \in Papers : state[p] \in Outcomes}

LEMMA StatusKeys ==
  ASSUME NEW state
  PROVE  /\ StatusOf(state)["total"] = Cardinality(Papers)
         /\ StatusOf(state)["chunks"] = Cardinality(PapersIn(state, "ready"))
         /\ \A k \in PaperStates : StatusOf(state)[k] = Cardinality(PapersIn(state, k))
<1>1. ASSUME NEW k \in PaperStates PROVE StatusOf(state)[k] = Cardinality(PapersIn(state, k))
  BY DEF StatusOf, Keys, PaperStates, Outcomes, PapersIn
<1>2. /\ StatusOf(state)["total"] = Cardinality(Papers)
      /\ StatusOf(state)["chunks"] = Cardinality(PapersIn(state, "ready"))
  BY DEF StatusOf, Keys, PaperStates, PapersIn
<1> QED BY <1>1, <1>2

\* The service counts every paper once.
LEMMA StatusAddsUp ==
  ASSUME NEW state \in [Papers -> PaperStates]
  PROVE  /\ Settled(StatusOf(state)) = Cardinality(SettledPapers(state))
         /\ Settled(StatusOf(state)) + Unsettled(StatusOf(state)) = Cardinality(Papers)
<1> DEFINE In(k) == PapersIn(state, k)
           settled == SettledPapers(state)
           open == {p \in Papers : state[p] \in {"pending", "indexing"}}
<1>1. \A k \in PaperStates : StatusOf(state)[k] = Cardinality(In(k))
  BY StatusKeys
<1>2. settled = In("ready") \cup In("skipped") \cup In("failed")
  BY DEF Outcomes, PapersIn, SettledPapers
<1>3. /\ \A k : In(k) \in SUBSET Papers
      /\ settled \in SUBSET Papers /\ open \in SUBSET Papers
      /\ In("ready") \cup In("skipped") \in SUBSET Papers
  BY DEF PapersIn, SettledPapers
<1>4. /\ In("ready") \cap In("skipped") = {} /\ In("pending") \cap In("indexing") = {}
      /\ (In("ready") \cup In("skipped")) \cap In("failed") = {}
  BY DEF PapersIn
<1>5. open = In("pending") \cup In("indexing") /\ Papers = settled \cup open /\ settled \cap open = {}
  BY DEF PapersIn, SettledPapers, PaperStates, Outcomes
<1> HIDE DEF In, settled, open
<1>6. /\ Cardinality(In("ready") \cup In("skipped"))
           = Cardinality(In("ready")) + Cardinality(In("skipped"))
      /\ Cardinality(settled)
           = Cardinality(In("ready") \cup In("skipped")) + Cardinality(In("failed"))
      /\ Cardinality(open) = Cardinality(In("pending")) + Cardinality(In("indexing"))
      /\ Cardinality(Papers) = Cardinality(settled) + Cardinality(open)
  <2>1. Cardinality(In("ready") \cup In("skipped"))
          = Cardinality(In("ready")) + Cardinality(In("skipped"))
    BY <1>3, <1>4, PapersApart
  <2>2. Cardinality(settled)
          = Cardinality(In("ready") \cup In("skipped")) + Cardinality(In("failed"))
    BY <1>2, <1>3, <1>4, PapersApart
  <2>3. Cardinality(open) = Cardinality(In("pending")) + Cardinality(In("indexing"))
    BY <1>3, <1>4, <1>5, PapersApart
  <2>4. Cardinality(Papers) = Cardinality(settled) + Cardinality(open)
    BY <1>3, <1>5, PapersApart
  <2> QED BY <2>1, <2>2, <2>3, <2>4
<1>7. \A k \in PaperStates : Cardinality(In(k)) \in Nat
  BY <1>3, PaperCount
<1>8. {"ready", "skipped", "failed", "pending", "indexing"} \subseteq PaperStates
  BY DEF PaperStates, Outcomes
<1>9. Settled(StatusOf(state)) = Cardinality(settled)
  BY <1>1, <1>6, <1>7, <1>8 DEF Settled
<1>10. Unsettled(StatusOf(state)) = Cardinality(open)
  BY <1>1, <1>6, <1>7, <1>8 DEF Unsettled
<1> QED BY <1>6, <1>9, <1>10 DEF settled

\* Sound counts stay so while no settled paper is opened again.
LEMMA SoundStays ==
  ASSUME NEW counts \in [Keys -> Nat], NEW state, NEW next, SoundIn(counts, state),
         \A p \in Papers : state[p] \in Outcomes => next[p] = state[p]
  PROVE  SoundIn(counts, next)
<1>1. ASSUME NEW k \in Outcomes PROVE StatusOf(state)[k] <= StatusOf(next)[k]
  <2>1. PapersIn(state, k) \in SUBSET PapersIn(next, k) /\ PapersIn(next, k) \in SUBSET Papers
    BY DEF PapersIn
  <2>2. Cardinality(PapersIn(state, k)) <= Cardinality(PapersIn(next, k))
    BY <2>1, FewerPapers
  <2> QED BY <2>2, StatusKeys DEF PaperStates
<1>2. StatusOf(state)["chunks"] <= StatusOf(next)["chunks"]
  BY <1>1, StatusKeys DEF PaperStates, Outcomes
<1>3. ASSUME NEW k \in Outcomes \cup {"chunks"} PROVE counts[k] <= StatusOf(next)[k]
  <2>1. /\ counts[k] \in Nat /\ StatusOf(state)[k] \in Nat /\ StatusOf(next)[k] \in Nat
    BY StatusCounts DEF Keys, PaperStates
  <2>2. counts[k] <= StatusOf(state)[k] /\ StatusOf(state)[k] <= StatusOf(next)[k]
    BY <1>1, <1>2 DEF SoundIn
  <2> QED BY <2>1, <2>2
<1> QED BY <1>3 DEF SoundIn

\* They claim no more settled papers than there are.
LEMMA SoundIsSettled ==
  ASSUME NEW counts \in [Keys -> Nat], NEW state \in [Papers -> PaperStates],
         SoundIn(counts, state)
  PROVE  Settled(counts) <= Cardinality(SettledPapers(state))
<1>1. /\ counts["ready"] <= StatusOf(state)["ready"]
      /\ counts["skipped"] <= StatusOf(state)["skipped"]
      /\ counts["failed"] <= StatusOf(state)["failed"]
  BY DEF SoundIn, Outcomes
<1>2. /\ \A k \in PaperStates : counts[k] \in Nat
      /\ \A k \in PaperStates : StatusOf(state)[k] \in Nat
  BY StatusCounts, CountTypes
<1>3. Settled(counts) <= Settled(StatusOf(state))
  BY <1>1, <1>2 DEF Settled, PaperStates, Outcomes
<1> QED BY <1>3, StatusAddsUp

\* Every paper that gets a result gets one of four.
WithResult(outcome, k) == {p \in DOMAIN outcome : outcome[p] = k}

LEMMA ResultsAddUp ==
  ASSUME NEW S \in SUBSET Papers, NEW outcome \in [S -> Results \ {"none"}]
  PROVE  /\ \A k : WithResult(outcome, k) \in SUBSET Papers
         /\ Cardinality(WithResult(outcome, "pending")) = 0
         /\ Cardinality(WithResult(outcome, "total")) = 0
         /\ Cardinality(S)
              = Cardinality(WithResult(outcome, "ready")) + Cardinality(WithResult(outcome, "skipped"))
                + Cardinality(WithResult(outcome, "failed")) + Cardinality(WithResult(outcome, "unnamed"))
<1> DEFINE R(k) == WithResult(outcome, k)
           good == R("ready") \cup R("skipped")
           bad  == R("failed") \cup R("unnamed")
<1>1. /\ \A k : R(k) \in SUBSET Papers
      /\ good \in SUBSET Papers /\ bad \in SUBSET Papers
  BY DEF WithResult
<1>2. R("pending") = {} /\ R("total") = {}
  BY DEF WithResult, Results, Outcomes
<1>3. /\ R("ready") \cap R("skipped") = {} /\ R("failed") \cap R("unnamed") = {}
      /\ good \cap bad = {}
  BY DEF WithResult
<1>4. S = good \cup bad
  BY DEF WithResult, Results, Outcomes
<1>5. Cardinality(R("pending")) = 0 /\ Cardinality(R("total")) = 0
  BY <1>2, FS_EmptySet
<1> HIDE DEF R
<1>6. Cardinality(good) = Cardinality(R("ready")) + Cardinality(R("skipped"))
  BY <1>1, <1>3, PapersApart
<1>7. Cardinality(bad) = Cardinality(R("failed")) + Cardinality(R("unnamed"))
  BY <1>1, <1>3, PapersApart
<1> HIDE DEF good, bad
<1>8. Cardinality(S) = Cardinality(good) + Cardinality(bad)
  BY <1>1, <1>3, <1>4, PapersApart
<1>9. \A k : Cardinality(R(k)) \in Nat
  BY <1>1, PaperCount
<1>10. Cardinality(S) = Cardinality(R("ready")) + Cardinality(R("skipped"))
                        + Cardinality(R("failed")) + Cardinality(R("unnamed"))
  BY <1>6, <1>7, <1>8, <1>9
<1> QED BY <1>1, <1>5, <1>10 DEF R

\* What the results of some papers make of the counts, key by key.
LEMMA CountsKeys ==
  ASSUME NEW w, NEW S \in SUBSET Papers, NEW outcome \in [S -> Results \ {"none"}]
  PROVE  /\ Counts(w, outcome)["indexing"] = LeftOver(summary[w]["indexing"] - Cardinality(S))
         /\ Counts(w, outcome)["failed"]
              = summary[w]["failed"] + Cardinality(WithResult(outcome, "failed"))
                + Cardinality(WithResult(outcome, "unnamed"))
         /\ \A k \in {"ready", "skipped", "pending", "total"} :
              Counts(w, outcome)[k] = summary[w][k] + Cardinality(WithResult(outcome, k))
<1>1. DOMAIN outcome = S /\ {"indexing", "failed", "ready", "skipped", "pending", "total"} \subseteq Keys
  BY DEF Keys, PaperStates, Outcomes
<1>2. Counts(w, outcome)["indexing"] = LeftOver(summary[w]["indexing"] - Cardinality(S))
  BY <1>1 DEF Counts
<1>3. Counts(w, outcome)["failed"]
        = summary[w]["failed"] + Cardinality(WithResult(outcome, "failed"))
          + Cardinality(WithResult(outcome, "unnamed"))
  BY <1>1 DEF Counts, WithResult
<1>4. ASSUME NEW k \in {"ready", "skipped", "pending", "total"}
      PROVE  Counts(w, outcome)[k] = summary[w][k] + Cardinality(WithResult(outcome, k))
  BY <1>1 DEF Counts, WithResult
<1> QED BY <1>2, <1>3, <1>4

\* Recording results moves papers of the claim and loses none.
LEMMA RecordsAddUp ==
  ASSUME TypeOK, NEW w \in Requests,
         RunAddsUp(summary[w], committed[w], batch[w], results[w]),
         NEW S \in SUBSET batch[w], \A p \in S : results[w][p] = "none",
         NEW outcome \in [S -> Results \ {"none"}], Records(w, outcome)
  PROVE  /\ RunAddsUp(summary'[w], committed[w], batch[w], results'[w])
         /\ Settled(summary'[w]) >= Settled(summary[w])
<1> DEFINE old == {p \in batch[w] : results[w][p] # "none"}
           now == {p \in batch[w] : results'[w][p] # "none"}
           R(k) == Cardinality(WithResult(outcome, k))
<1>1. S \in SUBSET Papers /\ old \in SUBSET Papers /\ batch[w] \in SUBSET Papers
  BY DEF TypeOK
<1>2. summary'[w] = Counts(w, outcome)
  BY DEF Records, TypeOK
<1>3. \A p \in Papers : results'[w][p] = IF p \in S THEN outcome[p] ELSE results[w][p]
  BY <1>1 DEF Records, TypeOK
<1>4. now = old \cup S /\ old \cap S = {}
  BY <1>1, <1>3
<1>5. Cardinality(now) = Cardinality(old) + Cardinality(S)
  <2> HIDE DEF now, old
  <2> QED BY <1>1, <1>4, PapersApart
<1>6. /\ summary'[w]["indexing"] = LeftOver(summary[w]["indexing"] - Cardinality(S))
      /\ summary'[w]["failed"] = summary[w]["failed"] + R("failed") + R("unnamed")
      /\ summary'[w]["ready"] = summary[w]["ready"] + R("ready")
      /\ summary'[w]["skipped"] = summary[w]["skipped"] + R("skipped")
      /\ summary'[w]["pending"] = summary[w]["pending"] + R("pending")
      /\ summary'[w]["total"] = summary[w]["total"] + R("total")
  BY <1>1, <1>2, CountsKeys
<1>7. /\ R("pending") = 0 /\ R("total") = 0
      /\ Cardinality(S) = R("ready") + R("skipped") + R("failed") + R("unnamed")
  BY <1>1, ResultsAddUp
<1>8. /\ R("ready") \in Nat /\ R("skipped") \in Nat /\ R("failed") \in Nat /\ R("unnamed") \in Nat
      /\ Cardinality(S) \in Nat /\ Cardinality(old) \in Nat
  BY <1>1, ResultsAddUp, PaperCount
<1>9. /\ \A k \in PaperStates \cup {"total", "chunks"} : summary[w][k] \in Nat
      /\ Settled(committed[w]) \in Nat /\ Settled(summary[w]) \in Nat
  BY CountTypes DEF TypeOK
<1>10. /\ summary[w]["ready"] \in Nat /\ summary[w]["skipped"] \in Nat
       /\ summary[w]["failed"] \in Nat /\ summary[w]["pending"] \in Nat
       /\ summary[w]["indexing"] \in Nat /\ summary[w]["total"] \in Nat
  BY <1>9 DEF PaperStates, Outcomes
<1> HIDE DEF R, now, old
<1>11. Settled(summary'[w]) = Settled(summary[w]) + Cardinality(S)
  BY <1>6, <1>7, <1>8, <1>10 DEF Settled
<1>12. Unsettled(summary'[w]) + Cardinality(S) >= Unsettled(summary[w])
  BY <1>6, <1>7, <1>8, <1>10 DEF Unsettled, LeftOver
<1>13. summary'[w]["total"] = summary[w]["total"]
  BY <1>6, <1>7, <1>10
<1>14. Unsettled(summary[w]) \in Nat /\ Unsettled(summary'[w]) \in Nat
  BY <1>6, <1>7, <1>8, <1>10 DEF Unsettled, LeftOver
<1>15. Settled(summary'[w]) >= Settled(summary[w])
  BY <1>8, <1>9, <1>11
<1>16. Settled(summary[w]) + Unsettled(summary[w]) >= Cardinality(Papers)
  BY DEF RunAddsUp, WholeCounts
<1>17. Settled(summary'[w]) + Unsettled(summary'[w]) >= Cardinality(Papers)
  <2>1. Cardinality(Papers) \in Nat
    BY PaperCount
  <2> QED BY <1>8, <1>9, <1>11, <1>12, <1>14, <1>16, <2>1
<1>18. WholeCounts(summary'[w])
  BY <1>13, <1>17 DEF RunAddsUp, WholeCounts
<1>19. Settled(summary'[w]) = Settled(committed[w]) + Cardinality(now)
  <2>1. Settled(summary[w]) = Settled(committed[w]) + Cardinality(old)
    BY DEF RunAddsUp, old
  <2> QED BY <1>5, <1>8, <1>9, <1>11, <2>1
<1> QED BY <1>15, <1>18, <1>19 DEF RunAddsUp, now

\* A claim makes its papers the run's: none of them was settled.
LEMMA ClaimAddsUp ==
  ASSUME TypeOK, Papers # {}, NEW w \in Requests, batch[w] = {},
         RunAddsUp(summary[w], committed[w], batch[w], results[w]),
         SoundIn(committed[w], paper),
         NEW S \in SUBSET Papers, S \subseteq At("pending")
  PROVE  /\ RunAddsUp(CountsClaim(w, Cardinality(S)), committed[w], S, None(Papers))
         /\ Settled(CountsClaim(w, Cardinality(S))) = Settled(summary[w])
<1> DEFINE n == Cardinality(S)
           counts == CountsClaim(w, n)
<1>1. n \in Nat /\ Cardinality(Papers) \in Nat /\ Cardinality(Papers) # 0
  <2>1. IsFiniteSet(Papers)
    OBVIOUS
  <2>2. Cardinality(Papers) # 0
    BY <2>1, FS_EmptySet
  <2> QED BY <2>2, PaperCount
<1>2. /\ summary[w] \in [Keys -> Nat] /\ Settled(committed[w]) \in Nat
  BY CountTypes DEF TypeOK
<1>3. /\ summary[w]["ready"] \in Nat /\ summary[w]["skipped"] \in Nat
      /\ summary[w]["failed"] \in Nat /\ summary[w]["pending"] \in Nat
      /\ summary[w]["indexing"] \in Nat /\ summary[w]["total"] \in Nat
  BY <1>2 DEF Keys, PaperStates, Outcomes
<1>4. /\ summary[w]["total"] = Cardinality(Papers)
      /\ Settled(summary[w]) + Unsettled(summary[w]) >= Cardinality(Papers)
  BY DEF RunAddsUp, WholeCounts
<1>5. {"ready", "skipped", "failed", "pending", "indexing", "total"} \subseteq Keys
  BY DEF Keys, PaperStates, Outcomes
<1> HIDE DEF n
<1>6. /\ counts["total"] = summary[w]["total"]
      /\ counts["pending"] = LeftOver(summary[w]["pending"] - n)
      /\ counts["indexing"] = summary[w]["indexing"] + n
      /\ counts["ready"] = summary[w]["ready"]
      /\ counts["skipped"] = summary[w]["skipped"]
      /\ counts["failed"] = summary[w]["failed"]
  <2>1. summary[w]["total"] # 0
    BY <1>1, <1>4
  <2> QED BY <1>2, <1>5, <2>1 DEF CountsClaim
<1> HIDE DEF counts
<1>7. Settled(counts) = Settled(summary[w]) /\ Settled(counts) \in Nat
  BY <1>3, <1>6 DEF Settled
<1>8. Unsettled(counts) >= Unsettled(summary[w]) /\ Unsettled(counts) \in Nat /\ Unsettled(summary[w]) \in Nat
  BY <1>1, <1>3, <1>6 DEF Unsettled, LeftOver
<1>9. WholeCounts(counts)
  BY <1>1, <1>4, <1>6, <1>7, <1>8 DEF WholeCounts
<1>10. Cardinality({p \in S : None(Papers)[p] # "none"}) = 0
  <2>1. {p \in S : None(Papers)[p] # "none"} = {}
    BY DEF None
  <2> QED BY <2>1, FS_EmptySet
<1>11. Cardinality({p \in batch[w] : results[w][p] # "none"}) = 0
  <2>1. {p \in batch[w] : results[w][p] # "none"} = {}
    OBVIOUS
  <2> QED BY <2>1, FS_EmptySet
<1>12. Settled(summary[w]) = Settled(committed[w]) + 0
  BY <1>11 DEF RunAddsUp
<1>13. Settled(committed[w]) + n <= Cardinality(Papers)
  <2>1. Settled(committed[w]) <= Cardinality(SettledPapers(paper))
    BY SoundIsSettled DEF TypeOK
  <2>2. SettledPapers(paper) \in SUBSET Papers /\ SettledPapers(paper) \cap S = {}
    BY DEF SettledPapers, At, Outcomes
  <2>3. SettledPapers(paper) \cup S \in SUBSET Papers
    BY <2>2
  <2>4. Cardinality(SettledPapers(paper) \cup S) = Cardinality(SettledPapers(paper)) + n
    BY <2>2, PapersApart DEF n
  <2>5. Cardinality(SettledPapers(paper) \cup S) <= Cardinality(Papers)
    BY <2>3, FewerPapers
  <2>6. Cardinality(SettledPapers(paper)) \in Nat
    BY <2>2, PaperCount
  <2> QED BY <1>1, <1>2, <2>1, <2>4, <2>5, <2>6
<1>14. Settled(counts) = Settled(committed[w]) + 0
  BY <1>7, <1>12
<1>15. RunAddsUp(counts, committed[w], S, None(Papers))
  BY <1>9, <1>10, <1>13, <1>14 DEF RunAddsUp, n
<1> QED BY <1>7, <1>15 DEF counts, n

\* A commit replaces a run's counts by the service's, which have every paper of
\* its claim among the settled.
LEMMA CommitAddsUp ==
  ASSUME RagInv, paper' \in [Papers -> PaperStates], NEW w \in Requests,
         RunAddsUp(summary[w], committed[w], batch[w], results[w]),
         SoundIn(committed[w], paper),
         worker[w] \in {"completing", "completingFailure"}, Sendable(w),
         ServiceCompletes(w, Reported(w)), Commits(w)
  PROVE  /\ SoundIn(committed'[w], paper')
         /\ RunAddsUp(summary'[w], committed'[w], {}, None(Papers))
         /\ Settled(summary'[w]) >= Settled(summary[w])
<1> DEFINE claim == batch[w]
           chunks == committed[w]["chunks"] + Cardinality(ReadyOf(w))
           status == StatusOf(paper')
           counts == [status EXCEPT !["chunks"] = chunks]
<1>0. TypeOK /\ ClaimsAreOpen
  BY DEF RagInv
<1>1. /\ claim \in SUBSET Papers /\ committed[w] \in [Keys -> Nat]
      /\ paper \in [Papers -> PaperStates]
      /\ \A p \in claim : paper[p] \in {"pending", "indexing"}
  BY <1>0 DEF TypeOK, ClaimsAreOpen, AtWork
<1>2. \A p \in claim : Reported(w)[p] \in Outcomes
  BY ReportedType
<1>3. \A p \in Papers : paper'[p] = IF p \in claim THEN Reported(w)[p] ELSE paper[p]
  BY DEF ServiceCompletes
<1>4. summary'[w] = counts /\ committed'[w] = counts
  BY <1>0 DEF Commits, TypeOK
<1>5. status \in [Keys -> Nat]
  BY StatusCounts
<1>6. \A k \in PaperStates \cup {"total"} : counts[k] = status[k]
  BY <1>5 DEF Keys, PaperStates, Outcomes
<1>7. counts["chunks"] = chunks
  BY <1>5 DEF Keys
<1>8. chunks <= status["chunks"]
  <2>1. /\ ReadyOf(w) \in SUBSET Papers /\ PapersIn(paper, "ready") \in SUBSET Papers
        /\ PapersIn(paper', "ready") \in SUBSET Papers
    BY <1>1 DEF ReadyOf, PapersIn
  <2>2. PapersIn(paper, "ready") \cap ReadyOf(w) = {}
    BY <1>1 DEF ReadyOf, PapersIn
  <2>3. PapersIn(paper', "ready") = PapersIn(paper, "ready") \cup ReadyOf(w)
    BY <1>1, <1>3 DEF ReadyOf, PapersIn
  <2>4. Cardinality(PapersIn(paper', "ready"))
          = Cardinality(PapersIn(paper, "ready")) + Cardinality(ReadyOf(w))
    BY <2>1, <2>2, <2>3, PapersApart
  <2>5. committed[w]["chunks"] <= Cardinality(PapersIn(paper, "ready"))
    BY StatusKeys DEF SoundIn
  <2>6. status["chunks"] = Cardinality(PapersIn(paper', "ready"))
    BY StatusKeys
  <2>7. committed[w]["chunks"] \in Nat
    BY <1>1 DEF Keys
  <2>8. Cardinality(ReadyOf(w)) \in Nat /\ Cardinality(PapersIn(paper, "ready")) \in Nat
    BY <2>1, PaperCount
  <2> QED BY <2>4, <2>5, <2>6, <2>7, <2>8
<1> HIDE DEF counts, status, chunks, claim
<1>9. SoundIn(counts, paper')
  <2>1. ASSUME NEW k \in Outcomes PROVE counts[k] <= status[k]
    <3>1. k \in PaperStates /\ status[k] \in Nat
      BY <1>5 DEF PaperStates, Keys
    <3> QED BY <1>6, <3>1
  <2> QED BY <1>7, <1>8, <2>1 DEF SoundIn, status
<1>10. Settled(counts) = Settled(status) /\ Unsettled(counts) = Unsettled(status)
  BY <1>6 DEF Settled, Unsettled, PaperStates, Outcomes
<1>11. /\ Settled(status) = Cardinality(SettledPapers(paper'))
       /\ Settled(status) + Unsettled(status) = Cardinality(Papers)
  BY StatusAddsUp DEF status
<1>12. status["total"] = Cardinality(Papers)
  BY StatusKeys DEF status
<1>13. /\ Settled(status) \in Nat /\ Unsettled(status) \in Nat /\ Cardinality(Papers) \in Nat
  BY <1>5, CountTypes, PaperCount
<1>14. WholeCounts(counts)
  BY <1>6, <1>10, <1>11, <1>12, <1>13 DEF WholeCounts
<1>15. RunAddsUp(counts, counts, {}, None(Papers))
  <2>1. {p \in {} : None(Papers)[p] # "none"} = {}
    OBVIOUS
  <2>2. Cardinality({p \in {} : None(Papers)[p] # "none"}) = 0 /\ Cardinality({}) = 0
    BY <2>1, FS_EmptySet
  <2>3. Settled(counts) = Settled(counts) + 0 /\ Settled(counts) + 0 <= Cardinality(Papers)
    BY <1>10, <1>11, <1>13
  <2> QED BY <1>14, <2>2, <2>3 DEF RunAddsUp
<1>16. Settled(counts) >= Settled(summary[w])
  <2> DEFINE old == {p \in batch[w] : results[w][p] # "none"}
  <2>1. Settled(summary[w]) = Settled(committed[w]) + Cardinality(old)
    BY DEF RunAddsUp
  <2>2. Settled(committed[w]) <= Cardinality(SettledPapers(paper))
    BY <1>1, SoundIsSettled
  <2>3. /\ SettledPapers(paper) \in SUBSET Papers /\ SettledPapers(paper') \in SUBSET Papers
        /\ old \in SUBSET Papers /\ SettledPapers(paper) \cup old \in SUBSET SettledPapers(paper')
    BY <1>1, <1>2, <1>3 DEF SettledPapers, claim
  <2>4. SettledPapers(paper) \cap old = {}
    BY <1>1 DEF SettledPapers, claim, Outcomes
  <2> HIDE DEF old
  <2>5. Cardinality(SettledPapers(paper) \cup old) = Cardinality(SettledPapers(paper)) + Cardinality(old)
    BY <2>3, <2>4, PapersApart
  <2>6. Cardinality(SettledPapers(paper) \cup old) <= Cardinality(SettledPapers(paper'))
    BY <2>3, FewerPapers
  <2>7. /\ Cardinality(SettledPapers(paper)) \in Nat /\ Cardinality(old) \in Nat
        /\ Cardinality(SettledPapers(paper')) \in Nat /\ Settled(committed[w]) \in Nat
    BY <1>1, <2>3, PaperCount, CountTypes
  <2> QED BY <1>10, <1>11, <2>1, <2>2, <2>5, <2>6, <2>7
<1> QED BY <1>4, <1>9, <1>15, <1>16

\* No step opens a settled paper again: claims take pending papers, and what a
\* worker reports belongs to its open claim.
LEMMA SettledPapersStay ==
  ASSUME RagInv, [Next]_vars
  PROVE  \A p \in Papers : paper[p] \in Outcomes => paper'[p] = paper[p]
<1> USE DEF serviceVars
<1>0. /\ paper \in [Papers -> PaperStates] /\ "pending" \notin Outcomes /\ "indexing" \notin Outcomes
      /\ \A w \in Requests : worker[w] \in AtWork =>
           \A p \in batch[w] : paper[p] \in {"pending", "indexing"}
  BY DEF RagInv, TypeOK, ClaimsAreOpen, Outcomes
<1>1. ASSUME NEW w, NEW S, ServiceClaims(w, S)
      PROVE  \A p \in Papers : paper[p] \in Outcomes => paper'[p] = paper[p]
  BY <1>0, <1>1 DEF ServiceClaims, At
<1>2. ASSUME NEW w \in Requests, worker[w] \in AtWork, NEW outcome, ServiceCompletes(w, outcome)
      PROVE  \A p \in Papers : paper[p] \in Outcomes => paper'[p] = paper[p]
  BY <1>0, <1>2 DEF ServiceCompletes
<1>3. ASSUME NEW q \in Requests, RequestStep(q) \/ TimeOut(q) PROVE UNCHANGED paper
  BY <1>3 DEF RequestStep, TimeOut, InitializeRequest, CheckRagStatus, StartRun, JoinRun,
     WaitForRemoteTask, WorkerAnswers, PollRemote, VerifyCompletion, WaitTimesOut, RemoteTimesOut
<1>4. ASSUME NEW w \in Requests, WorkerStep(w)
      PROVE  \A p \in Papers : paper[p] \in Outcomes => paper'[p] = paper[p]
  <2>1. CASE ClaimPapers(w) BY <1>1, <2>1 DEF ClaimPapers
  <2>2. CASE ClaimFails(w) BY <1>1, <2>2 DEF ClaimFails
  <2>3. CASE CompleteBatch(w) BY <1>2, <2>3 DEF CompleteBatch, AtWork
  <2>4. CASE CompleteFailedClaim(w) BY <1>2, <2>4 DEF CompleteFailedClaim, AtWork
  <2>5. CASE CompleteFails(w) BY <1>2, <2>5 DEF CompleteFails, AtWork
  <2>6. CASE \/ ClaimNothing(w) \/ PreparePapers(w) \/ ParseFiles(w)
             \/ \E p \in Papers : IndexPaper(w, p)
             \/ ProcessingEnds(w) \/ ProcessingRaises(w) \/ EndRun(w)
    BY <2>6 DEF ClaimNothing, ServiceHasNothing, PreparePapers, ParseFiles, IndexPaper,
       ProcessingEnds, ProcessingRaises, EndRun
  <2> QED BY <1>4, <2>1, <2>2, <2>3, <2>4, <2>5, <2>6 DEF WorkerStep
<1>5. CASE Disturbance
  <2>1. CASE \E p \in Papers : LeaseEnds(p) BY <1>0, <2>1 DEF LeaseEnds
  <2>2. CASE ~ \E p \in Papers : LeaseEnds(p)
    BY <1>5, <2>2 DEF Disturbance, SearchEnds, Crash, PollFails, PublicationFails,
       CancelRequest, CancelWorker
  <2> QED BY <2>1, <2>2
<1>6. CASE UNCHANGED vars BY <1>6 DEF vars
<1> QED BY <1>3, <1>4, <1>5, <1>6 DEF Next

\* What each part of CountsInv says of one run and of one request.
RunCounts(w) ==
  /\ worker[w] \in {"none", "claiming"} => batch[w] = {}
  /\ worker[w] = "preparing" => \A p \in batch[w] : results[w][p] = "none"
  /\ worker[w] \in Live => RunAddsUp(summary[w], committed[w], batch[w], results[w])

LEMMA CountsSplit ==
  /\ CountsInv <=> /\ Papers # {}
                   /\ \A q \in Requests : /\ SoundIn(committed[q], paper) /\ SoundIn(base[q], paper)
                                          /\ request[q] = "indexing" => WholeCounts(base[q])
                   /\ \A w \in Requests : RunCounts(w)
  /\ CountsInv' <=> /\ Papers # {}
                    /\ \A q \in Requests : /\ SoundIn(committed'[q], paper') /\ SoundIn(base'[q], paper')
                                           /\ request'[q] = "indexing" => WholeCounts(base'[q])
                    /\ \A w \in Requests : RunCounts(w)'
BY DEF CountsInv, RunCounts, SoundIn, WholeCounts, RunAddsUp

\* A run nobody moves.
LEMMA SameRunCounts ==
  ASSUME NEW w \in Requests, RunCounts(w), worker'[w] = worker[w], batch'[w] = batch[w],
         results'[w] = results[w], summary'[w] = summary[w], committed'[w] = committed[w]
  PROVE  RunCounts(w)'
BY DEF RunCounts, RunAddsUp, WholeCounts

\* One run moves, in a step that touches no request.
LEMMA OneRunMoves ==
  ASSUME RagInv, CountsInv, [Next]_vars, NEW w \in Requests,
         UNCHANGED <<base, request>>,
         \A x \in Requests : x # w =>
           /\ worker'[x] = worker[x] /\ batch'[x] = batch[x] /\ results'[x] = results[x]
           /\ summary'[x] = summary[x] /\ committed'[x] = committed[x],
         SoundIn(committed'[w], paper'), RunCounts(w)',
         worker[w] \in Live /\ worker'[w] \in Live => Settled(summary'[w]) >= Settled(summary[w])
  PROVE  CountsInv' /\ Progresses
<1>1. \A q \in Requests : committed[q] \in [Keys -> Nat] /\ base[q] \in [Keys -> Nat]
                          /\ summary[q] \in [Keys -> Nat]
  BY DEF RagInv, TypeOK
<1>2. ASSUME NEW q \in Requests PROVE SoundIn(base'[q], paper')
  BY <1>1, SettledPapersStay, SoundStays DEF CountsInv
<1>3. ASSUME NEW q \in Requests PROVE SoundIn(committed'[q], paper')
  <2>1. CASE q = w
    BY <2>1
  <2>2. CASE q # w
    BY <1>1, <2>2, SettledPapersStay, SoundStays DEF CountsInv
  <2> QED BY <2>1, <2>2
<1>4. ASSUME NEW x \in Requests PROVE RunCounts(x)'
  <2>1. CASE x = w
    BY <2>1
  <2>2. CASE x # w
    BY <2>2, CountsSplit, SameRunCounts
  <2> QED BY <2>1, <2>2
<1>5. CountsInv'
  BY <1>2, <1>3, <1>4, CountsSplit
<1>6. ASSUME NEW x \in Requests, worker[x] \in Live, worker'[x] \in Live
      PROVE  Settled(summary'[x]) >= Settled(summary[x])
  <2>1. CASE x = w
    BY <1>6, <2>1
  <2>2. CASE x # w
    BY <1>1, <2>2, CountTypes
  <2> QED BY <2>1, <2>2
<1> QED BY <1>5, <1>6 DEF Progresses

\* The worker goes on with the same claim and the same counts.
LEMMA CountsGoOn ==
  ASSUME RagInv, CountsInv, [Next]_vars, NEW w \in Requests, NEW s \in Live,
         worker[w] \in Live, s \notin {"claiming", "preparing"},
         worker' = [worker EXCEPT ![w] = s],
         UNCHANGED <<base, request, batch, results, summary, committed>>
  PROVE  CountsInv' /\ Progresses
<1>1. TypeOK /\ worker'[w] = s /\ \A x \in Requests : x # w => worker'[x] = worker[x]
  BY DEF RagInv, TypeOK
<1>2. committed[w] \in [Keys -> Nat] /\ summary[w] \in [Keys -> Nat]
  BY <1>1 DEF TypeOK
<1>3. SoundIn(committed'[w], paper')
  BY <1>2, SettledPapersStay, SoundStays DEF CountsInv
<1>4. RunCounts(w)'
  BY <1>1 DEF CountsInv, RunCounts, RunAddsUp, WholeCounts, Live
<1>5. Settled(summary'[w]) >= Settled(summary[w])
  BY <1>2, CountTypes
<1> QED BY <1>1, <1>3, <1>4, <1>5, OneRunMoves

\* The worker records results of its claim.
LEMMA CountsRecord ==
  ASSUME RagInv, CountsInv, [Next]_vars, NEW w \in Requests, NEW s \in Live,
         worker[w] \in Live, s \notin {"claiming", "preparing"},
         worker' = [worker EXCEPT ![w] = s],
         NEW S \in SUBSET batch[w], \A p \in S : results[w][p] = "none",
         NEW outcome \in [S -> Results \ {"none"}], Records(w, outcome),
         UNCHANGED <<base, request, batch, committed>>
  PROVE  CountsInv' /\ Progresses
<1>1. TypeOK /\ worker'[w] = s /\ \A x \in Requests : x # w => worker'[x] = worker[x]
  BY DEF RagInv, TypeOK
<1>2. committed[w] \in [Keys -> Nat]
  BY <1>1 DEF TypeOK
<1>3. SoundIn(committed'[w], paper')
  BY <1>2, SettledPapersStay, SoundStays DEF CountsInv
<1>4. /\ RunAddsUp(summary'[w], committed[w], batch[w], results'[w])
      /\ Settled(summary'[w]) >= Settled(summary[w])
  BY <1>1, RecordsAddUp DEF CountsInv
<1>5. RunCounts(w)'
  BY <1>1, <1>4 DEF RunCounts, RunAddsUp, WholeCounts, Live
<1>6. \A x \in Requests : x # w => results'[x] = results[x] /\ summary'[x] = summary[x]
  BY <1>1 DEF Records, TypeOK
<1> QED BY <1>1, <1>3, <1>4, <1>5, <1>6, OneRunMoves

\* The worker commits its claim and goes on without one.
LEMMA CountsCommit ==
  ASSUME RagInv, CountsInv, [Next]_vars, NEW w \in Requests, NEW s \in Live,
         worker[w] \in {"completing", "completingFailure"}, s \notin {"preparing"},
         worker' = [worker EXCEPT ![w] = s], Sendable(w),
         ServiceCompletes(w, Reported(w)), Commits(w),
         batch' = [batch EXCEPT ![w] = {}], results' = [results EXCEPT ![w] = None(Papers)],
         UNCHANGED <<base, request>>
  PROVE  CountsInv' /\ Progresses
<1>1. TypeOK /\ worker'[w] = s /\ \A x \in Requests : x # w => worker'[x] = worker[x]
  BY DEF RagInv, TypeOK
<1>2. paper' \in [Papers -> PaperStates]
  BY TypesAreKept DEF TypeOK
<1>3. worker[w] \in Live
  BY DEF Live
<1>4. /\ SoundIn(committed'[w], paper')
      /\ RunAddsUp(summary'[w], committed'[w], {}, None(Papers))
      /\ Settled(summary'[w]) >= Settled(summary[w])
  BY <1>2, <1>3, CommitAddsUp DEF CountsInv
<1>5. batch'[w] = {} /\ results'[w] = None(Papers)
  BY <1>1 DEF TypeOK
<1>6. RunCounts(w)'
  BY <1>1, <1>4, <1>5 DEF RunCounts, RunAddsUp, WholeCounts
<1>7. \A x \in Requests : x # w =>
        /\ batch'[x] = batch[x] /\ results'[x] = results[x]
        /\ summary'[x] = summary[x] /\ committed'[x] = committed[x]
  BY <1>1 DEF Commits, TypeOK
<1> QED BY <1>1, <1>4, <1>6, <1>7, OneRunMoves

\* Zero claims nothing; what the service counts is so, and all of it.
LEMMA ZeroIsSound == ASSUME NEW state PROVE SoundIn(Zero, state)
<1>1. ASSUME NEW k \in Outcomes \cup {"chunks"} PROVE Zero[k] <= StatusOf(state)[k]
  <2>1. k \in Keys
    BY DEF Keys, PaperStates
  <2>2. Zero[k] = 0 /\ StatusOf(state)[k] \in Nat
    BY <2>1, StatusCounts DEF Zero
  <2> QED BY <2>2
<1> QED BY <1>1 DEF SoundIn

LEMMA StatusIsSound == ASSUME NEW state PROVE SoundIn(StatusOf(state), state)
<1>1. ASSUME NEW k \in Outcomes \cup {"chunks"} PROVE StatusOf(state)[k] <= StatusOf(state)[k]
  BY StatusCounts DEF Keys, PaperStates
<1> QED BY <1>1 DEF SoundIn

LEMMA StatusIsWhole ==
  ASSUME NEW state \in [Papers -> PaperStates] PROVE WholeCounts(StatusOf(state))
<1>1. Cardinality(Papers) \in Nat
  BY PaperCount
<1> QED BY <1>1, StatusAddsUp, StatusKeys DEF WholeCounts

LEMMA WorkerCounts ==
  ASSUME RagInv, CountsInv, [Next]_vars, NEW w \in Requests, WorkerStep(w)
  PROVE  CountsInv' /\ Progresses
<1> USE DEF runVars, requestVars
<1>0. TypeOK
  BY DEF RagInv
<1>1. CASE ClaimPapers(w)
  <2>1. PICK S \in SUBSET Papers :
          /\ ServiceClaims(w, S)
          /\ batch' = [batch EXCEPT ![w] = S]
          /\ results' = [results EXCEPT ![w] = None(Papers)]
          /\ summary' = [summary EXCEPT ![w] = CountsClaim(w, Cardinality(S))]
          /\ worker' = [worker EXCEPT ![w] = "preparing"]
    BY <1>1 DEF ClaimPapers
  <2>2. worker[w] = "claiming" /\ UNCHANGED <<base, request, committed>>
    BY <1>1 DEF ClaimPapers
  <2>3. /\ worker'[w] = "preparing" /\ batch'[w] = S /\ results'[w] = None(Papers)
        /\ summary'[w] = CountsClaim(w, Cardinality(S)) /\ committed'[w] = committed[w]
        /\ \A x \in Requests : x # w =>
             /\ worker'[x] = worker[x] /\ batch'[x] = batch[x] /\ results'[x] = results[x]
             /\ summary'[x] = summary[x] /\ committed'[x] = committed[x]
    BY <1>0, <2>1, <2>2 DEF TypeOK
  <2>4. committed[w] \in [Keys -> Nat] /\ summary[w] \in [Keys -> Nat]
    BY <1>0 DEF TypeOK
  <2>5. SoundIn(committed'[w], paper')
    BY <2>3, <2>4, SettledPapersStay, SoundStays DEF CountsInv
  <2>6. /\ Papers # {} /\ batch[w] = {} /\ SoundIn(committed[w], paper)
        /\ RunAddsUp(summary[w], committed[w], batch[w], results[w])
    BY <2>2 DEF CountsInv, Live
  <2>7. S \subseteq At("pending")
    BY <2>1 DEF ServiceClaims
  <2>8. /\ RunAddsUp(CountsClaim(w, Cardinality(S)), committed[w], S, None(Papers))
        /\ Settled(CountsClaim(w, Cardinality(S))) = Settled(summary[w])
    BY <1>0, <2>6, <2>7, ClaimAddsUp
  <2>9. RunCounts(w)'
    <3>1. worker'[w] \notin {"none", "claiming"}
      BY <2>3
    <3>2. \A p \in S : None(Papers)[p] = "none"
      BY <2>1 DEF None
    <3>3. RunAddsUp(summary'[w], committed'[w], batch'[w], results'[w])
      BY <2>3, <2>8
    <3>4. \A p \in batch'[w] : results'[w][p] = "none"
      BY <2>3, <3>2
    <3> QED BY <3>1, <3>3, <3>4 DEF RunCounts, RunAddsUp, WholeCounts
  <2>10. Settled(summary'[w]) >= Settled(summary[w])
    BY <2>3, <2>4, <2>8, CountTypes
  <2> QED BY <2>2, <2>3, <2>5, <2>9, <2>10, OneRunMoves
<1>2. CASE \/ ClaimNothing(w) \/ ClaimFails(w) \/ ProcessingEnds(w) \/ ProcessingRaises(w)
           \/ CompleteFails(w)
  <2>1. /\ worker[w] \in Live /\ UNCHANGED <<base, request, batch, results, summary, committed>>
        /\ \E s \in {"finishing", "completing", "completingFailure"} :
             worker' = [worker EXCEPT ![w] = s]
    BY <1>2 DEF ClaimNothing, ClaimFails, ProcessingEnds, ProcessingRaises, CompleteFails,
       Finishes, Live
  <2> QED BY <2>1, CountsGoOn DEF Live
<1>3. CASE PreparePapers(w)
  <2>1. PICK S \in SUBSET batch[w] :
          \E outcome \in [S -> {"skipped", "failed"}] : Records(w, outcome)
    BY <1>3 DEF PreparePapers
  <2>2. PICK outcome \in [S -> Results \ {"none"}] : Records(w, outcome)
    BY <2>1 DEF Results, Outcomes
  <2>3. /\ worker[w] = "preparing" /\ worker' = [worker EXCEPT ![w] = "parsing"]
        /\ UNCHANGED <<base, request, batch, committed>>
    BY <1>3 DEF PreparePapers
  <2>4. \A p \in S : results[w][p] = "none"
    BY <2>3 DEF CountsInv
  <2>5. worker[w] \in Live /\ "parsing" \in Live \ {"claiming", "preparing"}
    BY <2>3 DEF Live
  <2> QED BY <2>2, <2>3, <2>4, <2>5, CountsRecord
<1>4. CASE ParseFiles(w)
  <2>1. PICK bad \in SUBSET Unrecorded(w) : Records(w, [p \in bad |-> "failed"])
    BY <1>4 DEF ParseFiles, Unparsed
  <2>2. /\ bad \in SUBSET batch[w] /\ \A p \in bad : results[w][p] = "none"
        /\ [p \in bad |-> "failed"] \in [bad -> Results \ {"none"}]
    BY <2>1 DEF Unrecorded, Results, Outcomes
  <2>3. /\ worker[w] = "parsing" /\ worker' = [worker EXCEPT ![w] = "indexing"]
        /\ UNCHANGED <<base, request, batch, committed>>
    BY <1>4 DEF ParseFiles
  <2>4. worker[w] \in Live /\ "indexing" \in Live \ {"claiming", "preparing"}
    BY <2>3 DEF Live
  <2> QED BY <2>1, <2>2, <2>3, <2>4, CountsRecord
<1>5. ASSUME NEW p \in Papers, IndexPaper(w, p) PROVE CountsInv' /\ Progresses
  <2>1. PICK r \in Results \ {"none"} : Records(w, [x \in {p} |-> r])
    BY <1>5 DEF IndexPaper, Results, Outcomes
  <2>2. /\ {p} \in SUBSET batch[w] /\ \A x \in {p} : results[w][x] = "none"
        /\ [x \in {p} |-> r] \in [{p} -> Results \ {"none"}]
    BY <1>5 DEF IndexPaper, Unrecorded
  <2>3. /\ worker[w] = "indexing" /\ worker' = worker
        /\ UNCHANGED <<base, request, batch, committed>>
    BY <1>5 DEF IndexPaper
  <2>4. worker' = [worker EXCEPT ![w] = "indexing"]
    BY <1>0, <2>3 DEF TypeOK
  <2>5. worker[w] \in Live /\ "indexing" \in Live \ {"claiming", "preparing"}
    BY <2>3 DEF Live
  <2> QED BY <2>1, <2>2, <2>3, <2>4, <2>5, CountsRecord
<1>6. CASE CompleteBatch(w) \/ CompleteFailedClaim(w)
  <2>1. /\ worker[w] \in {"completing", "completingFailure"} /\ Sendable(w)
        /\ ServiceCompletes(w, Reported(w)) /\ Commits(w)
        /\ batch' = [batch EXCEPT ![w] = {}] /\ results' = [results EXCEPT ![w] = None(Papers)]
        /\ UNCHANGED <<base, request>>
    BY <1>6 DEF CompleteBatch, CompleteFailedClaim, Sendable
  <2>2. \E s \in {"claiming", "finishing"} : worker' = [worker EXCEPT ![w] = s]
    BY <1>6 DEF CompleteBatch, CompleteFailedClaim, Finishes
  <2>3. PICK s \in Live \ {"preparing"} : worker' = [worker EXCEPT ![w] = s]
    BY <2>2 DEF Live
  <2> QED BY <2>1, <2>3, CountsCommit
<1>7. CASE EndRun(w)
  <2>1. /\ worker' = [worker EXCEPT ![w] = "ended"] /\ batch' = [batch EXCEPT ![w] = {}]
        /\ results' = [results EXCEPT ![w] = None(Papers)]
        /\ summary' = [summary EXCEPT ![w] = Zero] /\ committed' = [committed EXCEPT ![w] = Zero]
        /\ UNCHANGED <<base, request>>
    BY <1>7 DEF EndRun
  <2>2. /\ worker'[w] = "ended" /\ committed'[w] = Zero
        /\ \A x \in Requests : x # w =>
             /\ worker'[x] = worker[x] /\ batch'[x] = batch[x] /\ results'[x] = results[x]
             /\ summary'[x] = summary[x] /\ committed'[x] = committed[x]
    BY <1>0, <2>1 DEF TypeOK
  <2>3. SoundIn(committed'[w], paper')
    BY <2>2, ZeroIsSound
  <2>4. "ended" \notin Live \cup {"none", "claiming", "preparing"}
    BY DEF Live
  <2>5. RunCounts(w)'
    BY <2>2, <2>4 DEF RunCounts
  <2> QED BY <2>1, <2>2, <2>3, <2>4, <2>5, OneRunMoves
<1> QED BY <1>1, <1>2, <1>3, <1>4, <1>5, <1>6, <1>7 DEF WorkerStep

\* A request moves and no run does.
LEMMA RequestsMove ==
  ASSUME RagInv, CountsInv, [Next]_vars,
         UNCHANGED <<worker, batch, results, summary, committed>>,
         \A q \in Requests : base'[q] \in {base[q], Zero, StatusOf(paper')},
         \A q \in Requests : request'[q] = "indexing" =>
           (request[q] = "indexing" /\ base'[q] = base[q]) \/ base'[q] = StatusOf(paper')
  PROVE  CountsInv' /\ Progresses
<1>1. \A q \in Requests : committed[q] \in [Keys -> Nat] /\ base[q] \in [Keys -> Nat]
                          /\ summary[q] \in [Keys -> Nat]
  BY DEF RagInv, TypeOK
<1>2. paper' \in [Papers -> PaperStates]
  BY TypesAreKept DEF TypeOK
<1>3. ASSUME NEW q \in Requests PROVE SoundIn(committed'[q], paper') /\ SoundIn(base'[q], paper')
  <2>1. SoundIn(committed[q], paper') /\ SoundIn(base[q], paper')
    BY <1>1, SettledPapersStay, SoundStays DEF CountsInv
  <2> QED BY <2>1, ZeroIsSound, StatusIsSound
<1>4. ASSUME NEW q \in Requests, request'[q] = "indexing" PROVE WholeCounts(base'[q])
  BY <1>2, <1>4, StatusIsWhole DEF CountsInv
<1>5. ASSUME NEW w \in Requests PROVE RunCounts(w)'
  BY CountsSplit, SameRunCounts
<1>6. CountsInv'
  <2>1. Papers # {}
    BY DEF CountsInv
  <2> QED BY <1>3, <1>4, <1>5, <2>1, CountsSplit
<1>7. Progresses
  BY <1>1, CountTypes DEF Progresses
<1> QED BY <1>6, <1>7

\* A request starts a run with the counts it has read.
LEMMA StartCounts ==
  ASSUME RagInv, CountsInv, [Next]_vars, NEW w \in Requests, StartRun(w)
  PROVE  CountsInv' /\ Progresses
<1>0. TypeOK /\ worker[w] = "none" /\ batch[w] = {} /\ Papers # {}
  BY DEF RagInv, ListenersWait, CountsInv, StartRun
<1>1. /\ worker' = [worker EXCEPT ![w] = "claiming"]
      /\ summary' = [summary EXCEPT ![w] = base[w]] /\ committed' = [committed EXCEPT ![w] = base[w]]
      /\ base' = [base EXCEPT ![w] = Zero] /\ request' = [request EXCEPT ![w] = "waiting"]
      /\ UNCHANGED <<paper, batch, results>>
  BY DEF StartRun, ForgetsStatus, Joins, serviceVars
<1>2. /\ worker'[w] = "claiming" /\ summary'[w] = base[w] /\ committed'[w] = base[w]
      /\ base'[w] = Zero /\ request'[w] = "waiting" /\ batch'[w] = {}
      /\ \A x \in Requests : x # w =>
           /\ worker'[x] = worker[x] /\ batch'[x] = batch[x] /\ results'[x] = results[x]
           /\ summary'[x] = summary[x] /\ committed'[x] = committed[x]
           /\ base'[x] = base[x] /\ request'[x] = request[x]
  BY <1>0, <1>1 DEF TypeOK
<1>3. /\ WholeCounts(base[w]) /\ SoundIn(base[w], paper)
      /\ base[w] \in [Keys -> Nat] /\ paper \in [Papers -> PaperStates]
  BY <1>0 DEF CountsInv, StartRun, TypeOK
<1>4. RunAddsUp(base[w], base[w], {}, results'[w])
  <2>1. Settled(base[w]) <= Cardinality(SettledPapers(paper)) /\ Settled(base[w]) \in Nat
    BY <1>3, SoundIsSettled, CountTypes
  <2>2. SettledPapers(paper) \in SUBSET Papers
    BY DEF SettledPapers
  <2>3. Cardinality(SettledPapers(paper)) <= Cardinality(Papers)
    BY <2>2, FewerPapers
  <2>4. Cardinality(SettledPapers(paper)) \in Nat /\ Cardinality(Papers) \in Nat
    BY <2>2, PaperCount
  <2>5. {p \in {} : results'[w][p] # "none"} = {}
    OBVIOUS
  <2>6. Cardinality({p \in {} : results'[w][p] # "none"}) = 0 /\ Cardinality({}) = 0
    BY <2>5, FS_EmptySet
  <2>7. Settled(base[w]) = Settled(base[w]) + 0 /\ Settled(base[w]) + 0 <= Cardinality(Papers)
    BY <2>1, <2>3, <2>4
  <2> QED BY <1>3, <2>6, <2>7 DEF RunAddsUp
<1>5. RunCounts(w)'
  BY <1>2, <1>4 DEF RunCounts, RunAddsUp, WholeCounts
<1>6. ASSUME NEW x \in Requests, x # w PROVE RunCounts(x)'
  BY <1>2, <1>6, CountsSplit, SameRunCounts
<1>7. ASSUME NEW q \in Requests
      PROVE  /\ SoundIn(committed'[q], paper') /\ SoundIn(base'[q], paper')
             /\ request'[q] = "indexing" => WholeCounts(base'[q])
  <2>1. CASE q = w
    BY <1>1, <1>2, <1>3, <2>1, ZeroIsSound
  <2>2. CASE q # w
    BY <1>1, <1>2, <2>2 DEF CountsInv
  <2> QED BY <2>1, <2>2
<1>8. CountsInv'
  BY <1>0, <1>5, <1>6, <1>7, CountsSplit
<1>9. ASSUME NEW x \in Requests, worker[x] \in Live PROVE summary'[x] = summary[x]
  BY <1>0, <1>2, <1>9 DEF Live
<1>10. Progresses
  <2>1. \A x \in Requests : summary[x] \in [Keys -> Nat]
    BY <1>0 DEF TypeOK
  <2> QED BY <1>9, <2>1, CountTypes DEF Progresses
<1> QED BY <1>8, <1>10

LEMMA RequestCounts ==
  ASSUME RagInv, CountsInv, [Next]_vars, NEW q \in Requests, RequestStep(q) \/ TimeOut(q)
  PROVE  CountsInv' /\ Progresses
<1> USE DEF runVars, serviceVars
<1>0. /\ request \in [Requests -> {"new", "checking", "indexing", "verifying", "done"} \cup Waiting]
      /\ base \in [Requests -> [Keys -> Nat]]
  BY DEF RagInv, TypeOK
<1>1. CASE StartRun(q)
  BY <1>1, StartCounts
<1>2. CASE CheckRagStatus(q)
  <2>1. /\ UNCHANGED <<paper, worker, batch, results, summary, committed>>
        /\ \/ UNCHANGED base /\ \E s \in {"completed", "failed"} : Ends(q, s)
           \/ ReadsStatus(q) /\ request' = [request EXCEPT ![q] = "indexing"]
    BY <1>2 DEF CheckRagStatus, StatusUnreadable
  <2>2. \A x \in Requests : base'[x] \in {base[x], Zero, StatusOf(paper')}
    BY <1>0, <2>1 DEF ReadsStatus
  <2>3. \A x \in Requests : request'[x] = "indexing" =>
          (request[x] = "indexing" /\ base'[x] = base[x]) \/ base'[x] = StatusOf(paper')
    BY <1>0, <2>1 DEF ReadsStatus, Ends
  <2> QED BY <2>1, <2>2, <2>3, RequestsMove
<1>3. CASE ~ (StartRun(q) \/ CheckRagStatus(q))
  <2>1. /\ UNCHANGED <<paper, worker, batch, results, summary, committed>>
        /\ UNCHANGED base \/ ForgetsStatus(q)
        /\ \E s \in {"checking", "verifying", "done", "waiting", "remote"} :
             request' = [request EXCEPT ![q] = s]
    BY <1>3 DEF RequestStep, TimeOut, InitializeRequest, JoinRun, Joins, WaitForRemoteTask,
       WorkerAnswers, PollRemote, VerifyCompletion, StatusUnreadable, WaitTimesOut,
       RemoteTimesOut, Ends
  <2>2. \A x \in Requests : base'[x] \in {base[x], Zero, StatusOf(paper')}
    BY <1>0, <2>1 DEF ForgetsStatus
  <2>3. \A x \in Requests : request'[x] = "indexing" =>
          (request[x] = "indexing" /\ base'[x] = base[x]) \/ base'[x] = StatusOf(paper')
    BY <1>0, <2>1 DEF ForgetsStatus
  <2> QED BY <2>1, <2>2, <2>3, RequestsMove
<1> QED BY <1>1, <1>2, <1>3

LEMMA DisturbedCounts ==
  ASSUME RagInv, CountsInv, [Next]_vars, Disturbance
  PROVE  CountsInv' /\ Progresses
<1> USE DEF runVars, serviceVars, requestVars
<1>0. TypeOK
  BY DEF RagInv
<1>1. CASE SearchEnds \/ \E p \in Papers : LeaseEnds(p)
  BY <1>1, RequestsMove DEF SearchEnds, LeaseEnds
<1>2. CASE \E q \in Requests : PollFails(q) \/ PublicationFails(q) \/ CancelRequest(q)
  <2>1. PICK q \in Requests : PollFails(q) \/ PublicationFails(q) \/ CancelRequest(q)
    BY <1>2
  <2>2. /\ UNCHANGED <<worker, batch, results, summary, committed, base>>
        /\ request' = [request EXCEPT ![q] = "done"]
    BY <2>1 DEF PollFails, StatusUnreadable, PublicationFails, CancelRequest, Ends
  <2>3. \A x \in Requests : request'[x] = "indexing" => request[x] = "indexing"
    BY <1>0, <2>2 DEF TypeOK
  <2> QED BY <2>2, <2>3, RequestsMove
<1>3. CASE \E w \in Requests : CancelWorker(w)
  <2>1. PICK w \in Requests : CancelWorker(w)
    BY <1>3
  <2>2. /\ worker[w] \in Live /\ worker' = [worker EXCEPT ![w] = "finishing"]
        /\ UNCHANGED <<base, request, batch, results, summary, committed>>
    BY <2>1 DEF CancelWorker, Finishes
  <2> QED BY <2>2, CountsGoOn DEF Live
<1>4. CASE Crash
  <2>1. \A q \in Requests : /\ committed'[q] = Zero /\ base'[q] = Zero
                            /\ request'[q] # "indexing" /\ batch'[q] = {}
                            /\ worker'[q] \notin Live
    BY <1>0, <1>4 DEF Crash, TypeOK, Live
  <2>2. \A q \in Requests : SoundIn(committed'[q], paper') /\ SoundIn(base'[q], paper')
    BY <2>1, ZeroIsSound
  <2>3. \A w \in Requests : RunCounts(w)'
    BY <2>1 DEF RunCounts
  <2>4. Papers # {}
    BY DEF CountsInv
  <2>5. CountsInv'
    BY <2>1, <2>2, <2>3, <2>4, CountsSplit
  <2>6. Progresses
    BY <2>1 DEF Progresses
  <2> QED BY <2>5, <2>6
<1> QED BY <1>1, <1>2, <1>3, <1>4 DEF Disturbance

LEMMA CountsStart == Init => CountsInv
<1> SUFFICES ASSUME Init PROVE CountsInv
  OBVIOUS
<1>1. Papers # {}
  BY DEF Init
<1>2. \A q \in Requests : /\ committed[q] = Zero /\ base[q] = Zero /\ request[q] = "new"
                          /\ batch[q] = {} /\ worker[q] \notin Live
  BY DEF Init, Live, None
<1>3. \A q \in Requests : SoundIn(committed[q], paper) /\ SoundIn(base[q], paper)
  BY <1>2, ZeroIsSound
<1>4. \A w \in Requests : RunCounts(w)
  BY <1>2 DEF RunCounts
<1> QED BY <1>1, <1>2, <1>3, <1>4, CountsSplit

LEMMA CountsAreKept == RagInv /\ CountsInv /\ [Next]_vars => CountsInv' /\ Progresses
<1> SUFFICES ASSUME RagInv, CountsInv, [Next]_vars PROVE CountsInv' /\ Progresses
  OBVIOUS
<1>1. ASSUME NEW q \in Requests, RequestStep(q) \/ TimeOut(q) PROVE CountsInv' /\ Progresses
  BY <1>1, RequestCounts
<1>2. ASSUME NEW w \in Requests, WorkerStep(w) PROVE CountsInv' /\ Progresses
  BY <1>2, WorkerCounts
<1>3. CASE Disturbance
  BY <1>3, DisturbedCounts
<1>4. CASE UNCHANGED vars
  BY <1>4, RequestsMove DEF vars, serviceVars, runVars, requestVars
<1> QED BY <1>1, <1>2, <1>3, <1>4 DEF Next

\* A run of the invariant says no more than it has and loses no paper.
LEMMA CountsAreTrue == RagInv /\ CountsInv => ReportsAreTrue
<1> SUFFICES ASSUME RagInv, CountsInv PROVE ReportsAreTrue
  OBVIOUS
<1>1. ASSUME NEW w \in Requests, worker[w] \in Live
      PROVE  /\ Settled(summary[w]) <= summary[w]["total"]
             /\ Settled(summary[w]) + Unsettled(summary[w]) >= summary[w]["total"]
  <2> DEFINE done == {p \in batch[w] : results[w][p] # "none"}
  <2>1. RunAddsUp(summary[w], committed[w], batch[w], results[w])
    BY <1>1 DEF CountsInv
  <2>2. batch[w] \in SUBSET Papers /\ done \in SUBSET batch[w] /\ done \in SUBSET Papers
        /\ committed[w] \in [Keys -> Nat]
    BY DEF RagInv, TypeOK
  <2>3. Cardinality(done) <= Cardinality(batch[w])
    BY <2>2, FewerPapers
  <2>4. /\ Cardinality(done) \in Nat /\ Cardinality(batch[w]) \in Nat /\ Cardinality(Papers) \in Nat
        /\ Settled(committed[w]) \in Nat
    BY <2>2, PaperCount, CountTypes
  <2>5. /\ Settled(summary[w]) = Settled(committed[w]) + Cardinality(done)
        /\ Settled(committed[w]) + Cardinality(batch[w]) <= Cardinality(Papers)
        /\ summary[w]["total"] = Cardinality(Papers)
        /\ Settled(summary[w]) + Unsettled(summary[w]) >= Cardinality(Papers)
    BY <2>1 DEF RunAddsUp, WholeCounts
  <2> HIDE DEF done
  <2> QED BY <2>3, <2>4, <2>5
<1>2. CountsAddUp
  BY <1>1 DEF CountsAddUp
<1>3. CommittedIsStored
  BY DEF CountsInv, SoundIn, CommittedIsStored
<1> QED BY <1>2, <1>3 DEF ReportsAreTrue, RagInv

(* What is reported of a run is so, whatever fails on the way: no paper is  *)
(* lost from its counts or settled twice, what it calls committed is stored, *)
(* and what the service calls ready is in the index.                        *)
THEOREM ReportsHold == Spec => []ReportsAreTrue
<1>1. Spec => [](RagInv /\ CountsInv)
  <2>1. RagInv /\ CountsInv /\ [Next]_vars => CountsInv'
    BY CountsAreKept
  <2> QED BY RagInvHolds, CountsStart, <2>1, PTL DEF Spec
<1> QED BY <1>1, CountsAreTrue, PTL

(* The share of settled papers a run reports never falls, neither by a      *)
(* result nor when a commit replaces the run's counts by the service's.     *)
THEOREM ProgressIsKept == Spec => ProgressNeverFalls
<1>1. Spec => [](RagInv /\ CountsInv)
  <2>1. RagInv /\ CountsInv /\ [Next]_vars => CountsInv'
    BY CountsAreKept
  <2> QED BY RagInvHolds, CountsStart, <2>1, PTL DEF Spec
<1>2. RagInv /\ CountsInv /\ [Next]_vars => [Progresses]_vars
  BY CountsAreKept
<1>3. Progresses <=> \A w \in Requests : worker[w] \in Live /\ worker'[w] \in Live =>
                       Settled(summary'[w]) >= Settled(summary[w])
  BY DEF Progresses
<1> QED BY <1>1, <1>2, PTL DEF Spec, ProgressNeverFalls, Progresses

=============================================================================
