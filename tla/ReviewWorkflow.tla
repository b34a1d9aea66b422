--------------------------- MODULE ReviewWorkflow ---------------------------
(***************************************************************************)
(* The task_review workflow: one call of the subagent, from the papers of  *)
(* a task to a stored review.  Two loops, each with its budget: claims are *)
(* generated, given evidence and verified until no revision is asked for;  *)
(* sections are rendered, assembled and reflected on until they pass.      *)
(*                                                                         *)
(* A claim is the section it belongs to, its text, the papers it is        *)
(* searched in and whether it was withdrawn; claim_hash leaves the papers  *)
(* out.  Evidence is the set of papers whose snippets were found.          *)
(* "stage" is the node that runs next, as state["stage"] selects it.       *)
(***************************************************************************)
EXTENDS Integers, FiniteSets

CONSTANTS Papers,         \* the papers the task may have
          Sections,       \* the sections of the framework, numbered in order
          Candidates,     \* the claims the model may propose for a section
          Comparative,    \* the texts that need two supporting papers
          SectionClaims,  \* MAX_CLAIMS_PER_SECTION
          ReviewClaims,   \* MAX_CLAIMS_PER_REVIEW
          MaxClaims,      \* bound: claims made in one review
          MaxReflectionRounds,
          MaxWritingRounds,
          Adversity       \* the faults this instance may meet

ASSUME ReviewAssumption ==
  /\ IsFiniteSet(Papers) /\ Sections \subseteq Nat /\ IsFiniteSet(Sections)
  /\ \A x \in Candidates : x.plan \subseteq Papers /\ x.withdrawn \in BOOLEAN
  /\ {SectionClaims, ReviewClaims, MaxClaims, MaxReflectionRounds} \subseteq Nat \ {0}
  /\ MaxWritingRounds \in Nat
  /\ Adversity \subseteq {"fault", "lostReply", "cancel"}

VARIABLES
  stage,
  corpus,                \* paper_ids_snapshot
  profiles,              \* the reading index: it outlives the workflow
  changed,               \* changed_section_ids
  claims, ledger, verdicts,
  claimItems, addItems,  \* revision_items of type claim and add_claim
  before, round,         \* revision_before (none, or one snapshot), reflection_round
  drafts,                \* section_draft_artifact_refs
  sectionItems,          \* revision_items of type section
  writingRound,
  reviewDraft, report, final,
  stored,                \* reviews the paper service holds
  answer

claimVars   == <<claims, ledger, verdicts, claimItems, addItems, before, round>>
writingVars == <<drafts, sectionItems, writingRound, reviewDraft, report, final>>
vars == <<stage, corpus, profiles, changed, claimVars, writingVars, stored, answer>>

ClaimIds == 1..MaxClaims
Absent   == [none |-> TRUE]
NoDrafts == [s \in Sections |-> Absent]
Content  == {[section |-> s, text |-> x.text, plan |-> x.plan, withdrawn |-> x.withdrawn] :
               s \in Sections, x \in Candidates}
Claims   == {c \in ClaimIds : claims[c] # Absent}
Active   == {c \in Claims : ~claims[c].withdrawn}
Stages   == {"initialize", "load_task_corpus", "extract_studies", "generate_framework",
             "generate_claims", "retrieve_evidence", "verify_claims", "render_sections",
             "assemble_review", "reflect_review", "finalizing_handoff", "persist_review",
             "completed", "blocked", "failed", "retryable", "done"}

ClaimHash(content) == [k \in {"section", "text", "withdrawn"} |-> content[k]]
HashOf(c)      == ClaimHash(claims[c])
RequiredSourceCount(text) == IF text \in Comparative THEN 2 ELSE 1
\* Mutant of EvidenceRequirementMet: one paper is enough for any text.
EvidenceRequirementMet_Any(c, verdict) == verdict.support # {}

EvidenceRequirementMet(c, verdict) ==
  Cardinality(verdict.support) >= RequiredSourceCount(claims[c].text)

\* failed(): the rest of the state stays as the node found it
Fails(retryable) == stage' = IF retryable THEN "retryable" ELSE "failed"
Meets(fault) == fault \in Adversity

-----------------------------------------------------------------------------
(* From the request to the framework. *)

InitializeReview ==
  /\ stage = "initialize"
  /\ \/ stage' = "load_task_corpus"
     \/ Fails(FALSE)    \* the arguments do not validate
  /\ UNCHANGED <<corpus, profiles, changed, claimVars, writingVars, stored, answer>>

\* The service fails, has no papers or inconsistent ones; or indexing has not
\* ended or left no paper ready; or the ready papers are the corpus.
LoadTaskCorpus ==
  /\ stage = "load_task_corpus"
  /\ \/ Fails(FALSE) /\ UNCHANGED corpus
     \/ stage' = "blocked" /\ UNCHANGED corpus
     \/ /\ corpus' \in SUBSET Papers \ {{}}
        /\ stage' = "extract_studies"
  /\ UNCHANGED <<profiles, changed, claimVars, writingVars, stored, answer>>

\* The profiles the model gets out of the papers that have none yet.
Extractions == SUBSET (corpus \ profiles)

(* Every paper without a cached profile is read, in batches of three.  What *)
(* was read stays in the index; one paper that cannot be read fails all.    *)
ExtractStudies ==
  /\ stage = "extract_studies"
  /\ \E read \in Extractions :
       /\ profiles' = profiles \cup read
       /\ \/ corpus \subseteq profiles' /\ stage' = "generate_framework"
          \/ ~ (corpus \subseteq profiles') /\ \E r \in BOOLEAN : Fails(r)
  /\ UNCHANGED <<corpus, changed, claimVars, writingVars, stored, answer>>

\* Every section is new: the workflow makes one framework.
GenerateFramework ==
  /\ stage = "generate_framework"
  /\ \/ \E r \in BOOLEAN : Fails(r) /\ UNCHANGED changed
     \/ stage' = "generate_claims" /\ changed' = Sections
  /\ UNCHANGED <<corpus, profiles, claimVars, writingVars, stored, answer>>

-----------------------------------------------------------------------------
(* Claims, evidence, verdicts. *)

\* A place for each claim the limits of the sections let in.
Places(limit) == {p \in Sections \X (1..SectionClaims) : p[2] <= limit[p[1]]}
Lesser(m, n)  == IF m < n THEN m ELSE n

(* The budget left, dealt out section by section in rounds: no section gets *)
(* a place before all with room for it have as many.                        *)
ClaimBudgets(kept) ==
  LET live == {c \in DOMAIN kept : ~kept[c].withdrawn}
      room == [s \in Sections |->
                 SectionClaims - Cardinality({c \in live : kept[c].section = s})]
      left == IF Cardinality(live) > ReviewClaims THEN 0 ELSE ReviewClaims - Cardinality(live)
  IN {b \in [Sections -> 0..SectionClaims] :
       /\ \A s \in Sections : b[s] = 0 \/ b[s] <= room[s]
       /\ Cardinality(Places(b)) = Lesser(Cardinality(Places(room)), left)
       /\ \A s, t \in Sections : b[t] < room[t] => b[s] <= b[t] + (IF s < t THEN 1 ELSE 0)}

\* Mutant of Revised: every claim is written again.
Revised_All ==
  {kept \in [{c \in Claims : claims[c].section \notin changed} -> Content] :
     \A c \in DOMAIN kept : kept[c].section = claims[c].section}

\* The claims of unchanged sections, each targeted one replaced in its place.
Revised ==
  {kept \in [{c \in Claims : claims[c].section \notin changed} -> Content] :
     \A c \in DOMAIN kept :
       /\ c \notin claimItems => kept[c] = claims[c]
       /\ kept[c].section = claims[c].section}

SectionsToGenerate == IF Claims = {} THEN Sections ELSE changed \cup addItems

\* Candidates of the sections to generate, numbered on in section order.
LastOf(kept) == {id \in {0} \cup DOMAIN kept : \A c \in DOMAIN kept : c <= id}
Additions(kept, budget) ==
  UNION {{new \in [last + 1..end -> Content] :
            /\ \A c, d \in DOMAIN new : c <= d => new[c].section <= new[d].section
            /\ \A s \in Sections :
                 LET made == {c \in DOMAIN new : new[c].section = s} IN
                 /\ made # {} => s \in SectionsToGenerate
                 /\ Cardinality(made) <= budget[s]}
         : last \in LastOf(kept), end \in 0..MaxClaims}

GenerateClaims ==
  /\ stage = "generate_claims"
  /\ \/ Meets("fault") /\ Fails(TRUE) /\ UNCHANGED <<claims, claimItems, addItems, changed>>
     \/ \E kept \in Revised : \E budget \in ClaimBudgets(kept) :
        \E new \in Additions(kept, budget) :
          LET made == [c \in ClaimIds |-> IF c \in DOMAIN kept THEN kept[c]
                                          ELSE IF c \in DOMAIN new THEN new[c] ELSE Absent]
          IN IF \E c \in ClaimIds : made[c] # Absent /\ ~ (made[c].plan \subseteq corpus)
             THEN Fails(TRUE) /\ UNCHANGED <<claims, claimItems, addItems, changed>>
             ELSE /\ claims' = made
                  /\ claimItems' = {} /\ addItems' = {} /\ changed' = {}
                  /\ stage' = "retrieve_evidence"
  /\ UNCHANGED <<corpus, profiles, ledger, verdicts, before, round, writingVars, stored, answer>>

\* An entry is kept while the claim and the plan of its search are the same.
KeptEntry(c) ==
  ledger[c] # Absent /\ ledger[c].hash = HashOf(c) /\ ledger[c].plan = claims[c].plan

RetrieveEvidence ==
  /\ stage = "retrieve_evidence"
  /\ \/ Meets("fault") /\ Fails(TRUE) /\ UNCHANGED ledger
     \/ /\ \E found \in [Active -> SUBSET corpus] :
             /\ \A c \in Active : found[c] \subseteq claims[c].plan
             /\ \A c \in Active : KeptEntry(c) => found[c] = ledger[c].found
             /\ ledger' = [c \in ClaimIds |->
                  IF c \in Active
                    THEN [hash |-> HashOf(c), plan |-> claims[c].plan, found |-> found[c]]
                    ELSE Absent]
        /\ stage' = "verify_claims"
  /\ UNCHANGED <<corpus, profiles, changed, claims, verdicts, claimItems, addItems,
                 before, round, writingVars, stored, answer>>

\* A verdict that asks for nothing holds for the same claim and evidence.
CachedVerdict(c) ==
  /\ verdicts[c] # Absent
  /\ verdicts[c].hash = HashOf(c) /\ verdicts[c].digest = ledger[c].found
  /\ verdicts[c].status = "supported" /\ ~verdicts[c].adds

\* A supported claim with too few supporting papers is bound as unsupported.
BoundVerdicts(c) ==
  {v \in [status: {"supported", "unsupported"}, hash: {HashOf(c)},
          digest: {ledger[c].found}, support: SUBSET ledger[c].found, adds: BOOLEAN] :
     IF v.status = "supported" THEN EvidenceRequirementMet(c, v) ELSE v.support = {}}

RevisionSnapshot ==
  [c \in Claims |-> [hash |-> HashOf(c),
                     found |-> IF c \in Active THEN ledger[c].found ELSE Papers]]

ScheduleClaimRevision(revise, add) ==
  /\ claimItems' = revise /\ addItems' = add
  /\ IF RevisionSnapshot \in before
       THEN Fails(FALSE) /\ UNCHANGED <<before, round>>      \* REVIEW_NO_PROGRESS
       ELSE /\ before' = {RevisionSnapshot}
            /\ round' = round + 1
            /\ stage' = "generate_claims"

\* Mutant of VerifiedAll: one round more.
VerifiedAll_OneMore(judged) ==
  LET revise == {c \in Active : judged[c].status = "unsupported"}
      add    == {claims[c].section : c \in {d \in Active : judged[d].adds}}
  IN /\ verdicts' = IF Active = {} THEN verdicts
                    ELSE [c \in ClaimIds |-> IF c \in Active THEN judged[c] ELSE Absent]
     /\ IF revise \cup add = {} \/ round >= MaxReflectionRounds
          THEN /\ stage' = "render_sections"
               /\ claimItems' = {} /\ addItems' = {}
               /\ before' = {}
               /\ UNCHANGED round
          ELSE ScheduleClaimRevision(revise, add)

VerifiedAll(judged) ==
  LET revise == {c \in Active : judged[c].status = "unsupported"}
      add    == {claims[c].section : c \in {d \in Active : judged[d].adds}}
  IN /\ verdicts' = IF Active = {} THEN verdicts
                    ELSE [c \in ClaimIds |-> IF c \in Active THEN judged[c] ELSE Absent]
     /\ IF revise \cup add = {} \/ round >= MaxReflectionRounds - 1
          THEN /\ stage' = "render_sections"
               /\ claimItems' = {} /\ addItems' = {}
               /\ before' = {}      \* no node reads it again
               /\ UNCHANGED round
          ELSE ScheduleClaimRevision(revise, add)

\* A failure leaves the verdicts it got to the caller; no node reads them.
VerifyClaims ==
  /\ stage = "verify_claims"
  /\ \/ \E judged \in [Active -> UNION {BoundVerdicts(c) : c \in Active}] :
          /\ \A c \in Active : /\ judged[c] \in BoundVerdicts(c)
                               /\ CachedVerdict(c) => judged[c] = verdicts[c]
          /\ VerifiedAll(judged)
     \/ /\ Meets("fault") /\ \E r \in BOOLEAN : Fails(r)
        /\ UNCHANGED <<verdicts, claimItems, addItems, before, round>>
  /\ UNCHANGED <<corpus, profiles, changed, claims, ledger, writingVars, stored, answer>>

-----------------------------------------------------------------------------
(* Writing: sections, review draft, reflection. *)

SupportedIn(s) == {c \in Claims : /\ claims[c].section = s
                                  /\ verdicts[c] # Absent /\ verdicts[c].status = "supported"}

\* verified_pack raises for a verdict of another version of the claim
VerifiedPack(c) == verdicts[c].hash = HashOf(c) /\ EvidenceRequirementMet(c, verdicts[c])

\* what input_hash covers
Packages(s) == [c \in SupportedIn(s) |-> [hash |-> HashOf(c), support |-> verdicts[c].support]]

KeepsDraft(s) ==
  /\ drafts[s] # Absent /\ s \notin sectionItems
  /\ sectionItems # {} \/ drafts[s].input = Packages(s)

RenderSection(s) ==
  IF KeepsDraft(s) THEN drafts[s] ELSE [input |-> Packages(s), edition |-> writingRound]

RenderSections ==
  /\ stage = "render_sections"
  /\ \/ /\ \A c \in UNION {SupportedIn(s) : s \in Sections} : VerifiedPack(c)
        /\ drafts' = [s \in Sections |-> RenderSection(s)]
        /\ sectionItems' = {}
        /\ stage' = "assemble_review"
     \/ /\ \/ Meets("fault")
           \/ \E c \in UNION {SupportedIn(s) : s \in Sections} : ~VerifiedPack(c)
        /\ Fails(TRUE)
        /\ UNCHANGED <<drafts, sectionItems>>
  /\ UNCHANGED <<corpus, profiles, changed, claimVars, writingRound, reviewDraft, report,
                 final, stored, answer>>

\* "edition" tells two syntheses of the same sections apart.
AssembleReview ==
  /\ stage = "assemble_review"
  /\ \/ /\ reviewDraft' = [sections |-> drafts, edition |-> writingRound]
        /\ stage' = "reflect_review"
     \/ Meets("fault") /\ Fails(FALSE) /\ UNCHANGED reviewDraft
  /\ UNCHANGED <<corpus, profiles, changed, claimVars, drafts, sectionItems, writingRound,
                 report, final, stored, answer>>

\* A model that passes a draft with hard issues, or asks for one revision too
\* many, has blocked the review.
EffectiveDecision(decision, hardIssues) ==
  IF \/ decision = "pass" /\ hardIssues
     \/ decision = "revise" /\ writingRound >= MaxWritingRounds
    THEN "blocked" ELSE decision

\* Mutant of CompleteReflection: the rounds of writing are not counted.
CompleteReflection_Uncounted(decision, hardIssues, targets) ==
  LET effective == EffectiveDecision(decision, hardIssues) IN
  /\ report' = [draft |-> reviewDraft, decision |-> effective]
  /\ UNCHANGED writingRound
  /\ CASE effective = "pass" -> stage' = "finalizing_handoff" /\ UNCHANGED sectionItems
       [] effective = "blocked" -> Fails(FALSE) /\ UNCHANGED sectionItems
       [] effective = "revise" ->
            /\ sectionItems' = targets
            /\ stage' = IF targets = {} THEN "assemble_review" ELSE "render_sections"

CompleteReflection(decision, hardIssues, targets) ==
  LET effective == EffectiveDecision(decision, hardIssues) IN
  /\ report' = [draft |-> reviewDraft, decision |-> effective]
  /\ CASE effective = "pass" ->
            stage' = "finalizing_handoff" /\ UNCHANGED <<writingRound, sectionItems>>
       [] effective = "blocked" -> Fails(FALSE) /\ UNCHANGED <<writingRound, sectionItems>>
       [] effective = "revise" ->
            /\ writingRound' = writingRound + 1
            /\ sectionItems' = targets
            /\ stage' = IF targets = {} THEN "assemble_review" ELSE "render_sections"

ReflectReview ==
  /\ stage = "reflect_review"
  /\ \/ \E decision \in {"pass", "revise", "blocked"}, hardIssues \in BOOLEAN,
           targets \in SUBSET Sections : CompleteReflection(decision, hardIssues, targets)
     \/ Meets("fault") /\ Fails(TRUE) /\ UNCHANGED <<report, writingRound, sectionItems>>
  /\ UNCHANGED <<corpus, profiles, changed, claimVars, drafts, reviewDraft, final,
                 stored, answer>>

-----------------------------------------------------------------------------
(* Handing the review off. *)

FinalizingHandoff ==
  /\ stage = "finalizing_handoff"
  /\ IF report.decision = "pass" /\ report.draft = reviewDraft
       THEN final' = reviewDraft /\ stage' = "persist_review"
       ELSE Fails(FALSE) /\ UNCHANGED final
  /\ UNCHANGED <<corpus, profiles, changed, claimVars, drafts, sectionItems, writingRound,
                 reviewDraft, report, stored, answer>>

\* Mutant of PersistReview: a call that fails is taken for done.
PersistReview_Hopeful ==
  /\ stage = "persist_review" /\ stage' = "completed"
  /\ stored' \in {stored, stored \cup {final}}
  /\ UNCHANGED <<corpus, profiles, changed, claimVars, writingVars, answer>>

\* The service stores the review, or refuses it; a lost reply looks like that.
AddReview(ok) ==
  \/ ok /\ stored' = stored \cup {final}
  \/ ~ok /\ Meets("fault") /\ UNCHANGED stored
  \/ ~ok /\ Meets("lostReply") /\ stored' = stored \cup {final}

PersistReview ==
  /\ stage = "persist_review"
  /\ \E ok \in BOOLEAN : /\ AddReview(ok)
                         /\ IF ok THEN stage' = "completed" ELSE Fails(FALSE)
  /\ UNCHANGED <<corpus, profiles, changed, claimVars, writingVars, answer>>

NoClaims == [c \in ClaimIds |-> Absent]

\* The state of the workflow goes with it.
Ends(result) ==
  /\ stage' = "done" /\ answer' = result
  /\ corpus' = {} /\ changed' = {}
  /\ claims' = NoClaims /\ ledger' = NoClaims /\ verdicts' = NoClaims
  /\ claimItems' = {} /\ addItems' = {} /\ before' = {} /\ round' = 0
  /\ drafts' = NoDrafts /\ sectionItems' = {} /\ writingRound' = 0
  /\ reviewDraft' = Absent /\ report' = Absent /\ final' = Absent
  /\ UNCHANGED <<profiles, stored>>

FinalizeTaskReview ==
  \/ stage = "completed" /\ Ends("success")
  \/ stage \in {"blocked", "retryable"} /\ Ends("retryable")
  \/ stage = "failed" /\ Ends("error")

\* The run is cancelled or times out, or a node raises: the caller sees it.
Cancelled == Meets("cancel") /\ stage # "done" /\ Ends("raised")

-----------------------------------------------------------------------------
Init ==
  /\ stage = "initialize" /\ corpus = {} /\ profiles \in SUBSET Papers /\ changed = {}
  /\ claims = NoClaims /\ ledger = NoClaims /\ verdicts = NoClaims
  /\ claimItems = {} /\ addItems = {} /\ before = {} /\ round = 0
  /\ drafts = NoDrafts /\ sectionItems = {} /\ writingRound = 0
  /\ reviewDraft = Absent /\ report = Absent /\ final = Absent
  /\ stored = {} /\ answer = "none"

Next ==
  \/ InitializeReview \/ LoadTaskCorpus \/ ExtractStudies \/ GenerateFramework
  \/ GenerateClaims \/ RetrieveEvidence \/ VerifyClaims
  \/ RenderSections \/ AssembleReview \/ ReflectReview
  \/ FinalizingHandoff \/ PersistReview \/ FinalizeTaskReview \/ Cancelled

Spec == Init /\ [][Next]_vars

\* The event loop runs the node that is due, and every node ends: each step
\* names the next node, until the last has run.
Advances == stage # "done" /\ stage' \in Stages \ {stage}
FairSpec == Spec /\ WF_stage(Advances)

-----------------------------------------------------------------------------
(* Type invariant, and the budgets: verifications and writing rounds stay   *)
(* within the limits the request set (README: each loop has its own), and   *)
(* no section holds more live claims than it may.                           *)
ReviewInv ==
  /\ stage \in Stages /\ corpus \subseteq Papers /\ profiles \subseteq Papers
  /\ \A c \in ClaimIds : claims[c] # Absent =>
       claims[c] \in Content /\ claims[c].plan \subseteq corpus
  /\ round < MaxReflectionRounds /\ writingRound <= MaxWritingRounds
  /\ answer \in {"none", "success", "retryable", "error", "raised"}
  /\ \A s \in Sections : Cardinality({c \in Active : claims[c].section = s}) <= SectionClaims
  /\ Cardinality(Active) <= ReviewClaims

(* What a section states is exactly what is supported: each claim written   *)
(* there stands as it was verified, with the papers it needs among the      *)
(* evidence found for this very text, and no supported claim is left out.   *)
(* (README: only supported claims of the current version are written.)      *)
WrittenIsSupported ==
  \A s \in Sections : drafts[s] # Absent =>
    LET input == drafts[s].input IN
    /\ \A c \in DOMAIN input :
         /\ c \in Active /\ claims[c].section = s /\ input[c].hash = HashOf(c)
         /\ ledger[c].hash = HashOf(c) /\ input[c].support \subseteq ledger[c].found
         /\ Cardinality(input[c].support) >= RequiredSourceCount(claims[c].text)
    /\ \A c \in Active : claims[c].section = s /\ verdicts[c].status = "supported"
                           => c \in DOMAIN input

(* What is stored is what reflection passed: the review draft of the report *)
(* is still the draft, made of the sections as they are, and success is     *)
(* said of nothing else.                                                    *)
StoredIsApproved ==
  /\ stage # "done" => \A r \in stored :
                       /\ report.decision = "pass" /\ report.draft = r /\ r = reviewDraft
                       /\ r.sections = drafts /\ \A s \in Sections : drafts[s] # Absent
  /\ Cardinality(stored) <= 1
  /\ answer = "success" => stored # {}

(* A claim that is supported and asks for nothing stays: later rounds       *)
(* neither drop nor rewrite it, nor put it before the model again.          *)
SettledIn(c) == c \in Active /\ ledger[c] # Absent /\ CachedVerdict(c)
SettledStays == [][\A c \in ClaimIds :
                     SettledIn(c) /\ stage' # "done" =>
                       claims'[c] = claims[c] /\ verdicts'[c] = verdicts[c]]_vars

(* The loops end: every request gets its answer. *)
ReviewEnds == <>(answer # "none")
=============================================================================
