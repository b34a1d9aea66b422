---------------------------- MODULE ReviewProofs ----------------------------
(***************************************************************************)
(* Theorems about ReviewWorkflow for all papers, sections, claims, budgets *)
(* and faults: what is stored is what reflection passed, what is written   *)
(* is what was verified, what is settled stays, and budgets are kept.      *)
(***************************************************************************)
EXTENDS ReviewWorkflow, FiniteSetTheorems, TLAPS

\* The nodes before any section is written, and those that have a draft.
Early   == {"initialize", "load_task_corpus", "extract_studies", "generate_framework",
            "generate_claims", "retrieve_evidence", "verify_claims"}
Written == {"assemble_review", "reflect_review", "finalizing_handoff", "persist_review",
            "completed"}

-----------------------------------------------------------------------------
(* From reflection to the stored review.                                   *)

Approved(r) ==
  /\ report.decision = "pass" /\ report.draft = r /\ r = reviewDraft
  /\ r.sections = drafts /\ \A s \in Sections : drafts[s] # Absent

HandOffInv ==
  /\ stage \in Written => \A s \in Sections : drafts[s] # Absent
  /\ stage \in Written \ {"assemble_review"} => reviewDraft.sections = drafts
  /\ stage \in {"persist_review", "completed"} =>
       report.decision = "pass" /\ report.draft = reviewDraft /\ final = reviewDraft
  /\ stage = "completed" => stored = {final}
  /\ \/ stored = {}
     \/ /\ stage \in {"completed", "failed", "done"}
        /\ \E r : stored = {r} /\ (stage # "done" => Approved(r))
  /\ answer = "success" => stored # {}

\* Nothing is stored before the review is handed to the service.
LEMMA NothingStored ==
  ASSUME HandOffInv, stage \notin {"completed", "failed", "done"} PROVE stored = {}
BY DEF HandOffInv

\* A rendered section is a draft.
LEMMA RenderedIsDraft == ASSUME NEW s \in Sections PROVE RenderSection(s) # Absent
<1>1. CASE KeepsDraft(s) BY <1>1 DEF RenderSection, KeepsDraft
<1>2. CASE ~KeepsDraft(s)
  <2>1. DOMAIN RenderSection(s) = {"input", "edition"} BY <1>2 DEF RenderSection
  <2>2. DOMAIN Absent = {"none"} BY DEF Absent
  <2> QED BY <2>1, <2>2
<1> QED BY <1>1, <1>2

\* A node that stores nothing and answers nobody, and goes where no draft is
\* expected, keeps the invariant.
LEMMA GoesOn ==
  ASSUME HandOffInv, stage \notin {"completed", "failed", "done"},
         stage' \notin Written \cup {"done"}, UNCHANGED <<stored, answer>>
  PROVE  HandOffInv'
BY NothingStored DEF HandOffInv, Written

LEMMA EndKeepsHandOff ==
  ASSUME HandOffInv, NEW result \in {"success", "error", "retryable", "raised"}, Ends(result),
         result = "success" => stored # {}
  PROVE  HandOffInv'
BY DEF HandOffInv, Ends, Written

LEMMA HandOffIsKept == HandOffInv /\ [Next]_vars => HandOffInv'
<1> SUFFICES ASSUME HandOffInv, [Next]_vars PROVE HandOffInv'
  OBVIOUS
<1> USE DEF claimVars, writingVars
<1>1. CASE InitializeReview \/ LoadTaskCorpus \/ ExtractStudies \/ GenerateFramework
  BY <1>1, GoesOn DEF InitializeReview, LoadTaskCorpus, ExtractStudies, GenerateFramework,
     Fails, Written
<1>2. CASE GenerateClaims
  <2>1. stage = "generate_claims" /\ stage' \in {"retryable", "failed", "retrieve_evidence"}
        /\ UNCHANGED <<stored, answer>>
    BY <1>2 DEF GenerateClaims, Fails
  <2> QED BY <2>1, GoesOn DEF Written
<1>3. CASE RetrieveEvidence
  <2>1. stage = "retrieve_evidence" /\ stage' \in {"retryable", "verify_claims"}
        /\ UNCHANGED <<stored, answer>>
    BY <1>3 DEF RetrieveEvidence, Fails
  <2> QED BY <2>1, GoesOn DEF Written
<1>4. CASE VerifyClaims
  <2>1. /\ stage = "verify_claims" /\ UNCHANGED <<stored, answer>>
        /\ stage' \in {"retryable", "failed", "render_sections", "generate_claims"}
    BY <1>4 DEF VerifyClaims, VerifiedAll, ScheduleClaimRevision, Fails
  <2> QED BY <2>1, GoesOn DEF Written
<1>5. CASE RenderSections
  <2>1. CASE stage' = "assemble_review"
    <3>1. /\ stage = "render_sections" /\ UNCHANGED <<stored, answer>>
          /\ drafts' = [s \in Sections |-> RenderSection(s)]
      BY <1>5, <2>1 DEF RenderSections, Fails
    <3>2. \A s \in Sections : drafts'[s] # Absent' BY <3>1, RenderedIsDraft DEF Absent
    <3> QED BY <2>1, <3>1, <3>2, NothingStored DEF HandOffInv, Written
  <2>2. CASE stage' # "assemble_review"
    <3>1. stage = "render_sections" /\ stage' = "retryable" /\ UNCHANGED <<stored, answer>>
      BY <1>5, <2>2 DEF RenderSections, Fails
    <3> QED BY <3>1, GoesOn DEF Written
  <2> QED BY <2>1, <2>2
<1>6. CASE AssembleReview
  <2>1. CASE stage' = "reflect_review"
    <3>1. /\ stage = "assemble_review" /\ UNCHANGED <<drafts, stored, answer>>
          /\ reviewDraft' = [sections |-> drafts, edition |-> writingRound]
      BY <1>6, <2>1 DEF AssembleReview, Fails
    <3> QED BY <2>1, <3>1, NothingStored DEF HandOffInv, Written, Absent
  <2>2. CASE stage' # "reflect_review"
    <3>1. stage = "assemble_review" /\ stage' = "failed" /\ UNCHANGED <<stored, answer>>
      BY <1>6, <2>2 DEF AssembleReview, Fails
    <3> QED BY <3>1, GoesOn DEF Written
  <2> QED BY <2>1, <2>2
<1>7. CASE ReflectReview
  <2>1. /\ stage = "reflect_review" /\ UNCHANGED <<drafts, reviewDraft, final, stored, answer>>
        /\ stage' \in {"finalizing_handoff", "failed", "retryable", "assemble_review",
                       "render_sections"}
    BY <1>7 DEF ReflectReview, CompleteReflection, EffectiveDecision, Fails
  <2> QED BY <2>1, NothingStored DEF HandOffInv, Written, Absent
<1>8. CASE FinalizingHandoff
  <2>1. /\ stage = "finalizing_handoff" /\ UNCHANGED <<drafts, reviewDraft, report, stored, answer>>
        /\ \/ /\ stage' = "persist_review" /\ final' = reviewDraft
              /\ report.decision = "pass" /\ report.draft = reviewDraft
           \/ stage' = "failed"
    BY <1>8 DEF FinalizingHandoff, Fails
  <2> QED BY <2>1, NothingStored DEF HandOffInv, Written, Absent
<1>9. CASE PersistReview
  <2>1. /\ stage = "persist_review" /\ UNCHANGED <<drafts, reviewDraft, report, final, answer>>
        /\ \/ stage' = "completed" /\ stored' = stored \cup {final}
           \/ stage' = "failed" /\ stored' \in {stored, stored \cup {final}}
    BY <1>9 DEF PersistReview, AddReview, Fails
  <2>2. stored = {} /\ Approved(final)
    BY <2>1, NothingStored DEF HandOffInv, Written, Approved
  <2>3. Approved(final)'
    BY <2>1, <2>2 DEF Approved, Absent
  <2>4. stored' = {} \/ stored' = {final'}
    BY <2>1, <2>2
  <2>5. answer # "success"
    BY <2>2 DEF HandOffInv
  <2> QED BY <2>1, <2>2, <2>3, <2>4, <2>5 DEF HandOffInv, Approved, Written
<1>10. CASE FinalizeTaskReview
  BY <1>10, EndKeepsHandOff DEF FinalizeTaskReview, HandOffInv
<1>11. CASE Cancelled
  BY <1>11, EndKeepsHandOff DEF Cancelled
<1>12. CASE UNCHANGED vars
  BY <1>12 DEF vars, HandOffInv, Approved, Absent
<1> QED BY <1>1, <1>2, <1>3, <1>4, <1>5, <1>6, <1>7, <1>8, <1>9, <1>10, <1>11, <1>12 DEF Next

LEMMA HandOffStarts == Init => HandOffInv
BY DEF Init, HandOffInv, Written

\* What the hand-over keeps is what StoredIsApproved asks for.
LEMMA HandOffApproves == HandOffInv => StoredIsApproved
<1> SUFFICES ASSUME HandOffInv PROVE StoredIsApproved
  OBVIOUS
<1>1. CASE stored = {}
  <2>1. Cardinality(stored) = 0 BY <1>1, FS_EmptySet
  <2> QED BY <1>1, <2>1 DEF HandOffInv, StoredIsApproved
<1>2. CASE stored # {}
  <2>1. PICK r : stored = {r} /\ (stage # "done" => Approved(r))
    BY <1>2 DEF HandOffInv
  <2>2. Cardinality(stored) = 1 BY <2>1, FS_Singleton
  <2>3. Cardinality(stored) <= 1 BY <2>2
  <2>4. stage # "done" => \A q \in stored : Approved(q) BY <2>1
  <2> QED BY <1>2, <2>3, <2>4 DEF StoredIsApproved, Approved
<1> QED BY <1>1, <1>2

(* The review the paper service holds is the one reflection passed, of the *)
(* sections as they were, at most one of them; success is said of no other.*)
THEOREM StoredAsApproved == Spec => []StoredIsApproved
<1>1. Spec => []HandOffInv
  BY HandOffStarts, HandOffIsKept, PTL DEF Spec
<1> QED BY <1>1, HandOffApproves, PTL

-----------------------------------------------------------------------------
(* From the claims to the written sections.                                *)

\* The nodes before the first claim.
Claimless == {"initialize", "load_task_corpus", "extract_studies", "generate_framework"}

\* A live claim with a verdict on its evidence, found for its very text.
Judged(c) ==
  /\ verdicts[c] # Absent /\ ledger[c].hash = HashOf(c)
  /\ verdicts[c].status = "supported" => verdicts[c].support \subseteq ledger[c].found

SupportedIsLive ==
  \A c \in ClaimIds : verdicts[c] # Absent /\ verdicts[c].status = "supported" => c \in Active

FlowInv ==
  /\ stage \in Early => drafts = NoDrafts
  /\ stage \in Claimless => claims = NoClaims /\ verdicts = NoClaims
  /\ stage = "generate_claims" =>
       /\ changed = {} \/ (claims = NoClaims /\ verdicts = NoClaims)
       /\ \A c \in ClaimIds \cap claimItems :
            ~ (verdicts[c] # Absent /\ verdicts[c].status = "supported")
  /\ stage \in {"retrieve_evidence", "verify_claims"} => changed = {}
  /\ stage = "verify_claims" => \A c \in Active : ledger[c].hash = HashOf(c)
  /\ stage \in {"render_sections"} \cup Written => \A c \in Active : Judged(c)
  /\ SupportedIsLive
  /\ WrittenIsSupported

LEMMA NothingWritten == ASSUME drafts = NoDrafts PROVE WrittenIsSupported
BY DEF WrittenIsSupported, NoDrafts

LEMMA NothingJudged == ASSUME verdicts = NoClaims PROVE SupportedIsLive
BY DEF SupportedIsLive, NoClaims

\* What is said of claims and sections stands while neither is touched.
LEMMA FlowStands ==
  ASSUME FlowInv, UNCHANGED <<claims, ledger, verdicts, drafts>>
  PROVE  /\ SupportedIsLive' /\ WrittenIsSupported'
         /\ (\A c \in Active : Judged(c)) => (\A c \in Active : Judged(c))'
<1>1. SupportedIsLive'
  BY DEF FlowInv, SupportedIsLive, Active, Claims, Absent
<1>2. WrittenIsSupported'
  BY DEF FlowInv, WrittenIsSupported, Active, Claims, Absent, HashOf, ClaimHash
<1>3. (\A c \in Active : Judged(c)) => (\A c \in Active : Judged(c))'
  BY DEF Judged, Active, Claims, Absent, HashOf, ClaimHash
<1> QED BY <1>1, <1>2, <1>3

LEMMA FlowStarts == Init => FlowInv
BY NothingWritten, NothingJudged DEF Init, FlowInv, Claimless, Written

\* A bound verdict is a verdict, on the evidence of its claim.
LEMMA BoundIsVerdict ==
  ASSUME NEW c, NEW v \in BoundVerdicts(c)
  PROVE  v # Absent /\ v.support \subseteq ledger[c].found
                    /\ v.status \in {"supported", "unsupported"}
<1>1. v \in [status: {"supported", "unsupported"}, hash: {HashOf(c)},
             digest: {ledger[c].found}, support: SUBSET ledger[c].found, adds: BOOLEAN]
  BY DEF BoundVerdicts
<1>2. "status" \in DOMAIN v BY <1>1
<1>3. "status" \notin DOMAIN Absent BY DEF Absent
<1> QED BY <1>1, <1>2, <1>3

\* A generation that succeeds: the claims it keeps and the new ones.
MadeOf(kept, new) ==
  [c \in ClaimIds |-> IF c \in DOMAIN kept THEN kept[c]
                      ELSE IF c \in DOMAIN new THEN new[c] ELSE Absent]

Generates(kept, new) ==
  /\ claims' = MadeOf(kept, new)
  /\ \A c \in ClaimIds : claims'[c] = Absent \/ claims'[c].plan \subseteq corpus
  /\ claimItems' = {} /\ addItems' = {} /\ changed' = {} /\ stage' = "retrieve_evidence"

LEMMA Generated ==
  ASSUME GenerateClaims
  PROVE  \/ stage' = "retryable" /\ UNCHANGED <<claims, claimItems, addItems, changed>>
         \/ \E kept \in Revised : \E budget \in ClaimBudgets(kept) :
            \E new \in Additions(kept, budget) : Generates(kept, new)
<1>1. CASE Meets("fault") /\ Fails(TRUE) /\ UNCHANGED <<claims, claimItems, addItems, changed>>
  BY <1>1 DEF Fails
<1>2. CASE ~ (Meets("fault") /\ Fails(TRUE) /\ UNCHANGED <<claims, claimItems, addItems, changed>>)
  <2>1. PICK kept \in Revised : \E budget \in ClaimBudgets(kept) :
        \E new \in Additions(kept, budget) :
          IF \E c \in ClaimIds : MadeOf(kept, new)[c] # Absent
                                 /\ ~ (MadeOf(kept, new)[c].plan \subseteq corpus)
          THEN Fails(TRUE) /\ UNCHANGED <<claims, claimItems, addItems, changed>>
          ELSE /\ claims' = MadeOf(kept, new)
               /\ claimItems' = {} /\ addItems' = {} /\ changed' = {}
               /\ stage' = "retrieve_evidence"
    BY <1>2, Zenon DEF GenerateClaims, MadeOf
  <2>2. PICK budget \in ClaimBudgets(kept) : \E new \in Additions(kept, budget) :
          IF \E c \in ClaimIds : MadeOf(kept, new)[c] # Absent
                                 /\ ~ (MadeOf(kept, new)[c].plan \subseteq corpus)
          THEN Fails(TRUE) /\ UNCHANGED <<claims, claimItems, addItems, changed>>
          ELSE /\ claims' = MadeOf(kept, new)
               /\ claimItems' = {} /\ addItems' = {} /\ changed' = {}
               /\ stage' = "retrieve_evidence"
    BY <2>1
  <2>3. PICK new \in Additions(kept, budget) :
          IF \E c \in ClaimIds : MadeOf(kept, new)[c] # Absent
                                 /\ ~ (MadeOf(kept, new)[c].plan \subseteq corpus)
          THEN Fails(TRUE) /\ UNCHANGED <<claims, claimItems, addItems, changed>>
          ELSE /\ claims' = MadeOf(kept, new)
               /\ claimItems' = {} /\ addItems' = {} /\ changed' = {}
               /\ stage' = "retrieve_evidence"
    BY <2>2
  <2>4. CASE \E c \in ClaimIds : MadeOf(kept, new)[c] # Absent
                                 /\ ~ (MadeOf(kept, new)[c].plan \subseteq corpus)
    BY <2>3, <2>4 DEF Fails
  <2>5. CASE ~ \E c \in ClaimIds : MadeOf(kept, new)[c] # Absent
                                   /\ ~ (MadeOf(kept, new)[c].plan \subseteq corpus)
    <3>1. /\ claims' = MadeOf(kept, new) /\ claimItems' = {} /\ addItems' = {} /\ changed' = {}
          /\ stage' = "retrieve_evidence"
      BY <2>3, <2>5
    <3>2. \A c \in ClaimIds : claims'[c] = Absent \/ claims'[c].plan \subseteq corpus
      BY <2>5, <3>1
    <3>3. Generates(kept, new)
      BY <3>1, <3>2 DEF Generates
    <3> QED BY <3>3
  <2> QED BY <2>4, <2>5
<1> QED BY <1>1, <1>2

\* Generation touches no supported claim: it is not targeted, and unchanged
\* sections keep the claims that are not.
LEMMA SupportedIsKept ==
  ASSUME FlowInv, GenerateClaims, NEW c \in ClaimIds, c \in Active,
         verdicts[c] # Absent, verdicts[c].status = "supported"
  PROVE  claims'[c] = claims[c]
<1>1. CASE claims' = claims
  BY <1>1
<1>2. CASE claims' # claims
  <2>1. stage = "generate_claims"
    BY DEF GenerateClaims
  <2>2. PICK kept \in Revised : \E budget \in ClaimBudgets(kept) :
        \E new \in Additions(kept, budget) : Generates(kept, new)
    BY <1>2, Generated
  <2>3. claims # NoClaims
    BY DEF Active, Claims, NoClaims
  <2>4. changed = {} /\ c \notin claimItems
    BY <2>1, <2>3 DEF FlowInv
  <2>5. c \in {d \in Claims : claims[d].section \notin changed}
    BY <2>4 DEF Active
  <2>6. c \in DOMAIN kept /\ kept[c] = claims[c]
    BY <2>4, <2>5 DEF Revised
  <2>7. claims'[c] = kept[c]
    BY <2>2, <2>6 DEF Generates, MadeOf
  <2> QED BY <2>6, <2>7
<1> QED BY <1>1, <1>2

LEMMA ClaimsFlow == ASSUME FlowInv, GenerateClaims PROVE FlowInv'
<1> USE DEF claimVars, writingVars
<1>1. /\ stage = "generate_claims" /\ UNCHANGED <<ledger, verdicts, drafts>>
      /\ \/ stage' = "retryable" /\ UNCHANGED <<claims, claimItems, changed>>
         \/ stage' = "retrieve_evidence" /\ changed' = {}
  BY DEF GenerateClaims, Fails
<1>2. drafts' = NoDrafts
  BY <1>1 DEF FlowInv, Early
<1>3. WrittenIsSupported'
  BY <1>2 DEF WrittenIsSupported, NoDrafts, Absent
<1>4. ASSUME NEW c \in ClaimIds, verdicts'[c] # Absent', verdicts'[c].status = "supported"
      PROVE  c \in Active'
  <2>1. verdicts[c] # Absent /\ verdicts[c].status = "supported"
    BY <1>1, <1>4 DEF Absent
  <2>2. c \in Active
    BY <2>1 DEF FlowInv, SupportedIsLive
  <2>3. claims'[c] = claims[c]
    BY <2>1, <2>2, SupportedIsKept
  <2> QED BY <2>2, <2>3 DEF Active, Claims, Absent
<1>5. SupportedIsLive'
  BY <1>4 DEF SupportedIsLive
<1>6. drafts' = NoDrafts'
  BY <1>2 DEF NoDrafts, Absent
<1> QED BY <1>1, <1>3, <1>5, <1>6 DEF FlowInv, Claimless, Written

LEMMA EvidenceFlow == ASSUME FlowInv, RetrieveEvidence PROVE FlowInv'
<1> USE DEF claimVars, writingVars
<1>1. /\ stage = "retrieve_evidence" /\ UNCHANGED <<claims, verdicts, changed, drafts>>
      /\ \/ stage' = "retryable"
         \/ stage' = "verify_claims" /\ \A c \in Active : ledger'[c].hash = HashOf(c)
  <2>1. \A c \in Active : c \in ClaimIds BY DEF Active, Claims
  <2> QED BY <2>1 DEF RetrieveEvidence, Fails
<1>2. drafts' = NoDrafts'
  BY <1>1 DEF FlowInv, Early, NoDrafts, Absent
<1>3. WrittenIsSupported'
  BY <1>2 DEF WrittenIsSupported, NoDrafts, Absent
<1>4. SupportedIsLive'
  BY <1>1 DEF FlowInv, SupportedIsLive, Active, Claims, Absent
<1>5. stage' = "verify_claims" => \A c \in Active' : ledger'[c].hash = HashOf(c)'
  BY <1>1 DEF Active, Claims, Absent, HashOf, ClaimHash
<1>6. changed' = {}
  BY <1>1 DEF FlowInv
<1> QED BY <1>1, <1>2, <1>3, <1>4, <1>5, <1>6 DEF FlowInv, Claimless, Written

\* What verification leaves behind, whatever it decides.
LEMMA VerdictsFlow ==
  ASSUME FlowInv, stage = "verify_claims",
         NEW judged \in [Active -> UNION {BoundVerdicts(c) : c \in Active}],
         \A c \in Active : judged[c] \in BoundVerdicts(c),
         VerifiedAll(judged), UNCHANGED <<claims, ledger>>
  PROVE  /\ (\A c \in Active : Judged(c))' /\ SupportedIsLive'
         /\ stage' = "generate_claims" =>
              \A c \in ClaimIds \cap claimItems' :
               ~ (verdicts'[c] # Absent /\ verdicts'[c].status = "supported")
<1>1. \A c \in Active : c \in ClaimIds
  BY DEF Active, Claims
<1>2. Active' = Active /\ \A c \in Active : HashOf(c)' = HashOf(c)
  BY DEF Active, Claims, Absent, HashOf, ClaimHash
<1>3. verdicts' = IF Active = {} THEN verdicts
                  ELSE [c \in ClaimIds |-> IF c \in Active THEN judged[c] ELSE Absent]
  BY DEF VerifiedAll
<1>4. \A c \in Active : verdicts'[c] = judged[c]
  BY <1>1, <1>3
<1>5. \A c \in ClaimIds : verdicts'[c] # Absent /\ verdicts'[c].status = "supported" => c \in Active
  BY <1>3 DEF FlowInv, SupportedIsLive
<1>6. SupportedIsLive'
  BY <1>2, <1>5 DEF SupportedIsLive, Absent
<1>7. \A c \in Active : /\ verdicts'[c] # Absent /\ verdicts'[c].support \subseteq ledger[c].found
                        /\ ledger[c].hash = HashOf(c)
  <2>1. \A c \in Active : judged[c] # Absent /\ judged[c].support \subseteq ledger[c].found
    BY BoundIsVerdict
  <2>2. \A c \in Active : ledger[c].hash = HashOf(c)
    BY DEF FlowInv
  <2> QED BY <1>4, <2>1, <2>2
<1>8. (\A c \in Active : Judged(c))'
  <2>1. \A c \in Active : verdicts'[c] # Absent' BY <1>7 DEF Absent
  <2> QED BY <1>2, <1>7, <2>1 DEF Judged
<1>9. ASSUME stage' = "generate_claims"
      PROVE  claimItems' = {c \in Active : judged[c].status = "unsupported"}
  BY <1>9 DEF VerifiedAll, ScheduleClaimRevision, Fails
<1>10. stage' = "generate_claims" =>
         \A c \in ClaimIds \cap claimItems' :
           ~ (verdicts'[c] # Absent /\ verdicts'[c].status = "supported")
  BY <1>4, <1>9
<1> QED BY <1>6, <1>8, <1>10

LEMMA VerificationFlow == ASSUME FlowInv, VerifyClaims PROVE FlowInv'
<1> USE DEF claimVars, writingVars
<1>1. stage = "verify_claims" /\ UNCHANGED <<changed, claims, ledger, drafts>>
  BY DEF VerifyClaims
<1>2. drafts' = NoDrafts' /\ changed' = {}
  BY <1>1 DEF FlowInv, Early, NoDrafts, Absent
<1>3. WrittenIsSupported'
  BY <1>2 DEF WrittenIsSupported, NoDrafts, Absent
<1>4. CASE \E judged \in [Active -> UNION {BoundVerdicts(c) : c \in Active}] :
             /\ \A c \in Active : judged[c] \in BoundVerdicts(c)
             /\ VerifiedAll(judged)
  <2>1. PICK judged \in [Active -> UNION {BoundVerdicts(c) : c \in Active}] :
          (\A c \in Active : judged[c] \in BoundVerdicts(c)) /\ VerifiedAll(judged)
    BY <1>4
  <2>2. stage' \in {"render_sections", "generate_claims", "failed"}
    BY <2>1 DEF VerifiedAll, ScheduleClaimRevision, Fails
  <2>3. /\ (\A c \in Active : Judged(c))' /\ SupportedIsLive'
        /\ stage' = "generate_claims" =>
             \A c \in ClaimIds \cap claimItems' :
               ~ (verdicts'[c] # Absent /\ verdicts'[c].status = "supported")
    BY <1>1, <2>1, VerdictsFlow
  <2>4. stage' = "generate_claims" =>
          \A c \in ClaimIds \cap claimItems' :
            ~ (verdicts'[c] # Absent' /\ verdicts'[c].status = "supported")
    BY <2>3 DEF Absent
  <2> QED BY <1>2, <1>3, <2>2, <2>3, <2>4 DEF FlowInv, Claimless, Written
<1>5. CASE stage' \in {"failed", "retryable"} /\ verdicts' = verdicts
  <2>1. SupportedIsLive'
    BY <1>1, <1>5, FlowStands
  <2> QED BY <1>2, <1>3, <1>5, <2>1 DEF FlowInv, Claimless, Written
<1> QED BY <1>4, <1>5 DEF VerifyClaims, Fails

\* Only what was verified goes into a section.
LEMMA SectionsFlow == ASSUME FlowInv, RenderSections PROVE FlowInv'
<1> USE DEF claimVars, writingVars
<1>1. stage = "render_sections" /\ UNCHANGED <<changed, claims, ledger, verdicts>>
  BY DEF RenderSections
<1>2. CASE UNCHANGED drafts /\ stage' = "retryable"
  BY <1>1, <1>2, FlowStands DEF FlowInv, Early, Claimless, Written
<1>3. CASE ~ (UNCHANGED drafts /\ stage' = "retryable")
  <2>1. /\ \A c \in UNION {SupportedIn(s) : s \in Sections} : VerifiedPack(c)
        /\ drafts' = [s \in Sections |-> RenderSection(s)]
        /\ stage' = "assemble_review"
    BY <1>3 DEF RenderSections, Fails
  <2>2. \A c \in Active : Judged(c)
    BY <1>1 DEF FlowInv
  <2>3. SupportedIsLive'
    BY <1>1 DEF FlowInv, SupportedIsLive, Active, Claims, Absent
  <2>4. (\A c \in Active : Judged(c))'
    BY <1>1, <2>2 DEF Judged, Active, Claims, Absent, HashOf, ClaimHash
  <2> DEFINE Right(s, input) ==
        /\ \A c \in DOMAIN input :
             /\ c \in Active /\ claims[c].section = s /\ input[c].hash = HashOf(c)
             /\ ledger[c].hash = HashOf(c) /\ input[c].support \subseteq ledger[c].found
             /\ Cardinality(input[c].support) >= RequiredSourceCount(claims[c].text)
        /\ \A c \in Active : claims[c].section = s /\ verdicts[c].status = "supported"
                               => c \in DOMAIN input
  <2>5. ASSUME NEW s \in Sections PROVE Right(s, Packages(s))
    <3>1. ASSUME NEW c \in SupportedIn(s)
          PROVE  /\ c \in Active /\ claims[c].section = s /\ Packages(s)[c].hash = HashOf(c)
                 /\ ledger[c].hash = HashOf(c) /\ Packages(s)[c].support \subseteq ledger[c].found
                 /\ Cardinality(Packages(s)[c].support) >= RequiredSourceCount(claims[c].text)
      <4>1. /\ c \in ClaimIds /\ verdicts[c] # Absent /\ verdicts[c].status = "supported"
            /\ claims[c].section = s
        BY DEF SupportedIn, Claims
      <4>2. c \in Active /\ Judged(c)
        BY <4>1, <2>2 DEF FlowInv, SupportedIsLive
      <4>3. VerifiedPack(c)
        BY <2>1
      <4>4. Packages(s)[c] = [hash |-> HashOf(c), support |-> verdicts[c].support]
        BY DEF Packages
      <4> QED BY <4>1, <4>2, <4>3, <4>4 DEF Judged, VerifiedPack, EvidenceRequirementMet
    <3>2. DOMAIN Packages(s) = SupportedIn(s)
      BY DEF Packages
    <3>3. ASSUME NEW c \in Active, claims[c].section = s, verdicts[c].status = "supported"
          PROVE  c \in SupportedIn(s)
      BY <2>2, <3>3 DEF SupportedIn, Judged, Active
    <3> QED BY <3>1, <3>2, <3>3
  <2>6. ASSUME NEW s \in Sections PROVE Right(s, RenderSection(s).input)
    <3>1. CASE KeepsDraft(s)
      <4>1. drafts[s] # Absent /\ RenderSection(s) = drafts[s]
        BY <3>1 DEF KeepsDraft, RenderSection
      <4> QED BY <4>1 DEF FlowInv, WrittenIsSupported
    <3>2. CASE ~KeepsDraft(s)
      <4>1. RenderSection(s).input = Packages(s)
        BY <3>2 DEF RenderSection
      <4> QED BY <4>1, <2>5
    <3> QED BY <3>1, <3>2
  <2>7. \A s \in Sections : drafts'[s].input = RenderSection(s).input
    BY <2>1
  <2>8. Active' = Active /\ \A c : HashOf(c)' = HashOf(c)
    BY <1>1 DEF Active, Claims, Absent, HashOf, ClaimHash
  <2>9. WrittenIsSupported'
    BY <1>1, <2>6, <2>7, <2>8 DEF WrittenIsSupported
  <2> QED BY <2>1, <2>3, <2>4, <2>9 DEF FlowInv, Early, Claimless, Written
<1> QED BY <1>2, <1>3

LEMMA EndFlow == ASSUME NEW result, Ends(result) PROVE FlowInv'
<1>1. stage' = "done" /\ drafts' = NoDrafts' /\ verdicts' = NoClaims'
  BY DEF Ends, NoDrafts, NoClaims, Absent
<1>2. WrittenIsSupported'
  BY <1>1 DEF WrittenIsSupported, NoDrafts
<1>3. SupportedIsLive'
  BY <1>1 DEF SupportedIsLive, NoClaims
<1> QED BY <1>1, <1>2, <1>3 DEF FlowInv, Early, Claimless, Written

LEMMA FlowIsKept == FlowInv /\ [Next]_vars => FlowInv'
<1> SUFFICES ASSUME FlowInv, [Next]_vars PROVE FlowInv'
  OBVIOUS
<1> USE DEF claimVars, writingVars
<1>1. CASE InitializeReview \/ LoadTaskCorpus \/ ExtractStudies \/ GenerateFramework
  <2>1. /\ stage \in Claimless /\ UNCHANGED <<claims, ledger, verdicts, drafts>>
        /\ stage' \in Claimless \cup {"failed", "blocked", "retryable", "generate_claims"}
    BY <1>1 DEF InitializeReview, LoadTaskCorpus, ExtractStudies, GenerateFramework, Fails, Claimless
  <2>2. drafts' = NoDrafts' /\ claims' = NoClaims' /\ verdicts' = NoClaims'
    BY <2>1 DEF FlowInv, Early, Claimless, NoDrafts, NoClaims, Absent
  <2>3. \A c \in ClaimIds : verdicts'[c] = Absent'
    BY <2>2 DEF NoClaims, Absent
  <2> QED BY <2>1, <2>2, <2>3, FlowStands DEF FlowInv, Claimless, Written
<1>2. CASE GenerateClaims BY <1>2, ClaimsFlow
<1>3. CASE RetrieveEvidence BY <1>3, EvidenceFlow
<1>4. CASE VerifyClaims BY <1>4, VerificationFlow
<1>5. CASE RenderSections BY <1>5, SectionsFlow
<1>6. CASE AssembleReview \/ ReflectReview \/ FinalizingHandoff \/ PersistReview
  <2>1. stage \in Written /\ UNCHANGED <<claims, ledger, verdicts, drafts>>
    BY <1>6 DEF AssembleReview, ReflectReview, FinalizingHandoff, PersistReview, Written
  <2>2. stage' \in {"render_sections", "failed", "retryable"} \cup Written
    <3>1. CASE AssembleReview BY <3>1 DEF AssembleReview, Fails, Written
    <3>2. CASE ReflectReview
      BY <3>2 DEF ReflectReview, CompleteReflection, EffectiveDecision, Fails, Written
    <3>3. CASE FinalizingHandoff BY <3>3 DEF FinalizingHandoff, Fails, Written
    <3>4. CASE PersistReview BY <3>4 DEF PersistReview, Fails, Written
    <3> QED BY <1>6, <3>1, <3>2, <3>3, <3>4
  <2> QED BY <2>1, <2>2, FlowStands DEF FlowInv, Early, Claimless, Written
<1>7. CASE FinalizeTaskReview BY <1>7, EndFlow DEF FinalizeTaskReview
<1>8. CASE Cancelled BY <1>8, EndFlow DEF Cancelled
<1>9. CASE UNCHANGED vars
  <2>1. UNCHANGED <<stage, changed, claims, ledger, verdicts, claimItems, drafts>>
    BY <1>9 DEF vars
  <2>2. SupportedIsLive' /\ WrittenIsSupported'
        /\ ((\A c \in Active : Judged(c)) => (\A c \in Active : Judged(c))')
    BY <2>1, FlowStands
  <2>3. Active' = Active /\ \A c : HashOf(c)' = HashOf(c)
    BY <2>1 DEF Active, Claims, Absent, HashOf, ClaimHash
  <2>4. NoDrafts' = NoDrafts /\ NoClaims' = NoClaims /\ Absent' = Absent
    BY DEF NoDrafts, NoClaims, Absent
  <2> QED BY <2>1, <2>2, <2>3, <2>4 DEF FlowInv, Early, Claimless, Written
<1> QED BY <1>1, <1>2, <1>3, <1>4, <1>5, <1>6, <1>7, <1>8, <1>9 DEF Next

(* Every section states just what is supported: the claims that are, in the *)
(* wording that was verified, with papers whose evidence was found for it.  *)
THEOREM WritesTheSupported == Spec => []WrittenIsSupported
<1>1. Spec => []FlowInv
  BY FlowStarts, FlowIsKept, PTL DEF Spec
<1>2. FlowInv => WrittenIsSupported
  BY DEF FlowInv
<1> QED BY <1>1, <1>2, PTL

\* The step of SettledStays.
Settles == \A c \in ClaimIds : SettledIn(c) /\ stage' # "done" =>
             claims'[c] = claims[c] /\ verdicts'[c] = verdicts[c]

LEMMA SettledInStep == FlowInv /\ [Next]_vars => [Settles]_vars
<1> SUFFICES ASSUME FlowInv, Next, NEW c \in ClaimIds, SettledIn(c), stage' # "done"
             PROVE  claims'[c] = claims[c] /\ verdicts'[c] = verdicts[c]
  BY DEF Settles
<1> USE DEF claimVars, writingVars
<1>1. c \in Active /\ verdicts[c] # Absent /\ verdicts[c].status = "supported" /\ CachedVerdict(c)
  BY DEF SettledIn, CachedVerdict
<1>2. CASE GenerateClaims
  <2>1. verdicts' = verdicts
    BY <1>2 DEF GenerateClaims
  <2> QED BY <1>1, <1>2, <2>1, SupportedIsKept
<1>3. CASE VerifyClaims
  <2>1. claims' = claims
    BY <1>3 DEF VerifyClaims
  <2>2. CASE verdicts' = verdicts
    BY <2>1, <2>2
  <2>3. CASE verdicts' # verdicts
    <3>1. PICK judged \in [Active -> UNION {BoundVerdicts(d) : d \in Active}] :
            /\ \A d \in Active : CachedVerdict(d) => judged[d] = verdicts[d]
            /\ VerifiedAll(judged)
      BY <1>3, <2>3 DEF VerifyClaims
    <3>2. verdicts' = [d \in ClaimIds |-> IF d \in Active THEN judged[d] ELSE Absent]
      BY <1>1, <3>1 DEF VerifiedAll
    <3> QED BY <1>1, <2>1, <3>1, <3>2
  <2> QED BY <2>2, <2>3
<1>4. CASE FinalizeTaskReview \/ Cancelled
  BY <1>4 DEF FinalizeTaskReview, Cancelled, Ends
<1>5. CASE ~ (GenerateClaims \/ VerifyClaims \/ FinalizeTaskReview \/ Cancelled)
  <2>1. claims' = claims /\ verdicts' = verdicts
    BY <1>5 DEF Next, InitializeReview, LoadTaskCorpus, ExtractStudies, GenerateFramework,
       RetrieveEvidence, RenderSections, AssembleReview, ReflectReview, FinalizingHandoff,
       PersistReview
  <2> QED BY <2>1
<1> QED BY <1>2, <1>3, <1>4, <1>5

(* A claim that is supported and asks for nothing is neither dropped nor    *)
(* rewritten nor judged again by any later round.                           *)
THEOREM SettledIsLeftAlone == Spec => SettledStays
<1>1. Spec => []FlowInv
  BY FlowStarts, FlowIsKept, PTL DEF Spec
<1>2. Settles <=> \A c \in ClaimIds : SettledIn(c) /\ stage' # "done" =>
                    claims'[c] = claims[c] /\ verdicts'[c] = verdicts[c]
  BY DEF Settles
<1> QED BY <1>1, SettledInStep, PTL DEF Spec, SettledStays, Settles

-----------------------------------------------------------------------------
(* The budgets.                                                             *)

\* A claim set that keeps to the limits of its sections has no more members
\* than there are places: give each claim the place of its rank.
LEMMA ClaimsHavePlaces ==
  ASSUME NEW D \in SUBSET ClaimIds, NEW section \in [D -> Sections],
         NEW limit \in [Sections -> 0..SectionClaims],
         \A s \in Sections : Cardinality({c \in D : section[c] = s}) <= limit[s]
  PROVE  /\ IsFiniteSet(D) /\ IsFiniteSet(Places(limit))
         /\ Cardinality(D) <= Cardinality(Places(limit))
<1> USE ReviewAssumption
<1> DEFINE Upto(c) == {d \in D : section[d] = section[c] /\ d <= c}
           place == [c \in D |-> <<section[c], Cardinality(Upto(c))>>]
<1>1. IsFiniteSet(D) /\ D \subseteq Nat
  <2>1. MaxClaims \in Nat
    OBVIOUS
  <2>2. IsFiniteSet(ClaimIds) /\ ClaimIds \subseteq Nat
    <3>1. IsFiniteSet(1..MaxClaims)
      BY <2>1, FS_Interval
    <3>2. 1..MaxClaims \subseteq Nat
      BY <2>1
    <3> QED BY <3>1, <3>2 DEF ClaimIds
  <2> QED BY <2>2, FS_Subset
<1>2. IsFiniteSet(Places(limit)) /\ Cardinality(Places(limit)) \in Nat
  <2>1. IsFiniteSet(1..SectionClaims)
    BY FS_Interval
  <2>2. IsFiniteSet(Sections \X (1..SectionClaims))
    BY <2>1, FS_Product
  <2>3. Places(limit) \in SUBSET (Sections \X (1..SectionClaims))
    BY DEF Places
  <2> QED BY <2>2, <2>3, FS_Subset, FS_CardinalityType
<1>3. ASSUME NEW c \in D
      PROVE  /\ IsFiniteSet(Upto(c)) /\ Cardinality(Upto(c)) \in 1..limit[section[c]]
  <2> DEFINE all == {d \in D : section[d] = section[c]}
  <2>1. all \in SUBSET D /\ Upto(c) \in SUBSET all /\ c \in Upto(c)
    BY <1>1
  <2>2. IsFiniteSet(all) /\ IsFiniteSet(Upto(c))
    BY <1>1, <2>1, FS_Subset
  <2>3. Cardinality(Upto(c)) <= Cardinality(all)
    BY <2>1, <2>2, FS_Subset
  <2>4. Cardinality(all) <= limit[section[c]]
    OBVIOUS
  <2>5. Cardinality(Upto(c)) # 0
    BY <2>1, <2>2, FS_EmptySet
  <2>6. Cardinality(Upto(c)) \in Nat /\ Cardinality(all) \in Nat /\ limit[section[c]] \in Nat
    <3>1. section[c] \in Sections /\ SectionClaims \in Nat
      OBVIOUS
    <3>2. limit[section[c]] \in 0..SectionClaims
      BY <3>1
    <3>3. limit[section[c]] \in Nat
      BY <3>1, <3>2
    <3>4. Cardinality(Upto(c)) \in Nat /\ Cardinality(all) \in Nat
      BY <2>2, FS_CardinalityType
    <3> QED BY <3>3, <3>4
  <2> HIDE DEF Upto, all
  <2> QED BY <2>2, <2>3, <2>4, <2>5, <2>6
<1>4. ASSUME NEW c \in D, NEW d \in D, section[c] = section[d], c < d
      PROVE  Cardinality(Upto(c)) # Cardinality(Upto(d))
  <2>1. c \in Int /\ d \in Int /\ \A e \in D : e \in Int
    BY <1>1
  <2>2. d <= d /\ ~ (d <= c) /\ \A e \in D : e <= c => e <= d
    BY <1>4, <2>1
  <2>3. d \in Upto(d) /\ d \notin Upto(c)
    BY <2>2
  <2>4. Upto(c) \in SUBSET Upto(d)
    BY <1>4, <2>2
  <2>5. IsFiniteSet(Upto(d))
    BY <1>3
  <2> HIDE DEF Upto
  <2> QED BY <2>3, <2>4, <2>5, FS_Subset
<1>5. ASSUME NEW c \in D PROVE place[c] \in Places(limit)
  <2>1. section[c] \in Sections /\ limit[section[c]] \in 0..SectionClaims
    OBVIOUS
  <2>2. Cardinality(Upto(c)) \in 1..SectionClaims
    BY <1>3, <2>1
  <2> HIDE DEF Upto
  <2>3. place[c] = <<section[c], Cardinality(Upto(c))>>
    OBVIOUS
  <2>4. Cardinality(Upto(c)) <= limit[section[c]]
    BY <1>3, <2>1
  <2> QED BY <2>1, <2>2, <2>3, <2>4 DEF Places
<1>6. place \in [D -> Places(limit)]
  BY <1>5
<1>7. ASSUME NEW c \in D, NEW d \in D, place[c] = place[d] PROVE c = d
  <2>1. section[c] = section[d] /\ Cardinality(Upto(c)) = Cardinality(Upto(d))
    BY <1>7
  <2>2. ~ (c < d) /\ ~ (d < c)
    BY <1>4, <2>1
  <2> QED BY <1>1, <2>2
<1>8. ~ (Cardinality(Places(limit)) < Cardinality(D))
  <2> HIDE DEF place
  <2> QED BY <1>1, <1>2, <1>6, <1>7, FS_PigeonHole
<1> QED BY <1>1, <1>2, <1>8, FS_CardinalityType

\* The claims that stand in a section.
ActiveIn(s) == {c \in Active : claims[c].section = s}

\* What generation relies on: only live claims are to be revised.
BudgetInv ==
  /\ ReviewInv
  /\ round \in Nat /\ writingRound \in Nat
  /\ claimItems \subseteq Active

\* The claims of a review are finitely many.
LEMMA FinitelyManyClaims ==
  ASSUME NEW S \in SUBSET ClaimIds PROVE IsFiniteSet(S) /\ Cardinality(S) \in Nat
<1>1. 1 \in Int /\ MaxClaims \in Int
  BY ReviewAssumption
<1>2. IsFiniteSet(ClaimIds)
  BY <1>1, FS_Interval DEF ClaimIds
<1> QED BY <1>2, FS_Subset, FS_CardinalityType

\* A smaller set of claims is no larger in number, two sets no more than both.
LEMMA FewerClaims ==
  ASSUME NEW S \in SUBSET ClaimIds, NEW T \in SUBSET S
  PROVE  Cardinality(T) <= Cardinality(S)
BY FinitelyManyClaims, FS_Subset

LEMMA ClaimsTogether ==
  ASSUME NEW S \in SUBSET ClaimIds, NEW T \in SUBSET ClaimIds
  PROVE  Cardinality(S \cup T) <= Cardinality(S) + Cardinality(T)
<1>1. S \cap T \in SUBSET ClaimIds
  OBVIOUS
<1>2. Cardinality(S \cap T) \in Nat /\ Cardinality(S) \in Nat /\ Cardinality(T) \in Nat
  BY <1>1, FinitelyManyClaims
<1>3. Cardinality(S \cup T) = Cardinality(S) + Cardinality(T) - Cardinality(S \cap T)
  BY FinitelyManyClaims, FS_Union
<1> QED BY <1>2, <1>3

\* What a revision keeps is in its place, and alive only if it was.
LEMMA KeptClaims ==
  ASSUME BudgetInv, stage = "generate_claims", NEW kept \in Revised
  PROVE  /\ DOMAIN kept \subseteq ClaimIds
         /\ \A c \in DOMAIN kept :
              /\ kept[c] \in Content /\ kept[c].section = claims[c].section
              /\ ~kept[c].withdrawn => c \in Active
<1>1. kept \in [{c \in Claims : claims[c].section \notin changed} -> Content]
  BY DEF Revised
<1>2. DOMAIN kept \subseteq Claims
  BY <1>1
<1>3. ASSUME NEW c \in DOMAIN kept, ~kept[c].withdrawn PROVE c \in Active
  <2>1. CASE c \in claimItems
    BY <2>1 DEF BudgetInv
  <2>2. CASE c \notin claimItems
    <3>1. kept[c] = claims[c]
      BY <2>2 DEF Revised
    <3> QED BY <1>2, <1>3, <3>1 DEF Active
  <2> QED BY <2>1, <2>2
<1>4. \A c \in DOMAIN kept : kept[c] \in Content /\ kept[c].section = claims[c].section
  BY <1>1 DEF Revised
<1> QED BY <1>2, <1>3, <1>4 DEF Claims

\* New claims have ids, and are no more than the budgets of their sections.
LEMMA NewClaims ==
  ASSUME NEW kept, DOMAIN kept \subseteq ClaimIds, NEW budget,
         NEW new \in Additions(kept, budget)
  PROVE  /\ DOMAIN new \subseteq ClaimIds
         /\ \A c \in DOMAIN new : new[c] \in Content
         /\ \A s \in Sections : Cardinality({c \in DOMAIN new : new[c].section = s}) <= budget[s]
<1>1. PICK last \in LastOf(kept), end \in 0..MaxClaims :
        /\ new \in [last + 1..end -> Content]
        /\ \A s \in Sections : Cardinality({c \in DOMAIN new : new[c].section = s}) <= budget[s]
  BY DEF Additions
<1>2. MaxClaims \in Nat
  BY ReviewAssumption
<1>3. last \in Nat
  BY <1>2 DEF LastOf, ClaimIds
<1>4. DOMAIN new = last + 1..end
  BY <1>1
<1>5. last + 1..end \subseteq ClaimIds
  BY <1>2, <1>3 DEF ClaimIds
<1> QED BY <1>1, <1>4, <1>5

\* The claims after a generation: the live ones are kept or new.
LEMMA LiveClaims ==
  ASSUME BudgetInv, stage = "generate_claims", NEW kept \in Revised,
         NEW budget \in ClaimBudgets(kept), NEW new \in Additions(kept, budget),
         Generates(kept, new)
  PROVE  /\ \A c \in ClaimIds : claims'[c] # Absent => claims'[c] \in Content
         /\ \A c \in Active' : \/ c \in DOMAIN kept /\ claims'[c] = kept[c] /\ ~kept[c].withdrawn
                               \/ c \in DOMAIN new /\ claims'[c] = new[c]
<1>1. /\ DOMAIN kept \subseteq ClaimIds /\ \A c \in DOMAIN kept : kept[c] \in Content
  BY KeptClaims
<1>2. \A c \in DOMAIN new : new[c] \in Content
  BY <1>1, NewClaims
<1>3. \A c \in ClaimIds : claims'[c] = IF c \in DOMAIN kept THEN kept[c]
                                       ELSE IF c \in DOMAIN new THEN new[c] ELSE Absent
  BY DEF Generates, MadeOf
<1>4. \A c \in ClaimIds : claims'[c] # Absent => claims'[c] \in Content
  BY <1>1, <1>2, <1>3
<1>5. Active' = {c \in ClaimIds : claims'[c] # Absent /\ ~claims'[c].withdrawn}
  BY DEF Active, Claims, Absent
<1> QED BY <1>3, <1>4, <1>5

\* So no section and no review holds more of them than it may.
LEMMA GenerationKeepsBudgets ==
  ASSUME BudgetInv, stage = "generate_claims", NEW kept \in Revised,
         NEW budget \in ClaimBudgets(kept), NEW new \in Additions(kept, budget),
         Generates(kept, new)
  PROVE  /\ \A s \in Sections : Cardinality(ActiveIn(s)') <= SectionClaims
         /\ Cardinality(Active') <= ReviewClaims
<1> DEFINE live == {c \in DOMAIN kept : ~kept[c].withdrawn}
           liveIn(s) == {c \in live : kept[c].section = s}
           addedIn(s) == {c \in DOMAIN new : new[c].section = s}
           room == [s \in Sections |-> SectionClaims - Cardinality(liveIn(s))]
           left == IF Cardinality(live) > ReviewClaims THEN 0
                   ELSE ReviewClaims - Cardinality(live)
<1>1. SectionClaims \in Nat /\ ReviewClaims \in Nat
  BY ReviewAssumption
<1>2. /\ budget \in [Sections -> 0..SectionClaims]
      /\ \A s \in Sections : budget[s] = 0 \/ budget[s] <= room[s]
      /\ Cardinality(Places(budget)) = Lesser(Cardinality(Places(room)), left)
  BY DEF ClaimBudgets
<1>3. live \subseteq Active /\ \A s \in Sections : liveIn(s) \subseteq ActiveIn(s)
  BY KeptClaims DEF ActiveIn
<1>4. Active \subseteq ClaimIds
  BY DEF Active, Claims
<1>5. /\ DOMAIN new \subseteq ClaimIds
      /\ \A c \in DOMAIN new : new[c] \in Content
      /\ \A s \in Sections : Cardinality(addedIn(s)) <= budget[s]
  BY KeptClaims, NewClaims
<1>6. Active' \subseteq live \cup DOMAIN new /\ Active' \subseteq ClaimIds
  BY <1>3, <1>4, <1>5, LiveClaims
<1>7. ASSUME NEW s \in Sections PROVE Cardinality(ActiveIn(s)') <= SectionClaims
  <2>1. ActiveIn(s)' \subseteq liveIn(s) \cup addedIn(s)
    BY LiveClaims DEF ActiveIn
  <2>2. /\ liveIn(s) \in SUBSET ClaimIds /\ addedIn(s) \in SUBSET ClaimIds
        /\ ActiveIn(s) \in SUBSET ClaimIds /\ liveIn(s) \cup addedIn(s) \in SUBSET ClaimIds
    BY <1>3, <1>4, <1>5 DEF ActiveIn
  <2>3. Cardinality(ActiveIn(s)') <= Cardinality(liveIn(s) \cup addedIn(s))
    BY <2>1, <2>2, FewerClaims
  <2>4. Cardinality(liveIn(s) \cup addedIn(s)) <= Cardinality(liveIn(s)) + Cardinality(addedIn(s))
    BY <2>2, ClaimsTogether
  <2>5. Cardinality(liveIn(s)) <= Cardinality(ActiveIn(s))
    BY <1>3, <2>2, FewerClaims
  <2>6. Cardinality(ActiveIn(s)) <= SectionClaims
    BY DEF BudgetInv, ReviewInv, ActiveIn
  <2>7. budget[s] = 0 \/ budget[s] <= SectionClaims - Cardinality(liveIn(s))
    BY <1>2
  <2>8. budget[s] \in Nat /\ Cardinality(addedIn(s)) <= budget[s]
    BY <1>1, <1>2, <1>5
  <2>9. /\ Cardinality(liveIn(s)) \in Nat /\ Cardinality(addedIn(s)) \in Nat
        /\ Cardinality(ActiveIn(s)) \in Nat /\ Cardinality(ActiveIn(s)') \in Nat
        /\ Cardinality(liveIn(s) \cup addedIn(s)) \in Nat
    <3>1. ActiveIn(s)' \in SUBSET ClaimIds
      BY <2>1, <2>2
    <3> QED BY <2>2, <3>1, FinitelyManyClaims
  <2> HIDE DEF liveIn, addedIn
  <2> QED BY <1>1, <2>3, <2>4, <2>5, <2>6, <2>7, <2>8, <2>9
<1>8. Cardinality(DOMAIN new) <= left
  <2>1. DOMAIN new \in SUBSET ClaimIds
    BY <1>5
  <2>2. PICK section \in [DOMAIN new -> Sections] : \A c \in DOMAIN new : section[c] = new[c].section
    <3>1. [c \in DOMAIN new |-> new[c].section] \in [DOMAIN new -> Sections]
      BY <1>5 DEF Content
    <3> QED BY <3>1
  <2>3. \A s \in Sections : {c \in DOMAIN new : section[c] = s} = addedIn(s)
    BY <2>2
  <2>4. \A s \in Sections : Cardinality({c \in DOMAIN new : section[c] = s}) <= budget[s]
    <3> HIDE DEF addedIn
    <3> QED BY <1>5, <2>3
  <2>5. Cardinality(DOMAIN new) <= Cardinality(Places(budget)) /\ IsFiniteSet(Places(budget))
    BY <1>2, <2>1, <2>4, ClaimsHavePlaces
  <2>6. left \in Int
    <3>1. Cardinality(live) \in Nat
      BY <1>3, <1>4, FinitelyManyClaims
    <3> HIDE DEF live
    <3> QED BY <1>1, <3>1
  <2>7. Cardinality(Places(room)) \in Nat
    <3>1. IsFiniteSet(Sections \X (1..SectionClaims))
      <4>1. 1 \in Int /\ SectionClaims \in Int
        BY <1>1
      <4>2. IsFiniteSet(1..SectionClaims)
        BY <4>1, FS_Interval
      <4> QED BY <4>2, ReviewAssumption, FS_Product
    <3>2. Places(room) \in SUBSET (Sections \X (1..SectionClaims))
      BY DEF Places
    <3> HIDE DEF room
    <3> QED BY <3>1, <3>2, FS_Subset, FS_CardinalityType
  <2>8. Cardinality(DOMAIN new) \in Nat /\ Cardinality(Places(budget)) \in Nat
    BY <2>1, <2>5, FinitelyManyClaims, FS_CardinalityType
  <2> HIDE DEF room, left
  <2>9. Cardinality(Places(budget)) <= left
    BY <1>2, <2>6, <2>7 DEF Lesser
  <2> QED BY <2>5, <2>6, <2>8, <2>9
<1>9. Cardinality(Active') <= ReviewClaims
  <2>1. /\ live \in SUBSET ClaimIds /\ DOMAIN new \in SUBSET ClaimIds
        /\ Active \in SUBSET ClaimIds /\ live \cup DOMAIN new \in SUBSET ClaimIds
    BY <1>3, <1>4, <1>5
  <2>2. Cardinality(Active') <= Cardinality(live \cup DOMAIN new)
    BY <1>6, <2>1, FewerClaims
  <2>3. Cardinality(live \cup DOMAIN new) <= Cardinality(live) + Cardinality(DOMAIN new)
    BY <2>1, ClaimsTogether
  <2>4. Cardinality(live) <= Cardinality(Active)
    BY <1>3, <2>1, FewerClaims
  <2>5. Cardinality(Active) <= ReviewClaims
    BY DEF BudgetInv, ReviewInv
  <2>6. /\ Cardinality(live) \in Nat /\ Cardinality(DOMAIN new) \in Nat
        /\ Cardinality(Active) \in Nat /\ Cardinality(Active') \in Nat
        /\ Cardinality(live \cup DOMAIN new) \in Nat
    <3>1. Active' \in SUBSET ClaimIds
      BY <1>6
    <3> QED BY <2>1, <3>1, FinitelyManyClaims
  <2> HIDE DEF live
  <2> QED BY <1>1, <1>8, <2>2, <2>3, <2>4, <2>5, <2>6
<1> QED BY <1>7, <1>9

LEMMA BudgetStarts == Init => BudgetInv
<1> SUFFICES ASSUME Init PROVE BudgetInv
  OBVIOUS
<1>1. Active = {} /\ \A s \in Sections : {c \in Active : claims[c].section = s} = {}
  BY DEF Init, NoClaims, Active, Claims
<1>2. 0 < MaxReflectionRounds /\ 0 <= MaxWritingRounds /\ 0 <= SectionClaims /\ 0 <= ReviewClaims
  BY ReviewAssumption
<1>3. \A c \in ClaimIds : claims[c] = Absent
  BY DEF Init, NoClaims
<1> QED BY <1>1, <1>2, <1>3, FS_EmptySet DEF Init, BudgetInv, ReviewInv, Stages

\* What is said of the claims stands while they do.
LEMMA SameClaims ==
  ASSUME BudgetInv, UNCHANGED claims
  PROVE  /\ Active' = Active
         /\ \A s \in Sections : Cardinality({c \in Active' : claims'[c].section = s}) <= SectionClaims
         /\ Cardinality(Active') <= ReviewClaims
         /\ \A c \in ClaimIds : claims'[c] # Absent' => claims'[c] \in Content'
<1>1. Active' = Active
  BY DEF Active, Claims, Absent
<1>2. Absent' = Absent /\ Content' = Content
  BY DEF Absent, Content
<1> QED BY <1>1, <1>2 DEF BudgetInv, ReviewInv

\* A node that leaves claims, corpus, profiles and rounds alone.
LEMMA BudgetStands ==
  ASSUME BudgetInv, UNCHANGED <<corpus, profiles, claims, claimItems, round>>,
         stage' \in Stages,
         writingRound' \in Nat, writingRound' <= MaxWritingRounds,
         answer' \in {"none", "success", "retryable", "error", "raised"}
  PROVE  BudgetInv'
<1>1. \A c \in ClaimIds : claims'[c] # Absent' =>
        claims'[c] \in Content' /\ claims'[c].plan \subseteq corpus'
  BY SameClaims DEF BudgetInv, ReviewInv, Absent
<1>2. ReviewInv'
  BY <1>1, SameClaims DEF BudgetInv, ReviewInv, Stages
<1> QED BY <1>2, SameClaims DEF BudgetInv

LEMMA EndKeepsBudget ==
  ASSUME BudgetInv, NEW result \in {"success", "error", "retryable", "raised"}, Ends(result)
  PROVE  BudgetInv'
<1>1. Active' = {} /\ \A s \in Sections : {c \in Active' : claims'[c].section = s} = {}
  BY DEF Ends, NoClaims, Active, Claims, Absent
<1>2. 0 < MaxReflectionRounds /\ 0 <= MaxWritingRounds /\ 0 <= SectionClaims /\ 0 <= ReviewClaims
  BY ReviewAssumption
<1>3. \A c \in ClaimIds : claims'[c] = Absent'
  BY DEF Ends, NoClaims, Absent
<1>4. ReviewInv'
  BY <1>1, <1>2, <1>3, FS_EmptySet DEF BudgetInv, ReviewInv, Ends, Stages
<1> QED BY <1>4 DEF BudgetInv, Ends

LEMMA GenerationBudget == ASSUME BudgetInv, GenerateClaims PROVE BudgetInv'
<1>1. /\ stage = "generate_claims"
      /\ UNCHANGED <<corpus, profiles, round, writingRound, answer>>
  BY DEF GenerateClaims, writingVars
<1>2. CASE stage' = "retryable" /\ UNCHANGED <<claims, claimItems, addItems, changed>>
  BY <1>1, <1>2, BudgetStands DEF BudgetInv, ReviewInv, Stages
<1>3. CASE \E kept \in Revised : \E budget \in ClaimBudgets(kept) :
           \E new \in Additions(kept, budget) : Generates(kept, new)
  <2>1. PICK kept \in Revised : \E budget \in ClaimBudgets(kept) :
          \E new \in Additions(kept, budget) : Generates(kept, new)
    BY <1>3
  <2>2. PICK budget \in ClaimBudgets(kept) : \E new \in Additions(kept, budget) : Generates(kept, new)
    BY <2>1
  <2>3. PICK new \in Additions(kept, budget) : Generates(kept, new)
    BY <2>2
  <2>4. \A c \in ClaimIds : claims'[c] # Absent =>
          claims'[c] \in Content /\ claims'[c].plan \subseteq corpus
    BY <1>1, <2>3, LiveClaims DEF Generates
  <2>5. \A c \in ClaimIds : claims'[c] # Absent' =>
          claims'[c] \in Content' /\ claims'[c].plan \subseteq corpus'
    BY <1>1, <2>4 DEF Absent, Content
  <2>6. /\ \A s \in Sections : Cardinality({c \in Active' : claims'[c].section = s}) <= SectionClaims
        /\ Cardinality(Active') <= ReviewClaims
    BY <1>1, <2>3, GenerationKeepsBudgets DEF ActiveIn
  <2>7. stage' = "retrieve_evidence" /\ claimItems' = {}
    BY <2>3 DEF Generates
  <2>8. ReviewInv'
    BY <1>1, <2>5, <2>6, <2>7 DEF BudgetInv, ReviewInv, Stages
  <2> QED BY <1>1, <2>7, <2>8 DEF BudgetInv
<1> QED BY <1>2, <1>3, Generated

LEMMA VerificationBudget == ASSUME BudgetInv, VerifyClaims PROVE BudgetInv'
<1>1. /\ stage = "verify_claims"
      /\ UNCHANGED <<corpus, profiles, claims, writingRound, answer>>
  BY DEF VerifyClaims, writingVars
<1>2. CASE \E r \in BOOLEAN : Fails(r) /\ UNCHANGED <<claimItems, round>>
  BY <1>1, <1>2, BudgetStands DEF BudgetInv, ReviewInv, Stages, Fails
<1>3. CASE \E judged \in [Active -> UNION {BoundVerdicts(c) : c \in Active}] : VerifiedAll(judged)
  <2>1. PICK judged \in [Active -> UNION {BoundVerdicts(c) : c \in Active}] : VerifiedAll(judged)
    BY <1>3
  <2> DEFINE revise == {c \in Active : judged[c].status = "unsupported"}
             add    == {claims[c].section : c \in {d \in Active : judged[d].adds}}
  <2>2. \/ /\ stage' = "render_sections" /\ claimItems' = {} /\ UNCHANGED round
        \/ /\ ~ (round >= MaxReflectionRounds - 1)
           /\ ScheduleClaimRevision(revise, add)
    BY <2>1 DEF VerifiedAll
  <2>3. /\ claimItems' \subseteq Active
        /\ \/ stage' \in {"render_sections", "failed"} /\ round' = round
           \/ /\ stage' = "generate_claims" /\ round' = round + 1
              /\ ~ (round >= MaxReflectionRounds - 1)
    BY <2>2 DEF ScheduleClaimRevision, Fails
  <2>4. MaxReflectionRounds \in Nat /\ round \in Nat /\ round < MaxReflectionRounds
    BY ReviewAssumption DEF BudgetInv, ReviewInv
  <2>5. round' \in Nat /\ round' < MaxReflectionRounds
    BY <2>3, <2>4
  <2>6. \A c \in ClaimIds : claims'[c] # Absent' =>
          claims'[c] \in Content' /\ claims'[c].plan \subseteq corpus'
    BY <1>1, SameClaims DEF BudgetInv, ReviewInv, Absent
  <2>7. ReviewInv'
    BY <1>1, <2>3, <2>5, <2>6, SameClaims DEF BudgetInv, ReviewInv, Stages
  <2>8. Active' = Active
    BY <1>1, SameClaims
  <2> QED BY <1>1, <2>3, <2>5, <2>7, <2>8 DEF BudgetInv
<1> QED BY <1>2, <1>3 DEF VerifyClaims

LEMMA ReflectionBudget == ASSUME BudgetInv, ReflectReview PROVE BudgetInv'
<1>1. /\ UNCHANGED <<corpus, profiles, claims, claimItems, round, answer>>
  BY DEF ReflectReview, claimVars
<1>2. MaxWritingRounds \in Nat /\ writingRound \in Nat /\ writingRound <= MaxWritingRounds
  BY ReviewAssumption DEF BudgetInv, ReviewInv
<1>3. CASE Fails(TRUE) /\ UNCHANGED writingRound
  BY <1>1, <1>2, <1>3, BudgetStands DEF Fails, Stages, BudgetInv, ReviewInv
<1>4. CASE \E decision \in {"pass", "revise", "blocked"}, hardIssues \in BOOLEAN,
              targets \in SUBSET Sections : CompleteReflection(decision, hardIssues, targets)
  <2>1. PICK decision \in {"pass", "revise", "blocked"}, hardIssues \in BOOLEAN,
             targets \in SUBSET Sections : CompleteReflection(decision, hardIssues, targets)
    BY <1>4
  <2>2. CASE EffectiveDecision(decision, hardIssues) = "revise"
    <3>1. ~ (writingRound >= MaxWritingRounds)
      BY <2>1, <2>2 DEF EffectiveDecision
    <3>2. /\ writingRound' = writingRound + 1
          /\ stage' \in {"assemble_review", "render_sections"}
      BY <2>1, <2>2 DEF CompleteReflection
    <3> QED BY <1>1, <1>2, <3>1, <3>2, BudgetStands DEF Stages, BudgetInv, ReviewInv
  <2>3. CASE EffectiveDecision(decision, hardIssues) # "revise"
    <3>1. EffectiveDecision(decision, hardIssues) \in {"pass", "blocked"}
      BY <2>1, <2>3 DEF EffectiveDecision
    <3>2. writingRound' = writingRound /\ stage' \in {"finalizing_handoff", "failed"}
      BY <2>1, <3>1 DEF CompleteReflection, Fails
    <3> QED BY <1>1, <1>2, <3>2, BudgetStands DEF Stages, BudgetInv, ReviewInv
  <2> QED BY <2>2, <2>3
<1> QED BY <1>3, <1>4 DEF ReflectReview

LEMMA BudgetIsKept == BudgetInv /\ FlowInv /\ [Next]_vars => BudgetInv'
<1> SUFFICES ASSUME BudgetInv, FlowInv, [Next]_vars PROVE BudgetInv'
  OBVIOUS
<1> USE DEF claimVars, writingVars
<1>1. CASE InitializeReview
  <2>1. stage' \in {"load_task_corpus", "failed"}
    BY <1>1 DEF InitializeReview, Fails
  <2> QED BY <1>1, <2>1, BudgetStands DEF InitializeReview, BudgetInv, ReviewInv, Stages
<1>2. CASE LoadTaskCorpus
  <2>1. /\ stage = "load_task_corpus" /\ corpus' \subseteq Papers
        /\ stage' \in {"failed", "blocked", "extract_studies"}
        /\ UNCHANGED <<profiles, claims, claimItems, round, writingRound, answer>>
    BY <1>2 DEF LoadTaskCorpus, Fails, BudgetInv, ReviewInv
  <2>2. \A c \in ClaimIds : claims'[c] = Absent'
    BY <2>1 DEF FlowInv, Claimless, NoClaims, Absent
  <2>3. ReviewInv'
    BY <2>1, <2>2, SameClaims DEF BudgetInv, ReviewInv, Stages
  <2> QED BY <2>1, <2>3, SameClaims DEF BudgetInv
<1>3. CASE ExtractStudies
  <2>1. /\ profiles' \subseteq Papers
        /\ stage' \in {"generate_framework", "retryable", "failed"}
        /\ UNCHANGED <<corpus, claims, claimItems, round, writingRound, answer>>
    BY <1>3 DEF ExtractStudies, Extractions, Fails, BudgetInv, ReviewInv
  <2>2. \A c \in ClaimIds : claims'[c] # Absent' =>
          claims'[c] \in Content' /\ claims'[c].plan \subseteq corpus'
    BY <2>1, SameClaims DEF BudgetInv, ReviewInv, Absent
  <2>3. ReviewInv'
    BY <2>1, <2>2, SameClaims DEF BudgetInv, ReviewInv, Stages
  <2> QED BY <2>1, <2>3, SameClaims DEF BudgetInv
<1>4. CASE GenerateFramework
  <2>1. stage' \in {"generate_claims", "retryable", "failed"}
    BY <1>4 DEF GenerateFramework, Fails
  <2> QED BY <1>4, <2>1, BudgetStands DEF GenerateFramework, BudgetInv, ReviewInv, Stages
<1>5. CASE GenerateClaims
  BY <1>5, GenerationBudget
<1>6. CASE RetrieveEvidence
  <2>1. stage' \in {"verify_claims", "retryable"}
    BY <1>6 DEF RetrieveEvidence, Fails
  <2> QED BY <1>6, <2>1, BudgetStands DEF RetrieveEvidence, BudgetInv, ReviewInv, Stages
<1>7. CASE VerifyClaims
  BY <1>7, VerificationBudget
<1>8. CASE RenderSections
  <2>1. stage' \in {"assemble_review", "retryable"}
    BY <1>8 DEF RenderSections, Fails
  <2> QED BY <1>8, <2>1, BudgetStands DEF RenderSections, BudgetInv, ReviewInv, Stages
<1>9. CASE AssembleReview
  <2>1. stage' \in {"reflect_review", "failed"}
    BY <1>9 DEF AssembleReview, Fails
  <2> QED BY <1>9, <2>1, BudgetStands DEF AssembleReview, BudgetInv, ReviewInv, Stages
<1>10. CASE ReflectReview
  BY <1>10, ReflectionBudget
<1>11. CASE FinalizingHandoff
  <2>1. stage' \in {"persist_review", "failed"}
    BY <1>11 DEF FinalizingHandoff, Fails
  <2> QED BY <1>11, <2>1, BudgetStands DEF FinalizingHandoff, BudgetInv, ReviewInv, Stages
<1>12. CASE PersistReview
  <2>1. stage' \in {"completed", "failed"}
    BY <1>12 DEF PersistReview, Fails
  <2> QED BY <1>12, <2>1, BudgetStands DEF PersistReview, BudgetInv, ReviewInv, Stages
<1>13. CASE FinalizeTaskReview
  BY <1>13, EndKeepsBudget DEF FinalizeTaskReview
<1>14. CASE Cancelled
  BY <1>14, EndKeepsBudget DEF Cancelled
<1>15. CASE UNCHANGED vars
  <2>1. UNCHANGED <<stage, corpus, profiles, claims, claimItems, round, writingRound, answer>>
    BY <1>15 DEF vars
  <2>2. \A c \in ClaimIds : claims'[c] # Absent' =>
          claims'[c] \in Content' /\ claims'[c].plan \subseteq corpus'
    BY <2>1, SameClaims DEF BudgetInv, ReviewInv, Absent
  <2>3. ReviewInv'
    BY <2>1, <2>2, SameClaims DEF BudgetInv, ReviewInv, Stages
  <2> QED BY <2>1, <2>3, SameClaims DEF BudgetInv
<1> QED BY <1>1, <1>2, <1>3, <1>4, <1>5, <1>6, <1>7, <1>8, <1>9, <1>10, <1>11, <1>12, <1>13,
           <1>14, <1>15 DEF Next

(* The loops keep to their rounds, and no section and no review ever holds  *)
(* more live claims than its limit, however the claims are revised and the  *)
(* budget is dealt out.                                                     *)
THEOREM BudgetsAreKept == Spec => []ReviewInv
<1>1. Spec => []FlowInv
  BY FlowStarts, FlowIsKept, PTL DEF Spec
<1>2. BudgetInv => ReviewInv
  BY DEF BudgetInv
<1> QED BY <1>1, <1>2, BudgetStarts, BudgetIsKept, PTL DEF Spec

=============================================================================
