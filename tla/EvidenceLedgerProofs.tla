------------------------- MODULE EvidenceLedgerProofs -------------------------
(***************************************************************************)
(* Proofs about EvidenceLedger, for every set of claims, questions,        *)
(* queries, chunks and verdicts and for callers of every behaviour.        *)
(***************************************************************************)
EXTENDS EvidenceLedger, TLAPS

(* A log with one more event is a log.                                     *)
LEMMA WithEventType ==
  ASSUME NEW log \in [PipelineStage -> Nat], NEW stage \in PipelineStage
  PROVE  WithEvent(log, stage) \in [PipelineStage -> Nat]
  BY DEF WithEvent

(* Type correctness under every public method. *)
THEOREM TypeCorrect == Spec => []TypeOK
<1>1. Init => TypeOK
  BY DEF Init, TypeOK, LedgerType, EmptyLedger
<1>2. TypeOK /\ [Next]_vars => TypeOK'
  <2> SUFFICES ASSUME TypeOK, [Next]_vars PROVE TypeOK'
    OBVIOUS
  <2> USE WithEventType DEF TypeOK, LedgerType, PipelineStage
  <2>1. ASSUME NEW claims \in SUBSET Claim, RecordAtomicClaims(claims)
        PROVE  TypeOK'
    BY <2>1 DEF RecordAtomicClaims, record_atomic_claims
  <2>2. ASSUME NEW questions \in SUBSET ProbeQuestion(Claim, Question),
               RecordProbeQuestions(questions)
        PROVE  TypeOK'
    BY <2>2 DEF RecordProbeQuestions, record_probe_questions
  <2>3. ASSUME NEW queries \in SUBSET RetrievalQuery(Claim, Query),
               RecordRetrievalQueries(queries)
        PROVE  TypeOK'
    BY <2>3 DEF RecordRetrievalQueries, record_retrieval_queries
  <2>4. ASSUME NEW evidence \in
                 SUBSET RetrievedEvidence(Claim, Query, Chunk, Source),
               RecordRetrievedEvidence(evidence)
        PROVE  TypeOK'
    BY <2>4 DEF RecordRetrievedEvidence, record_retrieved_evidence
  <2>5. ASSUME NEW fused \in SUBSET FusedEvidence(Claim, Chunk),
               RecordFusedEvidence(fused)
        PROVE  TypeOK'
    BY <2>5 DEF RecordFusedEvidence, record_fused_evidence
  <2>6. ASSUME NEW results \in SUBSET NLIResult(Claim, Chunk, Score),
               RecordNLIResults(results)
        PROVE  TypeOK'
    BY <2>6 DEF RecordNLIResults, record_nli_results
  <2>7. ASSUME NEW contradictions \in SUBSET TraceRecords,
               NEW supporting \in SUBSET TraceRecords,
               NEW unsupported \in SUBSET Claim,
               RecordClassification(contradictions, supporting, unsupported)
        PROVE  TypeOK'
    BY <2>7 DEF RecordClassification, record_classification
  <2>8. ASSUME NEW verdict \in Verdict, SetFinalVerdict(verdict)
        PROVE  TypeOK'
    BY <2>8 DEF SetFinalVerdict, set_final_verdict
  <2>9. ASSUME NEW claim \in Claim, AddAtomicClaim(claim)
        PROVE  TypeOK'
    BY <2>9 DEF AddAtomicClaim, add_atomic_claim
  <2>10. ASSUME NEW question \in ProbeQuestion(Claim, Question),
               AddProbeQuestion(question)
        PROVE  TypeOK'
    BY <2>10 DEF AddProbeQuestion, add_probe_question
  <2>11. ASSUME NEW evidence \in RetrievedEvidence(Claim, Query, Chunk, Source),
               AddRetrievedEvidence(evidence)
        PROVE  TypeOK'
    BY <2>11 DEF AddRetrievedEvidence, add_retrieved_evidence
  <2>12. ASSUME NEW fused \in FusedEvidence(Claim, Chunk),
               AddFusedEvidence(fused)
        PROVE  TypeOK'
    BY <2>12 DEF AddFusedEvidence, add_fused_evidence
  <2>13. ASSUME NEW result \in NLIResult(Claim, Chunk, Score),
               AddNLIResult(result)
        PROVE  TypeOK'
    BY <2>13 DEF AddNLIResult, add_nli_result
  <2>14. ASSUME NEW record \in TraceRecords, AddContradiction(record)
        PROVE  TypeOK'
    BY <2>14 DEF AddContradiction, add_contradiction
  <2>15. ASSUME NEW record \in TraceRecords, AddSupportingEvidence(record)
        PROVE  TypeOK'
    BY <2>15 DEF AddSupportingEvidence, add_supporting_evidence
  <2>16. ASSUME NEW claim \in Claim, MarkUnsupported(claim)
        PROVE  TypeOK'
    BY <2>16 DEF MarkUnsupported, mark_unsupported
  <2>17. ASSUME NEW step \in Step, AddReasoningStep(step)
        PROVE  TypeOK'
    BY <2>17 DEF AddReasoningStep, add_reasoning_step
  <2>18. ASSUME NEW stage \in PipelineStage, LogEvent(stage)
        PROVE  TypeOK'
    BY <2>18 DEF LogEvent, log_event
  <2>19. CASE UNCHANGED vars
    BY <2>19 DEF vars
  <2>20. QED
    BY <2>1, <2>2, <2>3, <2>4, <2>5, <2>6, <2>7, <2>8, <2>9, <2>10, <2>11,
       <2>12, <2>13, <2>14, <2>15, <2>16, <2>17, <2>18, <2>19
       DEF Next, DriverNext
<1>3. QED
  BY <1>1, <1>2, PTL DEF Spec

-----------------------------------------------------------------------------
(* The chain of evidence under the drivers' methods.  Each method checks   *)
(* its records against the lists before it and extends one list that is    *)
(* still empty, so no earlier link can be cut.                             *)
THEOREM EvidenceChainHolds == DriverSpec => []EvidenceChain
<1> USE DEF EvidenceChain, JudgedWasFused, FusedWasRetrieved,
            RetrievedWasQueried, ClaimsAreRecorded, KnownClaims, ClaimIds,
            ClaimChunkPairs
<1>1. Init => EvidenceChain
  BY DEF Init, EmptyLedger
<1>2. EvidenceChain /\ [DriverNext]_vars => EvidenceChain'
  <2> SUFFICES ASSUME EvidenceChain, [DriverNext]_vars PROVE EvidenceChain'
    OBVIOUS
  <2>1. ASSUME NEW claims,
               RecordAtomicClaims(claims)
        PROVE  EvidenceChain'
    BY <2>1 DEF RecordAtomicClaims, record_atomic_claims, MayRecordAtomicClaims
  <2>2. ASSUME NEW questions,
               RecordProbeQuestions(questions)
        PROVE  EvidenceChain'
    BY <2>2 DEF RecordProbeQuestions, record_probe_questions, MayRecordProbeQuestions
  <2>3. ASSUME NEW queries,
               RecordRetrievalQueries(queries)
        PROVE  EvidenceChain'
    BY <2>3 DEF RecordRetrievalQueries, record_retrieval_queries, MayRecordRetrievalQueries
  <2>4. ASSUME NEW evidence,
               RecordRetrievedEvidence(evidence)
        PROVE  EvidenceChain'
    BY <2>4 DEF RecordRetrievedEvidence, record_retrieved_evidence, MayRecordRetrievedEvidence
  <2>5. ASSUME NEW fused,
               RecordFusedEvidence(fused)
        PROVE  EvidenceChain'
    BY <2>5 DEF RecordFusedEvidence, record_fused_evidence, MayRecordFusedEvidence
  <2>6. ASSUME NEW results,
               RecordNLIResults(results)
        PROVE  EvidenceChain'
    BY <2>6 DEF RecordNLIResults, record_nli_results, MayRecordNLIResults
  <2>7. ASSUME NEW contradictions, NEW supporting, NEW unsupported,
               RecordClassification(contradictions, supporting, unsupported)
        PROVE  EvidenceChain'
    BY <2>7 DEF RecordClassification, record_classification,
                MayRecordClassification
  <2>8. ASSUME NEW verdict, SetFinalVerdict(verdict)
        PROVE  EvidenceChain'
    BY <2>8 DEF SetFinalVerdict, set_final_verdict
  <2>9. CASE UNCHANGED vars
    BY <2>9 DEF vars
  <2>10. QED
    BY <2>1, <2>2, <2>3, <2>4, <2>5, <2>6, <2>7, <2>8, <2>9 DEF DriverNext
<1>3. QED
  BY <1>1, <1>2, PTL DEF DriverSpec

(* The batch methods alone are a way to use the public methods.            *)
LEMMA DriversArePublic == DriverSpec => Spec
<1>1. [DriverNext]_vars => [Next]_vars
  BY DEF Next
<1>2. QED
  BY <1>1, PTL DEF DriverSpec, Spec

-----------------------------------------------------------------------------
(* Upstream lists are frozen.  A list with records has, by the chain of    *)
(* evidence, records in the list before it; a list with records is final,  *)
(* and the claims are final once the claim id is set.                      *)
ClaimsAreFinal == ledger.atomic_claims # {} => ledger.original_claim_id # None

(* Claims are recorded with the id of the claim they are of.               *)
LEMMA ClaimsFinalHolds == DriverSpec => []ClaimsAreFinal
<1>1. Init => ClaimsAreFinal
  BY DEF Init, EmptyLedger, ClaimsAreFinal
<1>2. TypeOK /\ ClaimsAreFinal /\ [DriverNext]_vars => ClaimsAreFinal'
  BY NoneAssumption
     DEF TypeOK, LedgerType, ClaimsAreFinal, DriverNext, vars,
         RecordAtomicClaims, record_atomic_claims,
         RecordProbeQuestions, record_probe_questions,
         RecordRetrievalQueries, record_retrieval_queries,
         RecordRetrievedEvidence, record_retrieved_evidence,
         RecordFusedEvidence, record_fused_evidence,
         RecordNLIResults, record_nli_results,
         RecordClassification, record_classification,
         SetFinalVerdict, set_final_verdict
<1>3. QED
  BY <1>1, <1>2, TypeCorrect, DriversArePublic, PTL DEF DriverSpec

(* EvidenceLedger: once a stage has records, what the stages before it     *)
(* recorded is never changed by the drivers.                               *)
THEOREM UpstreamStaysFrozen == DriverSpec => UpstreamFrozen
<1> DEFINE Frozen ==
      /\ \/ ledger.probe_questions # {}
         \/ ledger.retrieval_queries # {}
         \/ ledger.unsupported_claims # {}
         => ledger'.atomic_claims = ledger.atomic_claims
      /\ ledger.retrieved_evidence # {} =>
           ledger'.retrieval_queries = ledger.retrieval_queries
      /\ ledger.fused_evidence # {} =>
           ledger'.retrieved_evidence = ledger.retrieved_evidence
      /\ ledger.nli_results # {} =>
           ledger'.fused_evidence = ledger.fused_evidence
<1>1. TypeOK /\ EvidenceChain /\ ClaimsAreFinal /\ [DriverNext]_vars => [Frozen]_vars
  <2> SUFFICES ASSUME TypeOK, EvidenceChain, ClaimsAreFinal, DriverNext PROVE Frozen
    BY DEF vars
  <2>1. /\ \/ ledger.probe_questions # {}
           \/ ledger.retrieval_queries # {}
           \/ ledger.unsupported_claims # {}
           => ledger.original_claim_id # None
        /\ ledger.retrieved_evidence # {} => ledger.retrieval_queries # {}
    BY DEF EvidenceChain, ClaimsAreRecorded, RetrievedWasQueried, KnownClaims,
           ClaimIds, ClaimsAreFinal
  <2>2. /\ ledger.fused_evidence # {} => ledger.retrieved_evidence # {}
        /\ ledger.nli_results # {} => ledger.fused_evidence # {}
    BY DEF EvidenceChain, JudgedWasFused, FusedWasRetrieved, ClaimChunkPairs
  <2>3. /\ ledger'.atomic_claims # ledger.atomic_claims => ledger.original_claim_id = None
        /\ ledger'.retrieval_queries # ledger.retrieval_queries
             => ledger.retrieval_queries = {}
        /\ ledger'.retrieved_evidence # ledger.retrieved_evidence
             => ledger.retrieved_evidence = {}
        /\ ledger'.fused_evidence # ledger.fused_evidence => ledger.fused_evidence = {}
    BY DEF TypeOK, LedgerType, DriverNext,
           RecordAtomicClaims, record_atomic_claims, MayRecordAtomicClaims,
           RecordProbeQuestions, record_probe_questions,
           RecordRetrievalQueries, record_retrieval_queries, MayRecordRetrievalQueries,
           RecordRetrievedEvidence, record_retrieved_evidence, MayRecordRetrievedEvidence,
           RecordFusedEvidence, record_fused_evidence, MayRecordFusedEvidence,
           RecordNLIResults, record_nli_results,
           RecordClassification, record_classification,
           SetFinalVerdict, set_final_verdict
  <2>4. QED
    BY <2>1, <2>2, <2>3
<1>2. QED
  BY <1>1, TypeCorrect, DriversArePublic, EvidenceChainHolds, ClaimsFinalHolds, PTL
     DEF DriverSpec, UpstreamFrozen

-----------------------------------------------------------------------------
(* The audit trail, with the lists of each stage written out.              *)
Audited ==
  LET events(stage) == ledger.ledger_log[stage]
  IN  /\ events("CLAIM_DECOMPOSITION") =
           IF ledger.original_claim_id = None THEN 0 ELSE 1
      /\ events("RULE_ENGINE") = IF ledger.final_verdict = None THEN 0 ELSE 1
      /\ ledger.atomic_claims # {} => events("CLAIM_DECOMPOSITION") > 0
      /\ ledger.probe_questions # {} => events("QUESTION_GENERATION") > 0
      /\ \/ ledger.retrieval_queries # {}
         \/ ledger.retrieved_evidence # {}
         => events("RETRIEVAL") > 0
      /\ ledger.fused_evidence # {} => events("FUSION") > 0
      /\ \/ ledger.nli_results # {}
         \/ ledger.contradictions # {}
         \/ ledger.supporting_evidence # {}
         \/ ledger.unsupported_claims # {}
         => events("NLI_VERIFICATION") > 0

(* Every batch is counted under its own stage.  The exact counts of the    *)
(* two scalars' stages are what makes the invariant inductive: no other    *)
(* batch logs under them.                                                  *)
THEOREM AuditTrailHolds == DriverSpec => []AuditTrailComplete
<1>1. Init => Audited
  BY DEF Init, EmptyLedger, Audited, PipelineStage
<1>2. TypeOK /\ Audited /\ [DriverNext]_vars => Audited'
  <2> SUFFICES ASSUME TypeOK, Audited, [DriverNext]_vars PROVE Audited'
    OBVIOUS
  <2> USE NoneAssumption DEF TypeOK, LedgerType, Audited, WithEvent, PipelineStage
  <2>1. ASSUME NEW claims, RecordAtomicClaims(claims) PROVE Audited'
    BY <2>1 DEF RecordAtomicClaims, record_atomic_claims, MayRecordAtomicClaims
  <2>2. ASSUME NEW questions, RecordProbeQuestions(questions) PROVE Audited'
    BY <2>2 DEF RecordProbeQuestions, record_probe_questions
  <2>3. ASSUME NEW queries, RecordRetrievalQueries(queries) PROVE Audited'
    BY <2>3 DEF RecordRetrievalQueries, record_retrieval_queries
  <2>4. ASSUME NEW evidence, RecordRetrievedEvidence(evidence) PROVE Audited'
    BY <2>4 DEF RecordRetrievedEvidence, record_retrieved_evidence
  <2>5. ASSUME NEW fused, RecordFusedEvidence(fused) PROVE Audited'
    BY <2>5 DEF RecordFusedEvidence, record_fused_evidence
  <2>6. ASSUME NEW results, RecordNLIResults(results) PROVE Audited'
    BY <2>6 DEF RecordNLIResults, record_nli_results
  <2>7. ASSUME NEW contradictions, NEW supporting, NEW unsupported,
               RecordClassification(contradictions, supporting, unsupported)
        PROVE  Audited'
    BY <2>7 DEF RecordClassification, record_classification
  <2>8. ASSUME NEW verdict \in Verdict, SetFinalVerdict(verdict) PROVE Audited'
    BY <2>8 DEF SetFinalVerdict, set_final_verdict, MaySetFinalVerdict
  <2>9. CASE UNCHANGED vars
    BY <2>9 DEF vars
  <2>10. QED
    BY <2>1, <2>2, <2>3, <2>4, <2>5, <2>6, <2>7, <2>8, <2>9 DEF DriverNext
<1>3. Audited => AuditTrailComplete
  <2> DEFINE Lists(stage) ==
        CASE stage = "CLAIM_DECOMPOSITION" -> {ledger.atomic_claims}
          [] stage = "QUESTION_GENERATION" -> {ledger.probe_questions}
          [] stage = "RETRIEVAL" ->
               {ledger.retrieval_queries, ledger.retrieved_evidence}
          [] stage = "FUSION" -> {ledger.fused_evidence}
          [] stage = "NLI_VERIFICATION" ->
               {ledger.nli_results, ledger.contradictions,
                ledger.supporting_evidence, ledger.unsupported_claims}
          [] OTHER -> {}
  <2> SUFFICES ASSUME Audited, NEW stage \in PipelineStage,
                      NEW list \in Lists(stage), list # {}
               PROVE  ledger.ledger_log[stage] > 0
    BY DEF Audited, AuditTrailComplete
  <2>1. CASE stage = "CLAIM_DECOMPOSITION"
    BY <2>1 DEF Audited
  <2>2. CASE stage = "QUESTION_GENERATION"
    BY <2>2 DEF Audited
  <2>3. CASE stage = "RETRIEVAL"
    BY <2>3 DEF Audited
  <2>4. CASE stage = "FUSION"
    BY <2>4 DEF Audited
  <2>5. CASE stage = "NLI_VERIFICATION"
    BY <2>5 DEF Audited
  <2>6. CASE stage \notin {"CLAIM_DECOMPOSITION", "QUESTION_GENERATION",
                           "RETRIEVAL", "FUSION", "NLI_VERIFICATION"}
    BY <2>6
  <2>7. QED
    BY <2>1, <2>2, <2>3, <2>4, <2>5, <2>6
<1>4. QED
  BY <1>1, <1>2, <1>3, TypeCorrect, DriversArePublic, PTL DEF DriverSpec

-----------------------------------------------------------------------------
(* Logging an event takes none away.                                       *)
LEMMA WithEventGrows ==
  ASSUME NEW log \in [PipelineStage -> Nat], NEW stage \in PipelineStage
  PROVE  \A s \in PipelineStage : log[s] <= WithEvent(log, stage)[s]
  BY DEF WithEvent

(* Every public method only adds: lists are united with what is given,     *)
(* every event is counted on top, and the two scalars are set once.        *)
THEOREM NothingIsWithdrawn == Spec => NothingWithdrawn
<1> DEFINE Lists == {"atomic_claims", "probe_questions", "retrieval_queries",
                     "retrieved_evidence", "fused_evidence", "nli_results",
                     "contradictions", "supporting_evidence",
                     "unsupported_claims", "reasoning_trace"}
           Grown == /\ \A list \in Lists : ledger[list] \subseteq ledger'[list]
                    /\ \A stage \in PipelineStage :
                         ledger.ledger_log[stage] <= ledger'.ledger_log[stage]
                    /\ \A once \in {"original_claim_id", "final_verdict"} :
                         ledger[once] # None => ledger'[once] = ledger[once]
<1>1. TypeOK /\ [Next]_vars => [Grown]_vars
  <2> SUFFICES ASSUME TypeOK, Next PROVE Grown
    BY DEF vars
  <2>1. ledger.ledger_log \in [PipelineStage -> Nat]
    BY DEF TypeOK, LedgerType
  <2> USE <2>1, WithEventGrows DEF TypeOK, LedgerType, PipelineStage
  <2>2. ASSUME NEW claims \in SUBSET Claim,
               RecordAtomicClaims(claims)
        PROVE  Grown
    BY <2>2 DEF RecordAtomicClaims, record_atomic_claims, MayRecordAtomicClaims
  <2>3. ASSUME NEW questions \in SUBSET ProbeQuestion(Claim, Question),
               RecordProbeQuestions(questions)
        PROVE  Grown
    BY <2>3 DEF RecordProbeQuestions, record_probe_questions
  <2>4. ASSUME NEW queries \in SUBSET RetrievalQuery(Claim, Query),
               RecordRetrievalQueries(queries)
        PROVE  Grown
    BY <2>4 DEF RecordRetrievalQueries, record_retrieval_queries
  <2>5. ASSUME NEW evidence \in SUBSET RetrievedEvidence(Claim, Query, Chunk, Source),
               RecordRetrievedEvidence(evidence)
        PROVE  Grown
    BY <2>5 DEF RecordRetrievedEvidence, record_retrieved_evidence
  <2>6. ASSUME NEW fused \in SUBSET FusedEvidence(Claim, Chunk),
               RecordFusedEvidence(fused)
        PROVE  Grown
    BY <2>6 DEF RecordFusedEvidence, record_fused_evidence
  <2>7. ASSUME NEW results \in SUBSET NLIResult(Claim, Chunk, Score),
               RecordNLIResults(results)
        PROVE  Grown
    BY <2>7 DEF RecordNLIResults, record_nli_results
  <2>8. ASSUME NEW contradictions \in SUBSET TraceRecords,
               NEW supporting \in SUBSET TraceRecords,
               NEW unsupported \in SUBSET Claim,
               RecordClassification(contradictions, supporting, unsupported)
        PROVE  Grown
    BY <2>8 DEF RecordClassification, record_classification
  <2>9. ASSUME NEW verdict \in Verdict,
               SetFinalVerdict(verdict)
        PROVE  Grown
    BY <2>9 DEF SetFinalVerdict, set_final_verdict, MaySetFinalVerdict
  <2>10. ASSUME NEW claim \in Claim,
               AddAtomicClaim(claim)
        PROVE  Grown
    BY <2>10 DEF AddAtomicClaim, add_atomic_claim
  <2>11. ASSUME NEW question \in ProbeQuestion(Claim, Question),
               AddProbeQuestion(question)
        PROVE  Grown
    BY <2>11 DEF AddProbeQuestion, add_probe_question
  <2>12. ASSUME NEW evidence \in RetrievedEvidence(Claim, Query, Chunk, Source),
               AddRetrievedEvidence(evidence)
        PROVE  Grown
    BY <2>12 DEF AddRetrievedEvidence, add_retrieved_evidence
  <2>13. ASSUME NEW fused \in FusedEvidence(Claim, Chunk),
               AddFusedEvidence(fused)
        PROVE  Grown
    BY <2>13 DEF AddFusedEvidence, add_fused_evidence
  <2>14. ASSUME NEW result \in NLIResult(Claim, Chunk, Score),
               AddNLIResult(result)
        PROVE  Grown
    BY <2>14 DEF AddNLIResult, add_nli_result
  <2>15. ASSUME NEW record \in TraceRecords,
               AddContradiction(record)
        PROVE  Grown
    BY <2>15 DEF AddContradiction, add_contradiction
  <2>16. ASSUME NEW record \in TraceRecords,
               AddSupportingEvidence(record)
        PROVE  Grown
    BY <2>16 DEF AddSupportingEvidence, add_supporting_evidence
  <2>17. ASSUME NEW claim \in Claim,
               MarkUnsupported(claim)
        PROVE  Grown
    BY <2>17 DEF MarkUnsupported, mark_unsupported
  <2>18. ASSUME NEW step \in Step,
               AddReasoningStep(step)
        PROVE  Grown
    BY <2>18 DEF AddReasoningStep, add_reasoning_step
  <2>19. ASSUME NEW stage \in PipelineStage,
               LogEvent(stage)
        PROVE  Grown
    BY <2>19 DEF LogEvent, log_event
  <2>20. QED
    BY ONLY Next, <2>2, <2>3, <2>4, <2>5, <2>6, <2>7, <2>8, <2>9, <2>10, <2>11, <2>12, <2>13, <2>14, <2>15, <2>16, <2>17, <2>18, <2>19
       DEF Next, DriverNext
<1>2. QED
  BY <1>1, TypeCorrect, PTL DEF Spec, NothingWithdrawn
=============================================================================
