---------------------------- MODULE EvidenceLedger ----------------------------
(***************************************************************************)
(* An EvidenceLedger in the hands of callers that may call any method of   *)
(* LedgerService at any time, in any order and with any arguments.         *)
(*                                                                         *)
(* A call that raises changes nothing and is a stuttering step.  DriverSpec*)
(* is restricted to the methods the drivers of the repository call (the    *)
(* record_* batch methods and set_final_verdict); Spec adds the            *)
(* single-record methods of the public interface.                          *)
(***************************************************************************)
EXTENDS LedgerService

CONSTANTS
  Claim,      \* ids of atomic claims, recorded on this ledger or not
  Question,   \* ids of probe questions
  Query,      \* ids of retrieval queries
  Chunk,      \* ids of document chunks
  Source,     \* retrieval backends
  Score,      \* NLI scores
  Step,       \* reasoning steps
  ParentId,   \* the content hash of the original claim
  Verdict     \* the final verdicts a caller may set

ASSUME NoneAssumption ==
  /\ None \notin Claim
  /\ None \notin Query
  /\ None \notin Verdict
  /\ None # ParentId

VARIABLE ledger

vars == ledger

TraceRecords == Trace(Claim, Chunk, Score)

LedgerType ==
  [original_claim_id   : {None, ParentId},
   atomic_claims       : SUBSET Claim,
   probe_questions     : SUBSET ProbeQuestion(Claim, Question),
   retrieval_queries   : SUBSET RetrievalQuery(Claim, Query),
   retrieved_evidence  : SUBSET RetrievedEvidence(Claim, Query, Chunk, Source),
   fused_evidence      : SUBSET FusedEvidence(Claim, Chunk),
   nli_results         : SUBSET NLIResult(Claim, Chunk, Score),
   contradictions      : SUBSET TraceRecords,
   supporting_evidence : SUBSET TraceRecords,
   unsupported_claims  : SUBSET Claim,
   reasoning_trace     : SUBSET Step,
   ledger_log          : [PipelineStage -> Nat],
   final_verdict       : Verdict \union {None}]

TypeOK == ledger \in LedgerType

Init == ledger = EmptyLedger

-----------------------------------------------------------------------------
RecordAtomicClaims(claims) ==
  /\ MayRecordAtomicClaims(ledger)
  /\ ledger' = record_atomic_claims(ledger, ParentId, claims)

RecordProbeQuestions(questions) ==
  /\ MayRecordProbeQuestions(ledger, questions)
  /\ ledger' = record_probe_questions(ledger, questions)

RecordRetrievalQueries(queries) ==
  /\ MayRecordRetrievalQueries(ledger, queries)
  /\ ledger' = record_retrieval_queries(ledger, queries)

RecordRetrievedEvidence(evidence) ==
  /\ MayRecordRetrievedEvidence(ledger, evidence)
  /\ ledger' = record_retrieved_evidence(ledger, evidence)

RecordFusedEvidence(fused) ==
  /\ MayRecordFusedEvidence(ledger, fused)
  /\ ledger' = record_fused_evidence(ledger, fused)

RecordNLIResults(results) ==
  /\ MayRecordNLIResults(ledger, results)
  /\ ledger' = record_nli_results(ledger, results)

RecordClassification(contradictions, supporting, unsupported) ==
  /\ MayRecordClassification(ledger, contradictions, supporting, unsupported)
  /\ ledger' = record_classification(ledger, contradictions, supporting,
                                     unsupported)

(* Mutant: a second verdict silently replaces the first. *)
ReviseVerdict(verdict) ==
  ledger' = IF MaySetFinalVerdict(ledger) THEN set_final_verdict(ledger, verdict)
            ELSE [ledger EXCEPT !.final_verdict = verdict]

SetFinalVerdict(verdict) ==
  /\ MaySetFinalVerdict(ledger)
  /\ ledger' = set_final_verdict(ledger, verdict)

(* What a caller may pass: any batch of records, known to the ledger or not*)
DriverNext ==
  \/ \E claims \in SUBSET Claim : RecordAtomicClaims(claims)
  \/ \E questions \in SUBSET ProbeQuestion(Claim, Question) :
       RecordProbeQuestions(questions)
  \/ \E queries \in SUBSET RetrievalQuery(Claim, Query) :
       RecordRetrievalQueries(queries)
  \/ \E evidence \in SUBSET RetrievedEvidence(Claim, Query, Chunk, Source) :
       RecordRetrievedEvidence(evidence)
  \/ \E fused \in SUBSET FusedEvidence(Claim, Chunk) : RecordFusedEvidence(fused)
  \/ \E results \in SUBSET NLIResult(Claim, Chunk, Score) :
       RecordNLIResults(results)
  \/ \E contradictions, supporting \in SUBSET TraceRecords,
        unsupported \in SUBSET Claim :
       RecordClassification(contradictions, supporting, unsupported)
  \/ \E verdict \in Verdict : SetFinalVerdict(verdict)

DriverSpec == Init /\ [][DriverNext]_vars

-----------------------------------------------------------------------------
AddAtomicClaim(claim) == ledger' = add_atomic_claim(ledger, claim)

AddProbeQuestion(question) == ledger' = add_probe_question(ledger, question)

AddRetrievedEvidence(evidence) ==
  ledger' = add_retrieved_evidence(ledger, evidence)

AddFusedEvidence(fused) == ledger' = add_fused_evidence(ledger, fused)

AddNLIResult(result) == ledger' = add_nli_result(ledger, result)

AddContradiction(record) == ledger' = add_contradiction(ledger, record)

AddSupportingEvidence(record) == ledger' = add_supporting_evidence(ledger, record)

MarkUnsupported(claim) == ledger' = mark_unsupported(ledger, claim)

AddReasoningStep(step) == ledger' = add_reasoning_step(ledger, step)

LogEvent(stage) == ledger' = log_event(ledger, stage)

Next ==
  \/ DriverNext
  \/ \E claim \in Claim : AddAtomicClaim(claim) \/ MarkUnsupported(claim)
  \/ \E question \in ProbeQuestion(Claim, Question) : AddProbeQuestion(question)
  \/ \E evidence \in RetrievedEvidence(Claim, Query, Chunk, Source) :
       AddRetrievedEvidence(evidence)
  \/ \E fused \in FusedEvidence(Claim, Chunk) : AddFusedEvidence(fused)
  \/ \E result \in NLIResult(Claim, Chunk, Score) : AddNLIResult(result)
  \/ \E record \in TraceRecords :
       AddContradiction(record) \/ AddSupportingEvidence(record)
  \/ \E step \in Step : AddReasoningStep(step)
  \/ \E stage \in PipelineStage : LogEvent(stage)

Spec == Init /\ [][Next]_vars

-----------------------------------------------------------------------------
JudgedWasFused ==
  {<<r.atomic_claim_id, r.evidence_chunk_id>> : r \in ledger.nli_results}
    \subseteq ClaimChunkPairs(ledger.fused_evidence)

FusedWasRetrieved ==
  ClaimChunkPairs(ledger.fused_evidence)
    \subseteq ClaimChunkPairs(ledger.retrieved_evidence)

RetrievedWasQueried ==
  \A e \in ledger.retrieved_evidence :
    \E q \in ledger.retrieval_queries : q.query_id = e.query_id

ClaimsAreRecorded ==
  /\ KnownClaims(ledger, ledger.probe_questions)
  /\ KnownClaims(ledger, ledger.retrieval_queries)
  /\ KnownClaims(ledger, ledger.retrieved_evidence)
  /\ KnownClaims(ledger, ledger.fused_evidence)
  /\ KnownClaims(ledger, ledger.nli_results)
  /\ KnownClaims(ledger, ledger.contradictions)
  /\ KnownClaims(ledger, ledger.supporting_evidence)
  /\ ledger.unsupported_claims \subseteq ledger.atomic_claims

(* Every NLI result of a ledger filled by the drivers' methods is grounded *)
(* in evidence the ledger holds: the judged (claim, chunk) pair was fused, *)
(* was retrieved for that claim by a recorded query, and the claim was     *)
(* recorded, whatever the order, repetition or arguments of the calls.     *)
EvidenceChain ==
  /\ JudgedWasFused
  /\ FusedWasRetrieved
  /\ RetrievedWasQueried
  /\ ClaimsAreRecorded

(* What a record was validated against cannot change under it: once        *)
(* questions, queries or evidence refer to the claims, the claims are      *)
(* final; once evidence refers to queries, the queries are; once something *)
(* was fused, the retrieved evidence is; once something was judged, the    *)
(* fused evidence is.                                                      *)
UpstreamFrozen ==
  [][/\ \/ ledger.probe_questions # {}
        \/ ledger.retrieval_queries # {}
        \/ ledger.unsupported_claims # {}
        => ledger'.atomic_claims = ledger.atomic_claims
     /\ ledger.retrieved_evidence # {} =>
          ledger'.retrieval_queries = ledger.retrieval_queries
     /\ ledger.fused_evidence # {} =>
          ledger'.retrieved_evidence = ledger.retrieved_evidence
     /\ ledger.nli_results # {} =>
          ledger'.fused_evidence = ledger.fused_evidence]_vars

(* The audit log accounts for the content a driver recorded: exactly one   *)
(* decomposition event once the claim id is set and one rule-engine event  *)
(* once the verdict is, and an event of the owning stage for every         *)
(* non-empty list.                                                         *)
AuditTrailComplete ==
  LET events(stage) == ledger.ledger_log[stage]
      Lists(stage) ==
        CASE stage = "CLAIM_DECOMPOSITION" -> {ledger.atomic_claims}
          [] stage = "QUESTION_GENERATION" -> {ledger.probe_questions}
          [] stage = "RETRIEVAL" ->
               {ledger.retrieval_queries, ledger.retrieved_evidence}
          [] stage = "FUSION" -> {ledger.fused_evidence}
          [] stage = "NLI_VERIFICATION" ->
               {ledger.nli_results, ledger.contradictions,
                ledger.supporting_evidence, ledger.unsupported_claims}
          [] OTHER -> {}
  IN  /\ events("CLAIM_DECOMPOSITION") =
           IF ledger.original_claim_id = None THEN 0 ELSE 1
      /\ events("RULE_ENGINE") = IF ledger.final_verdict = None THEN 0 ELSE 1
      /\ \A stage \in PipelineStage :
           (\E list \in Lists(stage) : list # {}) => events(stage) > 0

(* Whoever calls whatever, nothing recorded is ever withdrawn: every list  *)
(* only grows, every stage's events only accumulate, and the claim id and  *)
(* the verdict never change once they are set.                             *)
NothingWithdrawn ==
  [][/\ \A list \in {"atomic_claims", "probe_questions", "retrieval_queries",
                     "retrieved_evidence", "fused_evidence", "nli_results",
                     "contradictions", "supporting_evidence",
                     "unsupported_claims", "reasoning_trace"} :
          ledger[list] \subseteq ledger'[list]
     /\ \A stage \in PipelineStage :
          ledger.ledger_log[stage] <= ledger'.ledger_log[stage]
     /\ \A once \in {"original_claim_id", "final_verdict"} :
          ledger[once] # None => ledger'[once] = ledger[once]]_vars
=============================================================================
