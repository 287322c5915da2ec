---------------------------- MODULE LedgerService ----------------------------
(***************************************************************************)
(* lncvs.ledger.service.LedgerService: the only interface through which an *)
(* EvidenceLedger is mutated.  Each method is an operator from a ledger to *)
(* the ledger it leaves behind, paired with the condition under which the  *)
(* method returns instead of raising ValueError.  Every method validates   *)
(* its whole argument before it extends a list, so a call that raises      *)
(* leaves the ledger as it was.                                            *)
(*                                                                         *)
(* The ledger's lists are sets of records and ledger_log is a bag of       *)
(* stages: neither order nor wording is told apart by a check of the       *)
(* service.                                                                *)
(***************************************************************************)
EXTENDS RuleEngine

CONSTANT None   \* Python's None, for an id or a verdict that is not set

PipelineStage ==
  {"INGESTION", "CHUNKING", "INDEXING", "CLAIM_DECOMPOSITION",
   "QUESTION_GENERATION", "RETRIEVAL", "FUSION", "NLI_VERIFICATION",
   "RULE_ENGINE", "COMPLETE", "ERROR"}

EmptyLedger ==
  [original_claim_id   |-> None,
   atomic_claims       |-> {},
   probe_questions     |-> {},
   retrieval_queries   |-> {},
   retrieved_evidence  |-> {},
   fused_evidence      |-> {},
   nli_results         |-> {},
   contradictions      |-> {},
   supporting_evidence |-> {},
   unsupported_claims  |-> {},
   reasoning_trace     |-> {},
   ledger_log          |-> [stage \in PipelineStage |-> 0],
   final_verdict       |-> None]

ProbeQuestion(Claim, Question) ==
  [question_id : Question, atomic_claim_id : Claim]

RetrievalQuery(Claim, Query) ==
  [query_id : Query, atomic_claim_id : Claim]

RetrievedEvidence(Claim, Query, Chunk, Source) ==
  [chunk_id : Chunk, source : Source,
   atomic_claim_id : Claim \union {None}, query_id : Query \union {None}]

FusedEvidence(Claim, Chunk) ==
  [atomic_claim_id : Claim, chunk_id : Chunk]

WithEvent(log, stage) == [log EXCEPT ![stage] = @ + 1]

log_event(ledger, stage) ==
  [ledger EXCEPT !.ledger_log = WithEvent(@, stage)]

ClaimIds(records) == {r.atomic_claim_id : r \in records}

KnownClaims(ledger, records) == ClaimIds(records) \subseteq ledger.atomic_claims

ClaimChunkPairs(evidence) == {<<e.atomic_claim_id, e.chunk_id>> : e \in evidence}

-----------------------------------------------------------------------------
(* The batch methods the drivers call, in pipeline order. *)

(* Mutant: no write-once guard. *)
MayRecordClaimsAgain(ledger) == TRUE

MayRecordAtomicClaims(ledger) == ledger.original_claim_id = None

record_atomic_claims(ledger, id, claims) ==
  [ledger EXCEPT !.original_claim_id = id,
                 !.atomic_claims = @ \union claims,
                 !.ledger_log = WithEvent(@, "CLAIM_DECOMPOSITION")]

MayRecordProbeQuestions(ledger, questions) ==
  /\ ledger.probe_questions = {}
  /\ KnownClaims(ledger, questions)

record_probe_questions(ledger, questions) ==
  [ledger EXCEPT !.probe_questions = @ \union questions,
                 !.ledger_log = WithEvent(@, "QUESTION_GENERATION")]

MayRecordRetrievalQueries(ledger, queries) ==
  /\ ledger.retrieval_queries = {}
  /\ KnownClaims(ledger, queries)

record_retrieval_queries(ledger, queries) ==
  [ledger EXCEPT !.retrieval_queries = @ \union queries,
                 !.ledger_log = WithEvent(@, "RETRIEVAL")]

MayRecordRetrievedEvidence(ledger, evidence) ==
  /\ ledger.retrieved_evidence = {}
  /\ \A e \in evidence : e.atomic_claim_id # None /\ e.query_id # None
  /\ KnownClaims(ledger, evidence)
  /\ \A e \in evidence :
       \E q \in ledger.retrieval_queries : q.query_id = e.query_id

record_retrieved_evidence(ledger, evidence) ==
  [ledger EXCEPT !.retrieved_evidence = @ \union evidence,
                 !.ledger_log = WithEvent(@, "RETRIEVAL")]

(* Mutant: the chunk is looked up without its claim. *)
MayRecordFusedChunk(ledger, fused) ==
  /\ ledger.fused_evidence = {}
  /\ KnownClaims(ledger, fused)
  /\ {f.chunk_id : f \in fused}
       \subseteq {e.chunk_id : e \in ledger.retrieved_evidence}

MayRecordFusedEvidence(ledger, fused) ==
  /\ ledger.fused_evidence = {}
  /\ KnownClaims(ledger, fused)
  /\ ClaimChunkPairs(fused) \subseteq ClaimChunkPairs(ledger.retrieved_evidence)

record_fused_evidence(ledger, fused) ==
  [ledger EXCEPT !.fused_evidence = @ \union fused,
                 !.ledger_log = WithEvent(@, "FUSION")]

MayRecordNLIResults(ledger, results) ==
  /\ ledger.nli_results = {}
  /\ KnownClaims(ledger, results)
  /\ {<<r.atomic_claim_id, r.evidence_chunk_id>> : r \in results}
       \subseteq ClaimChunkPairs(ledger.fused_evidence)

(* Mutant: no event. *)
record_results_unlogged(ledger, results) ==
  [ledger EXCEPT !.nli_results = @ \union results]

record_nli_results(ledger, results) ==
  [ledger EXCEPT !.nli_results = @ \union results,
                 !.ledger_log = WithEvent(@, "NLI_VERIFICATION")]

MayRecordClassification(ledger, contradictions, supporting, unsupported) ==
  /\ ledger.contradictions = {}
  /\ ledger.supporting_evidence = {}
  /\ ledger.unsupported_claims = {}
  /\ KnownClaims(ledger, contradictions \union supporting)
  /\ unsupported \subseteq ledger.atomic_claims

record_classification(ledger, contradictions, supporting, unsupported) ==
  [ledger EXCEPT !.contradictions = @ \union contradictions,
                 !.supporting_evidence = @ \union supporting,
                 !.unsupported_claims = @ \union unsupported,
                 !.ledger_log = WithEvent(@, "NLI_VERIFICATION")]

MaySetFinalVerdict(ledger) == ledger.final_verdict = None

set_final_verdict(ledger, verdict) ==
  [ledger EXCEPT !.final_verdict = verdict,
                 !.ledger_log = WithEvent(@, "RULE_ENGINE")]

-----------------------------------------------------------------------------
(* The single-record methods, which validate nothing. *)

add_atomic_claim(ledger, claim) ==
  [ledger EXCEPT !.atomic_claims = @ \union {claim},
                 !.ledger_log = WithEvent(@, "CLAIM_DECOMPOSITION")]

add_probe_question(ledger, question) ==
  [ledger EXCEPT !.probe_questions = @ \union {question},
                 !.ledger_log = WithEvent(@, "QUESTION_GENERATION")]

add_retrieved_evidence(ledger, evidence) ==
  [ledger EXCEPT !.retrieved_evidence = @ \union {evidence},
                 !.ledger_log = WithEvent(@, "RETRIEVAL")]

add_fused_evidence(ledger, fused) ==
  [ledger EXCEPT !.fused_evidence = @ \union {fused},
                 !.ledger_log = WithEvent(@, "FUSION")]

add_nli_result(ledger, result) ==
  [ledger EXCEPT !.nli_results = @ \union {result},
                 !.ledger_log = WithEvent(@, "NLI_VERIFICATION")]

add_contradiction(ledger, contradiction) ==
  [ledger EXCEPT !.contradictions = @ \union {contradiction},
                 !.ledger_log = WithEvent(@, "NLI_VERIFICATION")]

add_supporting_evidence(ledger, evidence) ==
  [ledger EXCEPT !.supporting_evidence = @ \union {evidence},
                 !.ledger_log = WithEvent(@, "NLI_VERIFICATION")]

(* Adds the claim once but logs every call. *)
mark_unsupported(ledger, claim) ==
  [ledger EXCEPT !.unsupported_claims = @ \union {claim},
                 !.ledger_log = WithEvent(@, "NLI_VERIFICATION")]

(* The one mutation that appends no event. *)
add_reasoning_step(ledger, step) ==
  [ledger EXCEPT !.reasoning_trace = @ \union {step}]
=============================================================================
