------------------------- MODULE VerificationPipeline -------------------------
(***************************************************************************)
(* One LangGraphPipeline.run() of lncvs.orchestration: the compiled linear *)
(* graph of seven nodes, each wrapped in the error boundary, over a ledger *)
(* that every node mutates in place through LedgerService.                 *)
(*                                                                         *)
(* A node is one step: nothing runs beside it.  What it computes from      *)
(* models outside the repository (LLM completions, retrieved chunks, NLI   *)
(* labels) is any value the parsers and clients let through, and each call *)
(* that can raise may raise, leaving what the node wrote before it.        *)
(***************************************************************************)
EXTENDS LedgerService, FiniteSets, Sequences

CONSTANTS
  Claim,       \* ids of the atomic claims a decomposition may produce
  Question,    \* ids of the probe questions a claim may get
  Chunk,       \* ids of the narrative's chunks
  Score,       \* NLI scores
  ParentId,    \* the content hash of the original claim
  MaxAtomicClaims,  \* DecompositionConfig.max_atomic_claims
  TopK,             \* RetrievalConfig.top_k
  TopKFused,        \* FusionConfig.top_k_fused
  rule_config       \* the RuleEngineConfig of the run

ASSUME PipelineAssumption ==
  /\ Score \subseteq Nat
  /\ rule_config \in RuleEngineConfig(Score)
  /\ MaxAtomicClaims \in Nat \ {0}
  /\ TopK \in Nat \ {0}
  /\ TopKFused \in Nat \ {0}
  /\ None \notin Claim
  /\ None \notin Question
  /\ None # ParentId
  /\ None \notin FinalVerdict(Claim)
  /\ None \notin Claim \X (Question \union {None})

VARIABLES
  variant,      \* the AblationVariant of the run: which sources and questions
  run_context,  \* the retrievers ingest_and_index has built so far
  ledger,       \* the ledger channel of the graph state
  control,      \* the control channel of the graph state
  node,         \* the node the graph runs next
  outcome       \* how run() ended, or "running"

vars == <<variant, run_context, ledger, control, node, outcome>>

Node == {"ingest_and_index", "decompose_claim", "generate_questions", "retrieve",
         "fuse", "verify_nli", "verdict", "error_sink", "END"}

Source == {"SEMANTIC", "LEXICAL"}

AblationVariant == [use_bm25 : BOOLEAN, use_question_generation : BOOLEAN]

(* make_query_id hashes the claim, the origin and the question, so a query *)
(* id stands for exactly that pair; None marks the claim's own query.      *)
QueryId == Claim \X (Question \union {None})

ControlState ==
  [current_stage : PipelineStage, errors : Seq(PipelineStage)]

LedgerType ==
  [original_claim_id   : {None, ParentId},
   atomic_claims       : SUBSET Claim,
   probe_questions     : SUBSET ProbeQuestion(Claim, Question),
   retrieval_queries   : SUBSET RetrievalQuery(Claim, QueryId),
   retrieved_evidence  : SUBSET RetrievedEvidence(Claim, QueryId, Chunk, Source),
   fused_evidence      : SUBSET FusedEvidence(Claim, Chunk),
   nli_results         : SUBSET NLIResult(Claim, Chunk, Score),
   contradictions      : SUBSET Trace(Claim, Chunk, Score),
   supporting_evidence : SUBSET Trace(Claim, Chunk, Score),
   unsupported_claims  : SUBSET Claim,
   reasoning_trace     : {{}},
   ledger_log          : [PipelineStage -> Nat],
   final_verdict       : FinalVerdict(Claim) \union {None}]

TypeOK ==
  /\ variant \in AblationVariant
  /\ run_context \in SUBSET Source
  /\ ledger \in LedgerType
  /\ control \in ControlState
  /\ node \in Node
  /\ outcome \in {"running", "returned", "raised", "crashed"}

Init ==
  /\ variant \in AblationVariant
  /\ run_context = {}
  /\ ledger = EmptyLedger
  /\ control = [current_stage |-> "INGESTION", errors |-> <<>>]
  /\ node = "ingest_and_index"
  /\ outcome = "running"

-----------------------------------------------------------------------------
(* Routing and the error boundary. *)

RouteAfter(next_node, current_stage) ==
  IF current_stage = "ERROR" THEN "error_sink" ELSE next_node

(* The conditional edge out of a node, taken on the control it returned.   *)
Edge(next_node) ==
  node' = IF outcome' = "crashed" THEN "END"
          ELSE RouteAfter(next_node, control'.current_stage)

Advance(stage) ==
  /\ control' = [control EXCEPT !.current_stage = stage]
  /\ UNCHANGED outcome

(* The node raised.  The boundary appends a StageError whose message is    *)
(* str(exc); the schema demands a message of at least one character, so an *)
(* exception without one makes the boundary itself raise out of invoke().  *)
ErrorBoundary(stage) ==
  \/ /\ control' = [current_stage |-> "ERROR",
                    errors |-> Append(control.errors, stage)]
     /\ UNCHANGED outcome
  \/ /\ outcome' = "crashed"
     /\ UNCHANGED control

Running(n) == node = n /\ outcome = "running"

-----------------------------------------------------------------------------
(* The nodes. *)

(* Indexing fails before any retriever is set, or in the lexical index     *)
(* after the semantic one is.                                              *)
IngestAndIndex ==
  /\ Running("ingest_and_index")
  /\ \/ /\ run_context' = {"SEMANTIC"} \union
                          IF variant.use_bm25 THEN {"LEXICAL"} ELSE {}
        /\ Advance("CLAIM_DECOMPOSITION")
     \/ /\ run_context' \in {{}} \union
                            IF variant.use_bm25 THEN {{"SEMANTIC"}} ELSE {}
        /\ ErrorBoundary("INGESTION")
  /\ Edge("decompose_claim")
  /\ UNCHANGED <<variant, ledger>>

(* The parser returns between one and max_atomic_claims claims or raises.  *)
Decompositions ==
  {claims \in SUBSET Claim : Cardinality(claims) \in 1..MaxAtomicClaims}

DecomposeInto(claims) ==
  /\ Running("decompose_claim")
  /\ MayRecordAtomicClaims(ledger)
  /\ ledger' = record_atomic_claims(ledger, ParentId, claims)
  /\ Advance("QUESTION_GENERATION")
  /\ Edge("generate_questions")
  /\ UNCHANGED <<variant, run_context>>

DecomposeFails ==
  /\ Running("decompose_claim")
  /\ ErrorBoundary("CLAIM_DECOMPOSITION")
  /\ Edge("generate_questions")
  /\ UNCHANGED <<variant, run_context, ledger>>

DecomposeClaim ==
  \/ \E claims \in Decompositions : DecomposeInto(claims)
  \/ DecomposeFails

(* A claim may legitimately get no question; the variant may ask for none. *)
GeneratedQuestions(claims) ==
  IF variant.use_question_generation
  THEN SUBSET ProbeQuestion(claims, Question)
  ELSE {{}}

GenerateInto(questions) ==
  /\ Running("generate_questions")
  /\ MayRecordProbeQuestions(ledger, questions)
  /\ ledger' = record_probe_questions(ledger, questions)
  /\ Advance("RETRIEVAL")
  /\ Edge("retrieve")
  /\ UNCHANGED <<variant, run_context>>

(* Mutant: questions are recorded claim by claim, so a failure keeps some. *)
GenerationFailsLate ==
  /\ Running("generate_questions")
  /\ variant.use_question_generation
  /\ \E questions \in GeneratedQuestions(ledger.atomic_claims) :
       ledger' = record_probe_questions(ledger, questions)
  /\ ErrorBoundary("QUESTION_GENERATION")
  /\ Edge("retrieve")
  /\ UNCHANGED <<variant, run_context>>

GenerationFails ==
  /\ Running("generate_questions")
  /\ variant.use_question_generation
  /\ ErrorBoundary("QUESTION_GENERATION")
  /\ Edge("retrieve")
  /\ UNCHANGED <<variant, run_context, ledger>>

GenerateQuestions ==
  \/ \E questions \in GeneratedQuestions(ledger.atomic_claims) :
       GenerateInto(questions)
  \/ GenerationFails

(* build_retrieval_queries: one query per claim, one per question. *)
BuildRetrievalQueries(claims, questions) ==
  {[query_id |-> <<c, None>>, atomic_claim_id |-> c] : c \in claims}
    \union
  {[query_id |-> <<q.atomic_claim_id, q.question_id>>,
    atomic_claim_id |-> q.atomic_claim_id] : q \in questions}

(* Mutant: every result is stamped with the claim of one and the same call.*)
StampedOnce(returned) ==
  LET last == CHOOSE call \in DOMAIN returned : TRUE
  IN  UNION {{[chunk_id |-> k, source |-> call[2],
               atomic_claim_id |-> last[1].atomic_claim_id,
               query_id |-> call[1].query_id] : k \in returned[call]} :
             call \in DOMAIN returned}

(* RetrievalOrchestrator.retrieve_for_queries: what each retriever returns *)
(* for each query, stamped with the query and with the query's claim.      *)
Stamped(returned) ==
  UNION {{[chunk_id |-> k, source |-> call[2],
           atomic_claim_id |-> call[1].atomic_claim_id,
           query_id |-> call[1].query_id] : k \in returned[call]} :
         call \in DOMAIN returned}

(* Both indices hold every chunk and return the best top_k of them, all of *)
(* them when there are fewer; a query is never left without a result.      *)
TopKChunks ==
  {chunks \in SUBSET Chunk :
     \/ Cardinality(chunks) = TopK
     \/ chunks = Chunk /\ Cardinality(Chunk) < TopK}

Queries == BuildRetrievalQueries(ledger.atomic_claims, ledger.probe_questions)

RetrieveInto(returned) ==
  /\ Running("retrieve")
  /\ LET queried == record_retrieval_queries(ledger, Queries)
     IN  /\ MayRecordRetrievalQueries(ledger, Queries)
         /\ MayRecordRetrievedEvidence(queried, Stamped(returned))
         /\ ledger' = record_retrieved_evidence(queried, Stamped(returned))
  /\ Advance("FUSION")
  /\ Edge("fuse")
  /\ UNCHANGED <<variant, run_context>>

(* The queries are recorded before the first retriever is asked. *)
RetrievalFails ==
  /\ Running("retrieve")
  /\ MayRecordRetrievalQueries(ledger, Queries)
  /\ ledger' = record_retrieval_queries(ledger, Queries)
  /\ ErrorBoundary("RETRIEVAL")
  /\ Edge("fuse")
  /\ UNCHANGED <<variant, run_context>>

Retrieve ==
  \/ \E returned \in [Queries \X run_context -> TopKChunks] :
       RetrieveInto(returned)
  \/ RetrievalFails

RetrievedFor(evidence, c) ==
  {e.chunk_id : e \in {r \in evidence : r.atomic_claim_id = c}}

(* fuse_evidence or round_robin_fuse: per claim the top_k_fused best of the*)
(* retrieved chunks, every chunk when there are no more than that.  Which  *)
(* chunks are best depends on ranks, which only order the chunks.          *)
Fusions(evidence) ==
  {fused \in SUBSET FusedEvidence(ClaimIds(evidence), Chunk) :
     \A c \in ClaimIds(evidence) :
       LET kept == RetrievedFor(fused, c)
           all  == RetrievedFor(evidence, c)
       IN  /\ kept \subseteq all
           /\ Cardinality(kept) <= TopKFused
           /\ kept = all \/ Cardinality(kept) = TopKFused}

FuseInto(fused) ==
  /\ Running("fuse")
  /\ MayRecordFusedEvidence(ledger, fused)
  /\ ledger' = record_fused_evidence(ledger, fused)
  /\ Advance("NLI_VERIFICATION")
  /\ Edge("verify_nli")
  /\ UNCHANGED <<variant, run_context>>

Fuse ==
  \E fused \in Fusions(ledger.retrieved_evidence) : FuseInto(fused)

(* One result per fused record of each claim, with the label and the score *)
(* the model gave that pair.                                               *)
Judgements(fused, judged) ==
  {[atomic_claim_id |-> f.atomic_claim_id, evidence_chunk_id |-> f.chunk_id,
    label |-> judged[f][1], score |-> judged[f][2]] : f \in fused}

FusedFor(fused, claims) == {f \in fused : f.atomic_claim_id \in claims}

VerifyInto(judged) ==
  /\ Running("verify_nli")
  /\ LET results == Judgements(FusedFor(ledger.fused_evidence,
                                        ledger.atomic_claims), judged)
     IN  /\ MayRecordNLIResults(ledger, results)
         /\ ledger' = record_nli_results(ledger, results)
  /\ Advance("RULE_ENGINE")
  /\ Edge("verdict")
  /\ UNCHANGED <<variant, run_context>>

VerificationFails ==
  /\ Running("verify_nli")
  /\ FusedFor(ledger.fused_evidence, ledger.atomic_claims) # {}
  /\ ErrorBoundary("NLI_VERIFICATION")
  /\ Edge("verdict")
  /\ UNCHANGED <<variant, run_context, ledger>>

VerifyNLI ==
  \/ \E judged \in [ledger.fused_evidence -> NLILabel \X Score] :
       VerifyInto(judged)
  \/ VerificationFails

(* classify() over the given claims for the recorded trace, then once more *)
(* over the ledger's inside evaluate(), and the verdict set from it.       *)
Concluded(classify_claims, before, after) ==
  LET results == before.nli_results
      contradictions == Contradictions(results, classify_claims, rule_config)
      supporting == SupportingEvidence(results, classify_claims, rule_config)
      unsupported == UnsupportedClaims(results, classify_claims, rule_config)
      classified == record_classification(before, contradictions, supporting,
                                          unsupported)
  IN  /\ MayRecordClassification(before, contradictions, supporting, unsupported)
      /\ CanEvaluate(before.atomic_claims)
      /\ MaySetFinalVerdict(classified)
      /\ after = set_final_verdict(classified,
                    Evaluate(results, before.atomic_claims, rule_config))

Verdict ==
  /\ Running("verdict")
  /\ Concluded(ledger.atomic_claims, ledger, ledger')
  /\ Advance("COMPLETE")
  /\ node' = "END"
  /\ UNCHANGED <<variant, run_context>>

(* Mutant: the sink routes to itself. *)
ErrorSinkLoop ==
  /\ Running("error_sink")
  /\ UNCHANGED vars

ErrorSink ==
  /\ Running("error_sink")
  /\ node' = "END"
  /\ UNCHANGED <<variant, run_context, ledger, control, outcome>>

(* The end of run(): raise RuntimeError for an ERROR stage or for a missing*)
(* verdict, else return the ledger.                                        *)
Finish ==
  /\ Running("END")
  /\ outcome' = IF control.current_stage = "ERROR" \/ ledger.final_verdict = None
                THEN "raised" ELSE "returned"
  /\ UNCHANGED <<variant, run_context, ledger, control, node>>

Next ==
  \/ IngestAndIndex \/ DecomposeClaim \/ GenerateQuestions \/ Retrieve
  \/ Fuse \/ VerifyNLI \/ Verdict \/ ErrorSink \/ Finish

Spec == Init /\ [][Next]_vars

(* A graph run is one call on one thread: a node that can run, runs. *)
FairSpec == Spec /\ WF_vars(Next)

-----------------------------------------------------------------------------
Judged(results) == {<<r.atomic_claim_id, r.evidence_chunk_id>> : r \in results}

(* The evidence behind a judgement is the claim's own: every judged pair   *)
(* was fused, every fused pair was retrieved, and every retrieved record   *)
(* was returned to a recorded query of the claim it is stamped with.  The  *)
(* ledger's checks alone do not give the last link, the stamping does.     *)
(* Nothing of it comes from a backend or a question that the variant of    *)
(* the run leaves out, so an ablation measures what it names.              *)
EvidenceServesItsClaim ==
  /\ Judged(ledger.nli_results) \subseteq ClaimChunkPairs(ledger.fused_evidence)
  /\ ClaimChunkPairs(ledger.fused_evidence)
       \subseteq ClaimChunkPairs(ledger.retrieved_evidence)
  /\ \A e \in ledger.retrieved_evidence :
       /\ e.atomic_claim_id \in ledger.atomic_claims
       /\ [query_id |-> e.query_id, atomic_claim_id |-> e.atomic_claim_id]
            \in ledger.retrieval_queries
       /\ e.source = "LEXICAL" => variant.use_bm25
       /\ e.query_id[2] # None => variant.use_question_generation

(* When a verdict is set the recorded classification agrees with it: the   *)
(* contradictions name the contradicted claims, the unsupported claims are *)
(* the unresolved ones, every claim is in exactly one list, and every      *)
(* contradiction is against a chunk that was judged for its claim.         *)
TraceAgreesWithVerdict ==
  ledger.final_verdict # None =>
    LET contradicted == ClaimIds(ledger.contradictions)
        supported    == ClaimIds(ledger.supporting_evidence)
    IN  /\ contradicted = ledger.final_verdict.contradicted_claim_ids
        /\ ledger.unsupported_claims = ledger.final_verdict.unresolved_claim_ids
        /\ contradicted \union supported \union ledger.unsupported_claims
             = ledger.atomic_claims
        /\ contradicted \intersect supported = {}
        /\ (contradicted \union supported)
             \intersect ledger.unsupported_claims = {}
        /\ Judged(ledger.contradictions \union ledger.supporting_evidence)
             \subseteq Judged(ledger.nli_results)

(* A run that raises recorded one error, that of the stage that failed.    *)
(* The ledger holds what the stages before it wrote, what the failing node *)
(* itself wrote before it raised, and nothing later: no verdict is         *)
(* fabricated for a failed run.                                            *)
PartialLedgerOfFailure ==
  /\ outcome = "raised" => Len(control.errors) = 1
  /\ \A stage \in PipelineStage :
       control.errors = <<stage>> =>
         /\ ledger.final_verdict = None
         /\ ledger.nli_results = {}
         /\ stage \in {"INGESTION", "CLAIM_DECOMPOSITION"} =>
              ledger = EmptyLedger
         /\ stage = "QUESTION_GENERATION" =>
              ledger.probe_questions = {} /\ ledger.retrieval_queries = {}
         /\ stage = "RETRIEVAL" =>
              /\ ClaimIds(ledger.retrieval_queries) = ledger.atomic_claims
              /\ ledger.retrieved_evidence = {}
         /\ stage = "NLI_VERIFICATION" => ledger.fused_evidence # {}

(* The run as its caller sees it: the promise of VerdictService, with the  *)
(* verdict visible once run() returns.                                     *)
Service == INSTANCE VerdictService WITH
  NoAnswer <- None,
  policy   <- rule_config,
  claims   <- ledger.atomic_claims,
  findings <- ledger.nli_results,
  answer   <- IF outcome = "returned" THEN ledger.final_verdict.verdict ELSE None,
  status   <- CASE outcome = "running" -> "open"
                [] outcome = "returned" -> "answered"
                [] OTHER -> "failed"

(* A returned verdict is justified by the findings about the claim's parts,*)
(* and a failed run gives none (rules of ThresholdRuleEngine, contract of  *)
(* LangGraphPipeline.run).                                                 *)
ImplementsVerdictService == Service!Spec

(* Every run ends: it returns, raises, or crashes. *)
Termination == <>(outcome # "running")

(* What the boundary's docstring promises: an exception becomes a routed,  *)
(* recorded StageError, never a crashed run.                               *)
NeverCrashes == outcome # "crashed"
=============================================================================
