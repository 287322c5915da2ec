---------------------- MODULE VerificationPipelineProofs ----------------------
(***************************************************************************)
(* Proofs about the orchestration graph and the imperative runner, for     *)
(* every set of claims, questions, chunks and scores, every cap and every  *)
(* rule configuration.                                                     *)
(*                                                                         *)
(* The invariant has four parts: the types, what routing and the error     *)
(* boundary leave in the control channel (Routed), what the ledger holds   *)
(* at each node (Reached), and what a recorded error says of the ledger    *)
(* (Recorded).  Each property follows from some of them.                   *)
(***************************************************************************)
EXTENDS ImperativeRunner, FiniteSetTheorems, TLAPS

(* What the ledger does not hold yet, from the last stage back. *)
NothingConcluded ==
  /\ ledger.contradictions = {}
  /\ ledger.supporting_evidence = {}
  /\ ledger.unsupported_claims = {}
  /\ ledger.final_verdict = None
NothingJudged == ledger.nli_results = {} /\ NothingConcluded
NothingFused == ledger.fused_evidence = {} /\ NothingJudged
NothingRetrieved == ledger.retrieved_evidence = {} /\ NothingFused
NothingQueried == ledger.retrieval_queries = {} /\ NothingRetrieved
NothingAsked == ledger.probe_questions = {} /\ NothingQueried

AfterDecomposition ==
  {"generate_questions", "retrieve", "fuse", "verify_nli", "verdict"}

Working == {"ingest_and_index", "decompose_claim"} \union AfterDecomposition

Failed == control.current_stage = "ERROR"

(* Stages the boundary records: those of the nodes that can raise. *)
FailingStage == {"INGESTION", "CLAIM_DECOMPOSITION", "QUESTION_GENERATION",
                 "RETRIEVAL", "NLI_VERIFICATION"}

(* Routing: a failed node is followed by the sink alone, and only a run    *)
(* that failed, crashed or set a verdict is at END.                        *)
Routed ==
  /\ node \in Working => ~Failed /\ outcome = "running"
  /\ node = "error_sink" => Failed /\ outcome = "running"
  /\ node = "END" =>
       \/ outcome = "crashed"
       \/ Failed /\ outcome \in {"running", "raised"}
       \/ /\ ~Failed /\ ledger.final_verdict # None
          /\ outcome \in {"running", "returned"}
  /\ ~Failed => control.errors = <<>>
  /\ Failed => \E stage \in FailingStage : control.errors = <<stage>>

(* The verdict and the trace are the rule engine's, on the results and the *)
(* claims the ledger ends with.                                            *)
VerdictFromLedger ==
  /\ ledger.atomic_claims # {}
  /\ ledger.final_verdict =
       Evaluate(ledger.nli_results, ledger.atomic_claims, rule_config)
  /\ ledger.contradictions =
       Contradictions(ledger.nli_results, ledger.atomic_claims, rule_config)
  /\ ledger.supporting_evidence =
       SupportingEvidence(ledger.nli_results, ledger.atomic_claims, rule_config)
  /\ ledger.unsupported_claims =
       UnsupportedClaims(ledger.nli_results, ledger.atomic_claims, rule_config)

Reached ==
  /\ node \in {"ingest_and_index", "decompose_claim"} => ledger = EmptyLedger
  /\ node = "generate_questions" => NothingAsked
  /\ node = "retrieve" => NothingQueried
  /\ node = "fuse" => NothingFused
  /\ node = "verify_nli" => NothingJudged
  /\ node = "verdict" => NothingConcluded
  /\ node \in AfterDecomposition => ledger.atomic_claims # {}
  /\ Failed \/ outcome = "crashed" => NothingJudged
  /\ ledger.final_verdict # None => VerdictFromLedger

(* What the stage of a recorded error says of the ledger. *)
Recorded ==
  \A stage \in PipelineStage :
    control.errors = <<stage>> =>
      /\ stage \in {"INGESTION", "CLAIM_DECOMPOSITION"} => ledger = EmptyLedger
      /\ stage = "QUESTION_GENERATION" => NothingAsked
      /\ stage = "RETRIEVAL" =>
           /\ ClaimIds(ledger.retrieval_queries) = ledger.atomic_claims
           /\ NothingRetrieved
      /\ stage = "NLI_VERIFICATION" => ledger.fused_evidence # {}

(* Evidence is asked for, and found, only as the variant of the run says.  *)
Sourced ==
  /\ "LEXICAL" \in run_context => variant.use_bm25
  /\ KnownClaims(ledger, ledger.probe_questions)
  /\ ~variant.use_question_generation => ledger.probe_questions = {}
  /\ KnownClaims(ledger, ledger.nli_results)

PipelineInv == TypeOK /\ Routed /\ Reached /\ Recorded /\ Sourced
                 /\ EvidenceServesItsClaim

-----------------------------------------------------------------------------
(* What the rules return, for any results, claims and configuration.       *)

(* What one claim's status means.                                          *)
LEMMA StatusMeaning ==
  ASSUME NEW results, NEW c, NEW cfg
  PROVE  /\ Status(results, c, cfg) = "CONTRADICTED"
              <=> Contradicting(results, c, cfg) # {}
         /\ Status(results, c, cfg) = "SUPPORTED"
              <=> /\ Contradicting(results, c, cfg) = {}
                  /\ Entailing(results, c, cfg) # {}
         /\ Status(results, c, cfg) = "UNRESOLVED"
              <=> /\ Contradicting(results, c, cfg) = {}
                  /\ Entailing(results, c, cfg) = {}
  BY DEF Status

(* What evaluate() returns, in terms of the statuses of the claims.        *)
LEMMA EvaluateMeaning ==
  ASSUME NEW results, NEW ids, NEW S, NEW cfg \in RuleEngineConfig(S)
  PROVE  LET v == Evaluate(results, ids, cfg)
             contradicted == ClaimsWith("CONTRADICTED", results, ids, cfg)
             unresolved   == ClaimsWith("UNRESOLVED", results, ids, cfg)
         IN  /\ v \in FinalVerdict(ids)
             /\ v.contradicted_claim_ids = contradicted
             /\ v.unresolved_claim_ids = unresolved
             /\ v.verdict = "CONTRADICTORY" <=> contradicted # {}
             /\ v.verdict = "INSUFFICIENT_EVIDENCE"
                  <=> /\ contradicted = {}
                      /\ unresolved # {}
                      /\ cfg.consistency_requires_entailment
  BY DEF Evaluate, ClaimsWith, FinalVerdict, VerdictEnum, FiredRule, RuleEngineConfig

(* classify() puts every claim into exactly one of its three lists.        *)
LEMMA StatusesPartition ==
  ASSUME NEW results, NEW ids, NEW cfg
  PROVE  LET contradicted == ClaimsWith("CONTRADICTED", results, ids, cfg)
             supported    == ClaimsWith("SUPPORTED", results, ids, cfg)
             unresolved   == ClaimsWith("UNRESOLVED", results, ids, cfg)
         IN  /\ contradicted \union supported \union unresolved = ids
             /\ contradicted \intersect supported = {}
             /\ (contradicted \union supported) \intersect unresolved = {}
  BY DEF ClaimsWith, Status

(* The contradictions name exactly the contradicted claims, and the        *)
(* supporting records exactly the supported ones.                          *)
LEMMA TracedClaims ==
  ASSUME NEW results, NEW ids, NEW cfg
  PROVE  /\ {r.atomic_claim_id : r \in Contradictions(results, ids, cfg)}
              = ClaimsWith("CONTRADICTED", results, ids, cfg)
         /\ {r.atomic_claim_id : r \in SupportingEvidence(results, ids, cfg)}
              = ClaimsWith("SUPPORTED", results, ids, cfg)
<1>1. \A c : \A r \in Contradicting(results, c, cfg) : TraceRecord(r).atomic_claim_id = c
  BY DEF Contradicting, TraceRecord
<1>2. \A c : \A r \in Entailing(results, c, cfg) : TraceRecord(r).atomic_claim_id = c
  BY DEF Entailing, TraceRecord
<1>3. \A c \in ClaimsWith("CONTRADICTED", results, ids, cfg) :
        Contradicting(results, c, cfg) # {}
  BY StatusMeaning DEF ClaimsWith
<1>4. \A c \in ClaimsWith("SUPPORTED", results, ids, cfg) :
        Entailing(results, c, cfg) # {}
  BY StatusMeaning DEF ClaimsWith
<1>5. {r.atomic_claim_id : r \in Contradictions(results, ids, cfg)}
        = ClaimsWith("CONTRADICTED", results, ids, cfg)
  BY <1>1, <1>3 DEF Contradictions
<1>6. {r.atomic_claim_id : r \in SupportingEvidence(results, ids, cfg)}
        = ClaimsWith("SUPPORTED", results, ids, cfg)
  BY <1>2, <1>4 DEF SupportingEvidence
<1>7. QED
  BY <1>5, <1>6

(* Every traced record stands for one of the results it was drawn from.    *)
LEMMA TracedResults ==
  ASSUME NEW results, NEW ids, NEW cfg,
         NEW t \in Contradictions(results, ids, cfg)
                     \union SupportingEvidence(results, ids, cfg)
  PROVE  \E r \in results : t = TraceRecord(r) /\ r.atomic_claim_id \in ids
<1>1. CASE t \in Contradictions(results, ids, cfg)
  <2>1. PICK c \in ids : \E r \in Contradicting(results, c, cfg) : t = TraceRecord(r)
    BY <1>1 DEF Contradictions, ClaimsWith
  <2>2. QED
    BY <2>1 DEF Contradicting
<1>2. CASE t \in SupportingEvidence(results, ids, cfg)
  <2>1. PICK c \in ids : \E r \in Entailing(results, c, cfg) : t = TraceRecord(r)
    BY <1>2 DEF SupportingEvidence, ClaimsWith
  <2>2. QED
    BY <2>1 DEF Entailing
<1>3. QED
  BY <1>1, <1>2

(* The trace of typed results is typed. *)
LEMMA TraceTyped ==
  ASSUME NEW Cl, NEW Ch, NEW Sc, NEW results \in SUBSET NLIResult(Cl, Ch, Sc),
         NEW ids, NEW cfg
  PROVE  /\ Contradictions(results, ids, cfg) \subseteq Trace(Cl, Ch, Sc)
         /\ SupportingEvidence(results, ids, cfg) \subseteq Trace(Cl, Ch, Sc)
<1>1. \A r \in results : TraceRecord(r) \in Trace(Cl, Ch, Sc)
  BY DEF TraceRecord, Trace, NLIResult
<1>2. QED
  BY <1>1, TracedResults

-----------------------------------------------------------------------------
(* Typing of what the nodes write. *)

(* A ledger begins typed.                                                  *)
LEMMA EmptyLedgerTyped == EmptyLedger \in LedgerType
  BY DEF EmptyLedger, LedgerType

(* A log with one more event is a log.                                     *)
LEMMA LogTyped ==
  ASSUME NEW log \in [PipelineStage -> Nat], NEW stage \in PipelineStage
  PROVE  WithEvent(log, stage) \in [PipelineStage -> Nat]
  BY DEF WithEvent

-----------------------------------------------------------------------------
(* The boundary and the edge, which every node shares. *)

(* Lists of one are told apart by what they hold.                          *)
LEMMA Singletons ==
  /\ \A a : <<a>> # <<>>
  /\ \A a, b : <<a>> = <<b>> => a = b
  OBVIOUS

(* A node that raised leaves a failed or a crashed run behind, and at most *)
(* its own stage on record.                                                *)
LEMMA BoundaryRoutes ==
  ASSUME TypeOK, Routed, node \in Working,
         NEW stage \in FailingStage, NEW next \in Working,
         ErrorBoundary(stage), Edge(next)
  PROVE  /\ control' \in ControlState
         /\ node' \in {"error_sink", "END"}
         /\ outcome' \in {"running", "crashed"}
         /\ Routed'
         /\ \A other : control'.errors = <<other>> => other = stage
         /\ Failed' \/ outcome' = "crashed"
<1>1. control.errors = <<>> /\ ~Failed /\ outcome = "running"
  BY DEF Routed
<1>2. CASE /\ control' = [current_stage |-> "ERROR",
                          errors |-> Append(control.errors, stage)]
           /\ UNCHANGED outcome
  <2>1. Append(control.errors, stage) = <<stage>>
    BY <1>1
  <2>2. control' = [current_stage |-> "ERROR", errors |-> <<stage>>]
    BY <1>2, <2>1
  <2>3. <<stage>> \in Seq(PipelineStage)
    BY DEF FailingStage, PipelineStage
  <2>4. /\ control' \in ControlState
        /\ node' = "error_sink" /\ outcome' = "running"
        /\ Failed' /\ control'.errors = <<stage>>
    BY <1>1, <1>2, <2>2, <2>3 DEF ControlState, PipelineStage, Edge, RouteAfter, Failed
  <2>5. Routed'
    BY <2>4 DEF Routed, Working, AfterDecomposition
  <2>6. QED
    BY <2>4, <2>5, Singletons
<1>3. CASE outcome' = "crashed" /\ UNCHANGED control
  <2>1. /\ control' \in ControlState
        /\ node' = "END" /\ outcome' = "crashed"
        /\ ~Failed' /\ control'.errors = <<>>
    BY <1>1, <1>3 DEF TypeOK, Edge, Failed
  <2>2. Routed'
    BY <2>1 DEF Routed, Working, AfterDecomposition
  <2>3. QED
    BY <2>1, <2>2, Singletons
<1>4. QED
  BY <1>2, <1>3 DEF ErrorBoundary

(* A node that succeeded goes on, still without an error. *)
LEMMA AdvanceRoutes ==
  ASSUME TypeOK, Routed, node \in Working, NEW next \in Working,
         NEW stage \in PipelineStage \ {"ERROR"}, Advance(stage), Edge(next)
  PROVE  /\ control' \in ControlState
         /\ node' = next
         /\ outcome' = "running"
         /\ ~Failed'
         /\ Routed'
         /\ Recorded'
<1>1. /\ control' \in ControlState /\ node' = next /\ outcome' = "running"
      /\ ~Failed' /\ control'.errors = <<>>
  BY DEF TypeOK, Routed, ControlState, Advance, Edge, RouteAfter, Failed
<1>2. Routed'
  BY <1>1 DEF Routed, Working, AfterDecomposition
<1>3. Recorded'
  BY <1>1, Singletons DEF Recorded
<1>4. QED
  BY <1>1, <1>2, <1>3

-----------------------------------------------------------------------------
(* One lemma per node. *)

(* The ingest node.                                                        *)
LEMMA IngestKeepsInv ==
  ASSUME PipelineInv, IngestAndIndex
  PROVE  PipelineInv'
<1>1. /\ node \in Working /\ ledger = EmptyLedger /\ ledger' = ledger
      /\ variant' = variant
  BY DEF PipelineInv, Working, Reached, IngestAndIndex, Running
<1>2. run_context' \in SUBSET Source /\ ("LEXICAL" \in run_context' => variant.use_bm25)
  BY DEF IngestAndIndex, Source
<1>3. EvidenceServesItsClaim' /\ Sourced'
  BY <1>1, <1>2 DEF PipelineInv, EvidenceServesItsClaim, Sourced, Judged, ClaimChunkPairs
<1>4. CASE Advance("CLAIM_DECOMPOSITION")
  <2>1. /\ control' \in ControlState /\ node' = "decompose_claim"
        /\ outcome' = "running" /\ ~Failed' /\ Routed' /\ Recorded'
    BY <1>1, <1>4, AdvanceRoutes DEF PipelineInv, IngestAndIndex, Working, PipelineStage
  <2>2. TypeOK'
    BY <1>1, <1>2, <2>1 DEF PipelineInv, TypeOK, Node
  <2>3. Reached'
    BY <1>1, <2>1 DEF Reached, AfterDecomposition, EmptyLedger
  <2>4. QED
    BY <1>3, <2>1, <2>2, <2>3 DEF PipelineInv
<1>5. CASE ErrorBoundary("INGESTION")
  <2>1. /\ control' \in ControlState /\ node' \in {"error_sink", "END"}
        /\ outcome' \in {"running", "crashed"} /\ Routed'
        /\ \A other : control'.errors = <<other>> => other = "INGESTION"
    BY <1>1, <1>5, BoundaryRoutes
       DEF PipelineInv, IngestAndIndex, Working, FailingStage
  <2>2. TypeOK'
    BY <1>1, <1>2, <2>1 DEF PipelineInv, TypeOK, Node
  <2>3. Reached'
    BY <1>1, <2>1 DEF Reached, AfterDecomposition, EmptyLedger, NothingJudged,
                      NothingConcluded
  <2>4. Recorded'
    BY <1>1, <2>1 DEF Recorded
  <2>5. QED
    BY <1>3, <2>1, <2>2, <2>3, <2>4 DEF PipelineInv
<1>6. QED
  BY <1>4, <1>5 DEF IngestAndIndex

(* A failed node that leaves the ledger alone keeps everything but, if its *)
(* stage makes a promise, that promise.                                    *)
LEMMA UntouchedFailureKeepsInv ==
  ASSUME PipelineInv, node \in Working, NothingJudged,
         NEW stage \in FailingStage, NEW next \in Working,
         ErrorBoundary(stage), Edge(next), UNCHANGED <<variant, run_context, ledger>>,
         /\ stage \in {"INGESTION", "CLAIM_DECOMPOSITION"} => ledger = EmptyLedger
         /\ stage = "QUESTION_GENERATION" => NothingAsked
         /\ stage = "NLI_VERIFICATION" => ledger.fused_evidence # {},
         stage # "RETRIEVAL"
  PROVE  PipelineInv'
<1>1. /\ control' \in ControlState /\ node' \in {"error_sink", "END"}
      /\ outcome' \in {"running", "crashed"} /\ Routed'
      /\ \A other : control'.errors = <<other>> => other = stage
  BY BoundaryRoutes DEF PipelineInv
<1>2. TypeOK'
  BY <1>1 DEF PipelineInv, TypeOK, Node
<1>3. Reached'
  BY <1>1 DEF PipelineInv, Reached, AfterDecomposition, NothingJudged, NothingConcluded
<1>4. Recorded'
  BY <1>1 DEF Recorded, NothingAsked, NothingQueried, NothingRetrieved, NothingFused,
              NothingJudged, NothingConcluded
<1>5. EvidenceServesItsClaim' /\ Sourced'
  BY DEF PipelineInv, EvidenceServesItsClaim, Sourced, Judged, ClaimChunkPairs,
         KnownClaims, ClaimIds
<1>6. QED
  BY <1>1, <1>2, <1>3, <1>4, <1>5 DEF PipelineInv

(* The decompose node.                                                     *)
LEMMA DecomposeKeepsInv ==
  ASSUME PipelineInv, DecomposeClaim
  PROVE  PipelineInv'
<1>1. CASE DecomposeFails
  <2>1. node \in Working /\ ledger = EmptyLedger
    BY <1>1 DEF PipelineInv, Working, Reached, DecomposeFails, Running
  <2>2. NothingJudged
    BY <2>1 DEF EmptyLedger, NothingJudged, NothingConcluded
  <2>3. QED
    BY <1>1, <2>1, <2>2, UntouchedFailureKeepsInv
       DEF DecomposeFails, FailingStage, Working, AfterDecomposition
<1>2. ASSUME NEW claims \in Decompositions, DecomposeInto(claims)
      PROVE  PipelineInv'
  <2>1. claims \in SUBSET Claim /\ claims # {}
    BY FS_EmptySet DEF Decompositions
  <2>2. /\ node = "decompose_claim" /\ node \in Working /\ ledger = EmptyLedger
    BY <1>2 DEF PipelineInv, Working, Reached, DecomposeInto, Running
  <2>3. ledger' = [EmptyLedger EXCEPT
                     !.original_claim_id = ParentId, !.atomic_claims = claims,
                     !.ledger_log = WithEvent(EmptyLedger.ledger_log, "CLAIM_DECOMPOSITION")]
    BY <1>2, <2>2 DEF DecomposeInto, record_atomic_claims, EmptyLedger
  <2>4. /\ control' \in ControlState /\ node' = "generate_questions"
        /\ outcome' = "running" /\ ~Failed' /\ Routed' /\ Recorded'
    BY <1>2, <2>2, AdvanceRoutes
       DEF PipelineInv, DecomposeInto, Working, AfterDecomposition, PipelineStage
  <2>5. ledger' \in LedgerType
    BY <2>1, <2>3, LogTyped, EmptyLedgerTyped DEF LedgerType, PipelineStage
  <2>6. TypeOK'
    BY <1>2, <2>4, <2>5 DEF PipelineInv, TypeOK, Node, DecomposeInto
  <2>7. ledger'.atomic_claims = claims /\ NothingAsked'
    BY <2>3 DEF EmptyLedger, NothingAsked, NothingQueried, NothingRetrieved,
                NothingFused, NothingJudged, NothingConcluded
  <2>8. Reached'
    BY <2>1, <2>4, <2>7 DEF Reached, NothingAsked, NothingQueried, NothingRetrieved,
                            NothingFused, NothingJudged, NothingConcluded
  <2>9. EvidenceServesItsClaim' /\ Sourced'
    BY <1>2, <2>7 DEF PipelineInv, DecomposeInto, EvidenceServesItsClaim, Sourced,
         Judged, ClaimChunkPairs, KnownClaims, ClaimIds, NothingAsked,
         NothingQueried, NothingRetrieved, NothingFused, NothingJudged
  <2>10. QED
    BY <2>4, <2>6, <2>8, <2>9 DEF PipelineInv
<1>3. QED
  BY <1>1, <1>2 DEF DecomposeClaim

(* The lists a method leaves as they were. *)
SameUpTo(l, m) ==
  /\ m.original_claim_id = l.original_claim_id
  /\ m.atomic_claims = l.atomic_claims
  /\ m.reasoning_trace = l.reasoning_trace
  /\ m.ledger_log \in [PipelineStage -> Nat]
SameConclusions(l, m) ==
  /\ m.contradictions = l.contradictions
  /\ m.supporting_evidence = l.supporting_evidence
  /\ m.unsupported_claims = l.unsupported_claims
  /\ m.final_verdict = l.final_verdict

(* The question node.                                                      *)
LEMMA GenerateKeepsInv ==
  ASSUME PipelineInv, GenerateQuestions
  PROVE  PipelineInv'
<1> USE DEF NothingAsked, NothingQueried, NothingRetrieved, NothingFused,
            NothingJudged, NothingConcluded
<1>1. CASE GenerationFails
  <2>1. node \in Working /\ NothingAsked
    BY <1>1 DEF PipelineInv, Working, AfterDecomposition, Reached, GenerationFails, Running
  <2>2. QED
    BY <1>1, <2>1, UntouchedFailureKeepsInv
       DEF GenerationFails, FailingStage, Working, AfterDecomposition
<1>2. ASSUME NEW questions \in GeneratedQuestions(ledger.atomic_claims),
             GenerateInto(questions)
      PROVE  PipelineInv'
  <2>1. /\ node = "generate_questions" /\ node \in Working /\ NothingAsked
        /\ ledger.atomic_claims # {} /\ ledger \in LedgerType
    BY <1>2 DEF PipelineInv, TypeOK, Working, AfterDecomposition, Reached,
                GenerateInto, Running
  <2>2. /\ questions \in SUBSET ProbeQuestion(Claim, Question)
        /\ KnownClaims(ledger, questions)
        /\ ~variant.use_question_generation => questions = {}
    <3>1. ledger.atomic_claims \subseteq Claim
      BY <2>1 DEF LedgerType
    <3>2. questions \in SUBSET ProbeQuestion(ledger.atomic_claims, Question)
      BY DEF GeneratedQuestions
    <3>3. QED
      BY <1>2, <3>1, <3>2 DEF GeneratedQuestions, GenerateInto,
         MayRecordProbeQuestions, ProbeQuestion
  <2>3. /\ ledger'.probe_questions = questions
        /\ ledger'.retrieval_queries = {} /\ ledger'.retrieved_evidence = {}
        /\ ledger'.fused_evidence = {} /\ ledger'.nli_results = {}
        /\ SameUpTo(ledger, ledger') /\ SameConclusions(ledger, ledger')
        /\ ledger' \in LedgerType
    <3>1. WithEvent(ledger.ledger_log, "QUESTION_GENERATION") \in [PipelineStage -> Nat]
      BY <2>1, LogTyped DEF LedgerType, PipelineStage
    <3>2. QED
      BY <1>2, <2>1, <2>2, <3>1 DEF GenerateInto, record_probe_questions, LedgerType,
         SameUpTo, SameConclusions
  <2>4. /\ control' \in ControlState /\ node' = "retrieve"
        /\ outcome' = "running" /\ ~Failed' /\ Routed' /\ Recorded'
    BY <1>2, <2>1, AdvanceRoutes
       DEF PipelineInv, GenerateInto, Working, AfterDecomposition, PipelineStage
  <2>5. TypeOK'
    BY <1>2, <2>3, <2>4 DEF PipelineInv, TypeOK, Node, GenerateInto
  <2>6. Reached'
    BY <2>1, <2>3, <2>4 DEF Reached, SameUpTo, SameConclusions
  <2>7. EvidenceServesItsClaim' /\ Sourced'
    BY <1>2, <2>1, <2>2, <2>3
       DEF PipelineInv, GenerateInto, EvidenceServesItsClaim, Sourced,
           Judged, ClaimChunkPairs, KnownClaims, ClaimIds, SameUpTo
  <2>8. QED
    BY <2>4, <2>5, <2>6, <2>7 DEF PipelineInv
<1>3. QED
  BY <1>1, <1>2 DEF GenerateQuestions

(* One query per claim at least, none for another claim, and a query about *)
(* a question only for a recorded question.                                *)
LEMMA QueriesOfClaims ==
  ASSUME NEW claims, NEW questions, ClaimIds(questions) \subseteq claims
  PROVE  /\ ClaimIds(BuildRetrievalQueries(claims, questions)) = claims
         /\ \A q \in BuildRetrievalQueries(claims, questions) :
              /\ q = [query_id |-> q.query_id, atomic_claim_id |-> q.atomic_claim_id]
              /\ q.query_id[2] # None => questions # {}
<1> DEFINE own == {[query_id |-> <<c, None>>, atomic_claim_id |-> c] : c \in claims}
           asked == {[query_id |-> <<q.atomic_claim_id, q.question_id>>,
                      atomic_claim_id |-> q.atomic_claim_id] : q \in questions}
<1>1. BuildRetrievalQueries(claims, questions) = own \union asked
  BY DEF BuildRetrievalQueries
<1>2. \A q \in own : /\ q = [query_id |-> q.query_id, atomic_claim_id |-> q.atomic_claim_id]
                     /\ q.query_id[2] = None
                     /\ q.atomic_claim_id \in claims
  OBVIOUS
<1>3. \A q \in asked : /\ q = [query_id |-> q.query_id, atomic_claim_id |-> q.atomic_claim_id]
                       /\ q.atomic_claim_id \in claims
                       /\ questions # {}
  BY DEF ClaimIds
<1>4. \A c \in claims : \E q \in own : q.atomic_claim_id = c
  <2>1. ASSUME NEW c \in claims
        PROVE  [query_id |-> <<c, None>>, atomic_claim_id |-> c] \in own
    OBVIOUS
  <2>2. \A c : [query_id |-> <<c, None>>, atomic_claim_id |-> c].atomic_claim_id = c
    OBVIOUS
  <2> HIDE DEF own
  <2>3. QED
    BY <2>1, <2>2
<1> HIDE DEF own, asked
<1>5. ClaimIds(own \union asked) = claims
  BY <1>2, <1>3, <1>4 DEF ClaimIds
<1>6. QED
  BY <1>1, <1>2, <1>3, <1>5

(* Queries built from typed claims and questions are typed.                *)
LEMMA QueriesTyped ==
  ASSUME NEW claims \in SUBSET Claim,
         NEW questions \in SUBSET ProbeQuestion(Claim, Question)
  PROVE  BuildRetrievalQueries(claims, questions) \in SUBSET RetrievalQuery(Claim, QueryId)
  BY DEF BuildRetrievalQueries, RetrievalQuery, ProbeQuestion, QueryId

(* The queries are the recorded ones when retrieval has begun. *)
LEMMA QueriesRecorded ==
  ASSUME PipelineInv, node = "retrieve", NEW queried,
         queried = record_retrieval_queries(ledger, Queries)
  PROVE  /\ queried \in LedgerType
         /\ queried.retrieval_queries = Queries
         /\ queried.probe_questions = ledger.probe_questions
         /\ queried.retrieved_evidence = {} /\ queried.fused_evidence = {}
         /\ queried.nli_results = {}
         /\ SameUpTo(ledger, queried) /\ SameConclusions(ledger, queried)
<1>1. ledger \in LedgerType /\ NothingQueried
  BY DEF PipelineInv, TypeOK, Reached
<1>2. Queries \in SUBSET RetrievalQuery(Claim, QueryId)
  BY <1>1, QueriesTyped DEF Queries, LedgerType
<1>3. WithEvent(ledger.ledger_log, "RETRIEVAL") \in [PipelineStage -> Nat]
  BY <1>1, LogTyped DEF LedgerType, PipelineStage
<1>4. QED
  BY <1>1, <1>2, <1>3 DEF record_retrieval_queries, LedgerType, SameUpTo,
     SameConclusions, NothingQueried, NothingRetrieved, NothingFused, NothingJudged

(* The retrieve node.                                                      *)
LEMMA RetrieveKeepsInv ==
  ASSUME PipelineInv, Retrieve
  PROVE  PipelineInv'
<1> DEFINE queried == record_retrieval_queries(ledger, Queries)
<1>1. /\ node = "retrieve" /\ node \in Working /\ NothingQueried
      /\ ledger.atomic_claims # {} /\ ledger \in LedgerType
  BY DEF PipelineInv, TypeOK, Working, AfterDecomposition, Reached, Retrieve,
         RetrieveInto, RetrievalFails, Running
<1>2. /\ queried \in LedgerType
      /\ queried.retrieval_queries = Queries
      /\ queried.probe_questions = ledger.probe_questions
      /\ queried.retrieved_evidence = {} /\ queried.fused_evidence = {}
      /\ queried.nli_results = {}
      /\ SameUpTo(ledger, queried) /\ SameConclusions(ledger, queried)
  BY <1>1, QueriesRecorded
<1>3. /\ Queries \in SUBSET RetrievalQuery(Claim, QueryId)
      /\ ClaimIds(Queries) = ledger.atomic_claims
      /\ \A q \in Queries :
           /\ q = [query_id |-> q.query_id, atomic_claim_id |-> q.atomic_claim_id]
           /\ q.query_id[2] # None => ledger.probe_questions # {}
  <2>1. ClaimIds(ledger.probe_questions) \subseteq ledger.atomic_claims
    BY DEF PipelineInv, Sourced, KnownClaims
  <2>2. QED
    BY <1>1, <2>1, QueriesOfClaims, QueriesTyped DEF Queries, LedgerType
<1> HIDE DEF queried
<1> USE DEF NothingQueried, NothingRetrieved, NothingFused, NothingJudged,
            NothingConcluded
<1>4. CASE RetrievalFails
  <2>1. ledger' = queried /\ variant' = variant /\ run_context' = run_context
    BY <1>4 DEF RetrievalFails, queried
  <2>2. /\ control' \in ControlState /\ node' \in {"error_sink", "END"}
        /\ outcome' \in {"running", "crashed"} /\ Routed'
        /\ \A other : control'.errors = <<other>> => other = "RETRIEVAL"
    BY <1>1, <1>4, BoundaryRoutes
       DEF PipelineInv, RetrievalFails, Working, AfterDecomposition, FailingStage
  <2>3. TypeOK'
    BY <1>2, <2>1, <2>2 DEF PipelineInv, TypeOK, Node
  <2>4. NothingRetrieved'
    BY <1>1, <1>2, <2>1 DEF SameConclusions
  <2>5. Reached'
    BY <2>2, <2>4 DEF Reached, AfterDecomposition
  <2>6. Recorded'
    BY <1>2, <1>3, <2>1, <2>2, <2>4 DEF Recorded, SameUpTo
  <2>7. EvidenceServesItsClaim' /\ Sourced'
    BY <1>2, <2>1 DEF PipelineInv, EvidenceServesItsClaim, Sourced,
       Judged, ClaimChunkPairs, KnownClaims, ClaimIds, SameUpTo
  <2>8. QED
    BY <2>2, <2>3, <2>5, <2>6, <2>7 DEF PipelineInv
<1>5. ASSUME NEW returned \in [Queries \X run_context -> TopKChunks],
             RetrieveInto(returned)
      PROVE  PipelineInv'
  <2>1. /\ ledger' = record_retrieved_evidence(queried, Stamped(returned))
        /\ variant' = variant /\ run_context' = run_context
    BY <1>5 DEF RetrieveInto, queried
  <2>2. run_context \subseteq Source
    BY DEF PipelineInv, TypeOK
  <2>3. \A e \in Stamped(returned) :
          /\ e \in RetrievedEvidence(Claim, QueryId, Chunk, run_context)
          /\ \E q \in Queries : /\ e.query_id = q.query_id
                                /\ e.atomic_claim_id = q.atomic_claim_id
    <3>1. SUFFICES ASSUME NEW e \in Stamped(returned)
                   PROVE  /\ e \in RetrievedEvidence(Claim, QueryId, Chunk, run_context)
                          /\ \E q \in Queries : /\ e.query_id = q.query_id
                                                /\ e.atomic_claim_id = q.atomic_claim_id
      OBVIOUS
    <3>2. Queries \in SUBSET RetrievalQuery(Claim, QueryId)
      BY <1>3
    <3>3. PICK call \in Queries \X run_context : \E k \in returned[call] :
            e = [chunk_id |-> k, source |-> call[2],
                 atomic_claim_id |-> call[1].atomic_claim_id,
                 query_id |-> call[1].query_id]
      BY DEF Stamped
    <3>4. /\ returned[call] \subseteq Chunk
          /\ call[1] \in Queries /\ call[2] \in run_context
      BY DEF TopKChunks
    <3>5. call[1].query_id \in QueryId /\ call[1].atomic_claim_id \in Claim
      BY <3>2, <3>4 DEF RetrievalQuery
    <3>6. QED
      BY <3>3, <3>4, <3>5 DEF RetrievedEvidence
  <2>4. Stamped(returned) \in SUBSET RetrievedEvidence(Claim, QueryId, Chunk, Source)
    BY <2>2, <2>3 DEF RetrievedEvidence
  <2>5. /\ ledger'.retrieved_evidence = Stamped(returned)
        /\ ledger'.retrieval_queries = Queries
        /\ ledger'.probe_questions = ledger.probe_questions
        /\ ledger'.fused_evidence = {} /\ ledger'.nli_results = {}
        /\ SameUpTo(ledger, ledger') /\ SameConclusions(ledger, ledger')
        /\ ledger' \in LedgerType
    <3>1. WithEvent(queried.ledger_log, "RETRIEVAL") \in [PipelineStage -> Nat]
      BY <1>2, LogTyped DEF LedgerType, PipelineStage
    <3>2. QED
      BY <1>2, <2>1, <2>4, <3>1 DEF record_retrieved_evidence, LedgerType,
         SameUpTo, SameConclusions
  <2>6. /\ control' \in ControlState /\ node' = "fuse"
        /\ outcome' = "running" /\ ~Failed' /\ Routed' /\ Recorded'
    BY <1>1, <1>5, AdvanceRoutes
       DEF PipelineInv, RetrieveInto, Working, AfterDecomposition, PipelineStage
  <2>7. TypeOK'
    BY <2>1, <2>5, <2>6 DEF PipelineInv, TypeOK, Node
  <2>8. Reached'
    BY <1>1, <2>5, <2>6 DEF Reached, SameUpTo, SameConclusions
  <2>9. Sourced'
    BY <2>1, <2>5 DEF PipelineInv, Sourced, KnownClaims, ClaimIds, SameUpTo
  <2>10. ASSUME NEW e \in Stamped(returned)
         PROVE  /\ e.atomic_claim_id \in ledger.atomic_claims
                /\ [query_id |-> e.query_id, atomic_claim_id |-> e.atomic_claim_id]
                     \in Queries
                /\ e.source = "LEXICAL" => variant.use_bm25
                /\ e.query_id[2] # None => variant.use_question_generation
    <3>1. PICK q \in Queries : /\ e.query_id = q.query_id
                               /\ e.atomic_claim_id = q.atomic_claim_id
      BY <2>3
    <3>2. q.atomic_claim_id \in ClaimIds(Queries)
      BY DEF ClaimIds
    <3>3. e.source \in run_context
      BY <2>3 DEF RetrievedEvidence
    <3>4. QED
      BY <1>3, <3>1, <3>2, <3>3 DEF PipelineInv, Sourced
  <2>11. EvidenceServesItsClaim'
    BY <2>1, <2>5, <2>10
       DEF EvidenceServesItsClaim, Judged, ClaimChunkPairs, SameUpTo
  <2>12. QED
    BY <2>6, <2>7, <2>8, <2>9, <2>11 DEF PipelineInv
<1>6. QED
  BY <1>4, <1>5 DEF Retrieve

(* The fuse node.                                                          *)
LEMMA FuseKeepsInv ==
  ASSUME PipelineInv, Fuse
  PROVE  PipelineInv'
<1> USE DEF NothingFused, NothingJudged, NothingConcluded
<1>1. PICK fused \in Fusions(ledger.retrieved_evidence) : FuseInto(fused)
  BY DEF Fuse
<1>2. /\ node = "fuse" /\ node \in Working /\ NothingFused
      /\ ledger.atomic_claims # {} /\ ledger \in LedgerType
  BY <1>1 DEF PipelineInv, TypeOK, Working, AfterDecomposition, Reached,
              FuseInto, Running
<1>3. /\ fused \in SUBSET FusedEvidence(Claim, Chunk)
      /\ ClaimChunkPairs(fused) \subseteq ClaimChunkPairs(ledger.retrieved_evidence)
  <2>1. \A f \in fused : f.atomic_claim_id \in ledger.atomic_claims
    BY <1>1 DEF FuseInto, MayRecordFusedEvidence, KnownClaims, ClaimIds
  <2>2. \A f \in fused : /\ f.chunk_id \in Chunk
                         /\ f = [atomic_claim_id |-> f.atomic_claim_id,
                                 chunk_id |-> f.chunk_id]
    BY DEF Fusions, FusedEvidence
  <2>3. ledger.atomic_claims \subseteq Claim
    BY <1>2 DEF LedgerType
  <2>4. QED
    BY <1>1, <2>1, <2>2, <2>3 DEF FuseInto, MayRecordFusedEvidence, FusedEvidence
<1>4. /\ ledger'.fused_evidence = fused
      /\ ledger'.retrieved_evidence = ledger.retrieved_evidence
      /\ ledger'.retrieval_queries = ledger.retrieval_queries
      /\ ledger'.probe_questions = ledger.probe_questions
      /\ ledger'.nli_results = {}
      /\ SameUpTo(ledger, ledger') /\ SameConclusions(ledger, ledger')
      /\ ledger' \in LedgerType
  <2>1. WithEvent(ledger.ledger_log, "FUSION") \in [PipelineStage -> Nat]
    BY <1>2, LogTyped DEF LedgerType, PipelineStage
  <2>2. QED
    BY <1>1, <1>2, <1>3, <2>1 DEF FuseInto, record_fused_evidence, LedgerType,
       SameUpTo, SameConclusions
<1>5. /\ control' \in ControlState /\ node' = "verify_nli"
      /\ outcome' = "running" /\ ~Failed' /\ Routed' /\ Recorded'
  BY <1>1, <1>2, AdvanceRoutes
     DEF PipelineInv, FuseInto, Working, AfterDecomposition, PipelineStage
<1>6. TypeOK'
  BY <1>1, <1>4, <1>5 DEF PipelineInv, TypeOK, Node, FuseInto
<1>7. Reached'
  BY <1>2, <1>4, <1>5 DEF Reached, SameUpTo, SameConclusions
<1>8. EvidenceServesItsClaim' /\ Sourced'
  BY <1>1, <1>3, <1>4
     DEF PipelineInv, FuseInto, EvidenceServesItsClaim, Sourced, Judged, KnownClaims,
         ClaimIds, SameUpTo
<1>9. QED
  BY <1>5, <1>6, <1>7, <1>8 DEF PipelineInv

(* Judgements of fused evidence are typed, and of the claims it was fused  *)
(* for.                                                                    *)
LEMMA JudgementsTyped ==
  ASSUME NEW fused \in SUBSET FusedEvidence(Claim, Chunk), NEW claims,
         NEW judged \in [fused -> NLILabel \X Score]
  PROVE  LET results == Judgements(FusedFor(fused, claims), judged)
         IN  /\ results \in SUBSET NLIResult(Claim, Chunk, Score)
             /\ ClaimIds(results) \subseteq claims
<1>1. ASSUME NEW f \in FusedFor(fused, claims)
      PROVE  /\ f \in fused /\ f.atomic_claim_id \in claims
             /\ f.atomic_claim_id \in Claim /\ f.chunk_id \in Chunk
             /\ judged[f][1] \in NLILabel /\ judged[f][2] \in Score
  BY DEF FusedFor, FusedEvidence
<1>2. QED
  BY <1>1 DEF Judgements, NLIResult, ClaimIds

(* The verification node.                                                  *)
LEMMA VerifyKeepsInv ==
  ASSUME PipelineInv, VerifyNLI
  PROVE  PipelineInv'
<1> USE DEF NothingJudged, NothingConcluded
<1>1. /\ node = "verify_nli" /\ node \in Working /\ NothingJudged
      /\ ledger.atomic_claims # {} /\ ledger \in LedgerType
  BY DEF PipelineInv, TypeOK, Working, AfterDecomposition, Reached, VerifyNLI,
         VerifyInto, VerificationFails, Running
<1>2. CASE VerificationFails
  <2>1. ledger.fused_evidence # {}
    BY <1>2 DEF VerificationFails, FusedFor
  <2>2. QED
    BY <1>1, <1>2, <2>1, UntouchedFailureKeepsInv
       DEF VerificationFails, FailingStage, Working, AfterDecomposition
<1>3. ASSUME NEW judged \in [ledger.fused_evidence -> NLILabel \X Score],
             VerifyInto(judged)
      PROVE  PipelineInv'
  <2> DEFINE results == Judgements(FusedFor(ledger.fused_evidence,
                                            ledger.atomic_claims), judged)
  <2>1. /\ results \in SUBSET NLIResult(Claim, Chunk, Score)
        /\ ClaimIds(results) \subseteq ledger.atomic_claims
    <3>1. ledger.fused_evidence \in SUBSET FusedEvidence(Claim, Chunk)
      BY <1>1 DEF LedgerType
    <3>2. QED
      BY <3>1, JudgementsTyped
  <2>2. /\ Judged(results) \subseteq ClaimChunkPairs(ledger.fused_evidence)
        /\ ledger' = record_nli_results(ledger, results)
        /\ variant' = variant /\ run_context' = run_context
    BY <1>3 DEF VerifyInto, MayRecordNLIResults, Judged
  <2> HIDE DEF results
  <2>3. /\ ledger'.nli_results = results
        /\ ledger'.fused_evidence = ledger.fused_evidence
        /\ ledger'.retrieved_evidence = ledger.retrieved_evidence
        /\ ledger'.retrieval_queries = ledger.retrieval_queries
        /\ ledger'.probe_questions = ledger.probe_questions
        /\ SameUpTo(ledger, ledger') /\ SameConclusions(ledger, ledger')
        /\ ledger' \in LedgerType
    <3>1. WithEvent(ledger.ledger_log, "NLI_VERIFICATION") \in [PipelineStage -> Nat]
      BY <1>1, LogTyped DEF LedgerType, PipelineStage
    <3>2. QED
      BY <1>1, <2>1, <2>2, <3>1 DEF record_nli_results, LedgerType,
         SameUpTo, SameConclusions
  <2>4. /\ control' \in ControlState /\ node' = "verdict"
        /\ outcome' = "running" /\ ~Failed' /\ Routed' /\ Recorded'
    BY <1>1, <1>3, AdvanceRoutes
       DEF PipelineInv, VerifyInto, Working, AfterDecomposition, PipelineStage
  <2>5. TypeOK'
    BY <2>2, <2>3, <2>4 DEF PipelineInv, TypeOK, Node
  <2>6. Reached'
    BY <1>1, <2>3, <2>4 DEF Reached, SameUpTo, SameConclusions
  <2>7. EvidenceServesItsClaim' /\ Sourced'
    BY <2>1, <2>2, <2>3
       DEF PipelineInv, EvidenceServesItsClaim, Sourced, KnownClaims, ClaimIds, SameUpTo
  <2>8. QED
    BY <2>4, <2>5, <2>6, <2>7 DEF PipelineInv
<1>4. QED
  BY <1>2, <1>3 DEF VerifyNLI

(* What the verdict node leaves: the engine's classification and verdict.  *)
LEMMA ConcludedLedger ==
  ASSUME NEW before \in LedgerType, NEW after,
         before.contradictions = {}, before.supporting_evidence = {},
         before.unsupported_claims = {},
         Concluded(before.atomic_claims, before, after)
  PROVE  LET results == before.nli_results
             ids     == before.atomic_claims
         IN  /\ after \in LedgerType
             /\ after.probe_questions = before.probe_questions
             /\ after.retrieval_queries = before.retrieval_queries
             /\ after.retrieved_evidence = before.retrieved_evidence
             /\ after.fused_evidence = before.fused_evidence
             /\ after.nli_results = results
             /\ after.contradictions = Contradictions(results, ids, rule_config)
             /\ after.supporting_evidence
                  = SupportingEvidence(results, ids, rule_config)
             /\ after.unsupported_claims
                  = UnsupportedClaims(results, ids, rule_config)
             /\ after.final_verdict = Evaluate(results, ids, rule_config)
             /\ after.final_verdict # None
             /\ SameUpTo(before, after)
<1> DEFINE results == before.nli_results
           ids     == before.atomic_claims
           contradictions == Contradictions(results, ids, rule_config)
           supporting == SupportingEvidence(results, ids, rule_config)
           unsupported == UnsupportedClaims(results, ids, rule_config)
           verdict == Evaluate(results, ids, rule_config)
           classified == record_classification(before, contradictions, supporting,
                                               unsupported)
<1>1. after = set_final_verdict(classified, verdict)
  BY DEF Concluded
<1>2. /\ contradictions \in SUBSET Trace(Claim, Chunk, Score)
      /\ supporting \in SUBSET Trace(Claim, Chunk, Score)
      /\ ids \in SUBSET Claim
  <2>1. /\ results \in SUBSET NLIResult(Claim, Chunk, Score)
        /\ ids \in SUBSET Claim
    BY DEF LedgerType
  <2>2. QED
    BY <2>1, TraceTyped
<1>3. unsupported \in SUBSET Claim
  BY <1>2 DEF UnsupportedClaims, ClaimsWith
<1>4. verdict \in FinalVerdict(Claim) /\ verdict # None
  <2>1. verdict \in FinalVerdict(ids)
    BY PipelineAssumption, EvaluateMeaning
  <2>2. FinalVerdict(ids) \subseteq FinalVerdict(Claim)
    BY <1>2 DEF FinalVerdict
  <2>3. QED
    BY <2>1, <2>2, PipelineAssumption
<1> HIDE DEF contradictions, supporting, unsupported, verdict
<1>5. WithEvent(WithEvent(before.ledger_log, "NLI_VERIFICATION"), "RULE_ENGINE")
        \in [PipelineStage -> Nat]
  BY LogTyped DEF LedgerType, PipelineStage
<1>6. after = [before EXCEPT
                 !.contradictions = contradictions,
                 !.supporting_evidence = supporting,
                 !.unsupported_claims = unsupported,
                 !.final_verdict = verdict,
                 !.ledger_log = WithEvent(WithEvent(@, "NLI_VERIFICATION"), "RULE_ENGINE")]
  BY <1>1 DEF record_classification, set_final_verdict, LedgerType
<1>7. QED
  BY <1>2, <1>3, <1>4, <1>5, <1>6
     DEF LedgerType, SameUpTo, contradictions, supporting, unsupported, verdict

(* The verdict node.                                                       *)
LEMMA VerdictKeepsInv ==
  ASSUME PipelineInv, Verdict
  PROVE  PipelineInv'
<1>1. /\ node = "verdict" /\ node \in Working /\ NothingConcluded
      /\ ledger.atomic_claims # {} /\ ledger \in LedgerType
  BY DEF PipelineInv, TypeOK, Working, AfterDecomposition, Reached, Verdict, Running
<1>2. Concluded(ledger.atomic_claims, ledger, ledger')
  BY DEF Verdict
<1>3. /\ ledger' \in LedgerType
      /\ ledger'.probe_questions = ledger.probe_questions
      /\ ledger'.retrieval_queries = ledger.retrieval_queries
      /\ ledger'.retrieved_evidence = ledger.retrieved_evidence
      /\ ledger'.fused_evidence = ledger.fused_evidence
      /\ ledger'.nli_results = ledger.nli_results
      /\ SameUpTo(ledger, ledger')
      /\ ledger'.final_verdict # None
      /\ VerdictFromLedger'
  BY <1>1, <1>2, ConcludedLedger
     DEF NothingConcluded, VerdictFromLedger, SameUpTo
<1>4. /\ control' \in ControlState /\ ~Failed' /\ control'.errors = <<>>
      /\ node' = "END" /\ outcome' = "running"
      /\ variant' = variant /\ run_context' = run_context
  BY <1>1 DEF PipelineInv, TypeOK, Routed, Verdict, Advance, ControlState,
              PipelineStage, Failed
<1>5. TypeOK'
  BY <1>3, <1>4 DEF PipelineInv, TypeOK, Node
<1>6. Routed' /\ Recorded'
  <2>1. Routed'
    BY <1>3, <1>4 DEF Routed, Working, AfterDecomposition
  <2>2. Recorded'
    BY <1>4, Singletons DEF Recorded
  <2>3. QED
    BY <2>1, <2>2
<1>7. Reached'
  BY <1>3, <1>4 DEF Reached, AfterDecomposition
<1>8. EvidenceServesItsClaim' /\ Sourced'
  BY <1>3, <1>4 DEF PipelineInv, EvidenceServesItsClaim, Sourced, KnownClaims,
                    ClaimIds, SameUpTo
<1>9. QED
  BY <1>5, <1>6, <1>7, <1>8 DEF PipelineInv

(* Leaving the graph and ending run() change neither ledger nor control. *)
LEMMA EndKeepsInv ==
  ASSUME PipelineInv, ErrorSink \/ Finish
  PROVE  PipelineInv'
<1>1. UNCHANGED <<variant, run_context, ledger, control>>
  BY DEF ErrorSink, Finish
<1>2. TypeOK' /\ Routed'
  <2>1. CASE ErrorSink
    BY <2>1 DEF PipelineInv, TypeOK, Routed, ErrorSink, Running, Node, Working,
                AfterDecomposition, Failed
  <2>2. CASE Finish
    BY <2>2 DEF PipelineInv, TypeOK, Routed, Finish, Running, Working,
                AfterDecomposition, Failed
  <2>3. QED
    BY <2>1, <2>2
<1>3. Reached'
  BY <1>1 DEF PipelineInv, Reached, Routed, ErrorSink, Finish, Running,
     NothingJudged, NothingConcluded, VerdictFromLedger, AfterDecomposition, Failed
<1>4. Recorded'
  BY <1>1 DEF PipelineInv, Recorded, NothingAsked, NothingQueried, NothingRetrieved,
     NothingFused, NothingJudged, NothingConcluded
<1>5. EvidenceServesItsClaim' /\ Sourced'
  BY <1>1 DEF PipelineInv, EvidenceServesItsClaim, Sourced
<1>6. QED
  BY <1>2, <1>3, <1>4, <1>5 DEF PipelineInv

-----------------------------------------------------------------------------
(* The invariant and what follows from it. *)

(* A run begins with the invariant.                                        *)
LEMMA InitEstablishesInv == Init => PipelineInv
<1> SUFFICES ASSUME Init PROVE PipelineInv
  OBVIOUS
<1>1. TypeOK
  BY EmptyLedgerTyped DEF Init, TypeOK, Source, ControlState, PipelineStage, Node
<1>2. Routed
  BY DEF Init, Routed, Failed
<1>3. Reached /\ Sourced /\ EvidenceServesItsClaim
  BY DEF Init, EmptyLedger, Reached, AfterDecomposition, Failed, Sourced,
         EvidenceServesItsClaim, Judged, ClaimChunkPairs, KnownClaims, ClaimIds
<1>4. Recorded
  BY Singletons DEF Init, Recorded
<1>5. QED
  BY <1>1, <1>2, <1>3, <1>4 DEF PipelineInv

(* A step that changes nothing keeps the invariant.                        *)
LEMMA StutterKeepsInv == PipelineInv /\ UNCHANGED vars => PipelineInv'
  BY DEF PipelineInv, TypeOK, Routed, Reached, Recorded, Sourced,
         EvidenceServesItsClaim, vars, Failed, VerdictFromLedger, NothingAsked,
         NothingQueried, NothingRetrieved, NothingFused, NothingJudged,
         NothingConcluded

(* PipelineInv is inductive over the graph's steps. *)
THEOREM PipelineInvariant == Spec => []PipelineInv
<1>1. PipelineInv /\ [Next]_vars => PipelineInv'
  BY IngestKeepsInv, DecomposeKeepsInv, GenerateKeepsInv, RetrieveKeepsInv,
     FuseKeepsInv, VerifyKeepsInv, VerdictKeepsInv, EndKeepsInv, StutterKeepsInv
     DEF Next
<1>2. QED
  BY <1>1, InitEstablishesInv, PTL DEF Spec

(* Type correctness of the graph state, its two channels included.         *)
THEOREM PipelineTypeCorrect == Spec => []TypeOK
<1>1. PipelineInv => TypeOK
  BY DEF PipelineInv
<1>2. QED
  BY <1>1, PipelineInvariant, PTL

(* No judgement rests on evidence of another claim, nor on a backend or a  *)
(* question that the run's variant leaves out.                             *)
THEOREM EvidenceAlwaysServes == Spec => []EvidenceServesItsClaim
<1>1. PipelineInv => EvidenceServesItsClaim
  BY DEF PipelineInv
<1>2. QED
  BY <1>1, PipelineInvariant, PTL

(* A failed run has one error on record, and its ledger holds what was     *)
(* written before the failure and nothing after it.                        *)
THEOREM FailureLeavesPartialLedger == Spec => []PartialLedgerOfFailure
<1>1. PipelineInv => PartialLedgerOfFailure
  <2> SUFFICES ASSUME PipelineInv PROVE PartialLedgerOfFailure
    OBVIOUS
  <2>1. outcome = "raised" => Len(control.errors) = 1
    <3>1. outcome = "raised" => Failed
      BY DEF PipelineInv, TypeOK, Node, Routed, Working, AfterDecomposition
    <3>2. Failed => \E stage \in FailingStage : control.errors = <<stage>>
      BY DEF PipelineInv, Routed
    <3>3. QED
      BY <3>1, <3>2
  <2>2. ASSUME NEW stage \in PipelineStage, control.errors = <<stage>>
        PROVE  NothingJudged
    BY <2>2, Singletons DEF PipelineInv, Routed, Reached
  <2>3. QED
    BY <2>1, <2>2 DEF PipelineInv, Recorded, PartialLedgerOfFailure, NothingAsked,
       NothingQueried, NothingRetrieved, NothingJudged, NothingConcluded
<1>2. QED
  BY <1>1, PipelineInvariant, PTL

(* The recorded classification tells the verdict's story: the lists name   *)
(* the claims the verdict names, every claim is in exactly one, and every  *)
(* traced pair was judged.                                                 *)
THEOREM TraceAlwaysAgrees == Spec => []TraceAgreesWithVerdict
<1>1. PipelineInv => TraceAgreesWithVerdict
  <2> SUFFICES ASSUME PipelineInv, ledger.final_verdict # None
               PROVE  TraceAgreesWithVerdict
    BY DEF TraceAgreesWithVerdict
  <2> DEFINE results == ledger.nli_results
             ids == ledger.atomic_claims
             C == ClaimsWith("CONTRADICTED", results, ids, rule_config)
             S == ClaimsWith("SUPPORTED", results, ids, rule_config)
             U == ClaimsWith("UNRESOLVED", results, ids, rule_config)
  <2>1. VerdictFromLedger
    BY DEF PipelineInv, Reached
  <2>2. /\ ledger.final_verdict.contradicted_claim_ids = C
        /\ ledger.final_verdict.unresolved_claim_ids = U
    BY <2>1, EvaluateMeaning, PipelineAssumption DEF VerdictFromLedger
  <2>3. /\ C \union S \union U = ids
        /\ C \intersect S = {}
        /\ (C \union S) \intersect U = {}
    BY StatusesPartition
  <2>4. /\ ClaimIds(ledger.contradictions) = C
        /\ ClaimIds(ledger.supporting_evidence) = S
        /\ ledger.unsupported_claims = U
    BY <2>1, TracedClaims DEF VerdictFromLedger, UnsupportedClaims, ClaimIds
  <2>5. Judged(ledger.contradictions \union ledger.supporting_evidence)
          \subseteq Judged(results)
    <3>1. ASSUME NEW t \in ledger.contradictions \union ledger.supporting_evidence
          PROVE  <<t.atomic_claim_id, t.evidence_chunk_id>> \in Judged(results)
      <4>1. PICK r \in results : t = TraceRecord(r)
        BY <2>1, TracedResults DEF VerdictFromLedger
      <4>2. QED
        BY <4>1 DEF TraceRecord, Judged
    <3>2. QED
      BY <3>1 DEF Judged
  <2> HIDE DEF C, S, U
  <2>6. QED
    BY <2>2, <2>3, <2>4, <2>5 DEF TraceAgreesWithVerdict
<1>2. QED
  BY <1>1, PipelineInvariant, PTL

-----------------------------------------------------------------------------
(* The graph implements VerdictService.  Ingesting, asking, retrieving,    *)
(* fusing and concluding are steps the caller does not see; a decomposition*)
(* splits the claim, the judgements are the findings, and the end of run() *)
(* answers or fails.                                                       *)

(* A verdict computed from the ledger is one the documented rules justify. *)
LEMMA VerdictJustified ==
  ASSUME PipelineInv, ledger.final_verdict # None
  PROVE  Service!Justified(ledger.final_verdict.verdict)
<1> DEFINE results == ledger.nli_results
           ids == ledger.atomic_claims
           C == ClaimsWith("CONTRADICTED", results, ids, rule_config)
           U == ClaimsWith("UNRESOLVED", results, ids, rule_config)
           verdict == ledger.final_verdict.verdict
<1>1. VerdictFromLedger
  BY DEF PipelineInv, Reached
<1>2. /\ verdict \in VerdictEnum
      /\ verdict = "CONTRADICTORY" <=> C # {}
      /\ verdict = "INSUFFICIENT_EVIDENCE"
           <=> C = {} /\ U # {} /\ rule_config.consistency_requires_entailment
  BY <1>1, EvaluateMeaning, PipelineAssumption DEF VerdictFromLedger, FinalVerdict
<1>3. \A r \in results : r.atomic_claim_id \in ids
  BY DEF PipelineInv, Sourced, KnownClaims, ClaimIds
<1>4. C # {} <=> Service!Contradicted
  <2>1. C # {} <=> \E c \in ids : Contradicting(results, c, rule_config) # {}
    BY StatusMeaning DEF ClaimsWith
  <2>2. QED
    BY <2>1, <1>3 DEF Contradicting, Service!Contradicted
<1>5. C = {} => (U # {} <=> \E c \in ids : ~Service!Entailed(c))
  <2>1. C = {} => (U # {} <=> \E c \in ids : Entailing(results, c, rule_config) = {})
    BY StatusMeaning DEF ClaimsWith
  <2>2. \A c : Entailing(results, c, rule_config) = {} <=> ~Service!Entailed(c)
    BY DEF Entailing, Service!Entailed
  <2>3. QED
    BY <2>1, <2>2
<1> HIDE DEF C, U, verdict
<1>6. Service!Justified(verdict)
  BY <1>2, <1>4, <1>5 DEF VerdictEnum, Service!Justified, Service!Strict
<1>7. QED
  BY <1>6 DEF verdict

(* A run begins as the service does.                                       *)
LEMMA InitRefines == Init => Service!Init
  BY DEF Init, Service!Init, EmptyLedger

(* A step the caller does not see: the run goes on with the same claims    *)
(* and findings.                                                           *)
LEMMA HiddenStep ==
  ASSUME outcome = "running", outcome' = "running",
         ledger'.atomic_claims = ledger.atomic_claims,
         ledger'.nli_results = ledger.nli_results
  PROVE  UNCHANGED Service!vars
  BY DEF Service!vars

(* A crashed or a raised run answers nothing. *)
LEMMA FailedStep ==
  ASSUME outcome = "running", outcome' \in {"raised", "crashed"},
         ledger'.atomic_claims = ledger.atomic_claims,
         ledger'.nli_results = ledger.nli_results
  PROVE  Service!Fail
  BY DEF Service!Fail

(* Decomposing is the service's splitting of the claim.                    *)
LEMMA DecomposeRefines ==
  ASSUME PipelineInv, NEW claims \in Decompositions, DecomposeInto(claims)
  PROVE  Service!Split
<1>1. claims \in SUBSET Claim /\ claims # {}
  BY FS_EmptySet DEF Decompositions
<1>2. ledger = EmptyLedger /\ outcome = "running" /\ node \in Working
  BY DEF PipelineInv, Reached, DecomposeInto, Running, Working
<1>3. outcome' = "running"
  BY <1>2 DEF DecomposeInto, Advance
<1>4. /\ ledger'.atomic_claims = claims
      /\ ledger'.nli_results = ledger.nli_results
  BY <1>2 DEF DecomposeInto, record_atomic_claims, EmptyLedger
<1>5. QED
  BY <1>1, <1>2, <1>3, <1>4 DEF Service!Split, EmptyLedger

(* Verifying is the service's investigation.                               *)
LEMMA VerifyRefines ==
  ASSUME PipelineInv, NEW judged \in [ledger.fused_evidence -> NLILabel \X Score],
         VerifyInto(judged)
  PROVE  Service!Investigate
<1> DEFINE results == Judgements(FusedFor(ledger.fused_evidence,
                                          ledger.atomic_claims), judged)
<1>1. /\ node = "verify_nli" /\ outcome = "running" /\ NothingJudged
      /\ ledger.atomic_claims # {} /\ ledger \in LedgerType
  BY DEF PipelineInv, TypeOK, Reached, AfterDecomposition, VerifyInto, Running
<1>2. /\ results \in SUBSET NLIResult(Claim, Chunk, Score)
      /\ ClaimIds(results) \subseteq ledger.atomic_claims
  <2>1. ledger.fused_evidence \in SUBSET FusedEvidence(Claim, Chunk)
    BY <1>1 DEF LedgerType
  <2>2. QED
    BY <2>1, JudgementsTyped
<1>3. ledger' = record_nli_results(ledger, results) /\ outcome' = "running"
  BY <1>1 DEF VerifyInto, Advance
<1> HIDE DEF results
<1>4. results \in SUBSET Service!Finding(ledger.atomic_claims)
  BY <1>2 DEF Service!Finding, NLIResult, NLILabel, ClaimIds
<1>5. /\ ledger'.nli_results = results
      /\ ledger'.atomic_claims = ledger.atomic_claims
      /\ ledger.nli_results = {}
  BY <1>1, <1>3 DEF record_nli_results, LedgerType, NothingJudged
<1>6. QED
  BY <1>1, <1>3, <1>4, <1>5 DEF Service!Investigate

(* A run ends with the service's answer or its failure.                    *)
LEMMA FinishRefines ==
  ASSUME PipelineInv, Finish
  PROVE  Service!Answer \/ Service!Fail
<1>1. outcome = "running" /\ ledger' = ledger
  BY DEF Finish, Running
<1>2. CASE Failed \/ ledger.final_verdict = None
  <2>1. outcome' = "raised"
    BY <1>2 DEF Finish, Failed
  <2>2. QED
    BY <1>1, <2>1, FailedStep
<1>3. CASE ~(Failed \/ ledger.final_verdict = None)
  <2>1. outcome' = "returned"
    BY <1>3 DEF Finish, Failed
  <2>2. ledger.atomic_claims # {} /\ Service!Justified(ledger.final_verdict.verdict)
    BY <1>3, VerdictJustified DEF PipelineInv, Reached, VerdictFromLedger
  <2>3. Service!Justified(ledger.final_verdict.verdict)'
    BY <1>1, <2>2 DEF Service!Justified, Service!Contradicted, Service!Entailed,
       Service!Strict
  <2>4. Service!Answer
    BY <1>1, <2>1, <2>2 DEF Service!Answer, Service!Justified
  <2>5. QED
    BY <2>4
<1>4. QED
  BY <1>2, <1>3

(* The nodes whose work the caller does not see, and every failing node:   *)
(* claims and findings stay, and the run goes on unless it crashed.        *)
LEMMA OtherStepsRefine ==
  ASSUME PipelineInv,
         \/ IngestAndIndex \/ DecomposeFails \/ GenerateQuestions \/ Retrieve
         \/ Fuse \/ VerificationFails \/ Verdict \/ ErrorSink
  PROVE  UNCHANGED Service!vars \/ Service!Fail
<1>1. ledger \in LedgerType /\ outcome = "running"
  BY DEF PipelineInv, TypeOK, IngestAndIndex, DecomposeFails, GenerateQuestions,
         GenerateInto, GenerationFails, Retrieve, RetrieveInto, RetrievalFails, Fuse,
         FuseInto, VerificationFails, Verdict, ErrorSink, Running
<1>2. outcome' \in {"running", "crashed"}
  BY <1>1 DEF IngestAndIndex, DecomposeFails, GenerateQuestions,
         GenerateInto, GenerationFails, Retrieve, RetrieveInto, RetrievalFails, Fuse,
         FuseInto, VerificationFails, Verdict, ErrorSink, ErrorBoundary, Advance
<1>3. /\ ledger'.atomic_claims = ledger.atomic_claims
      /\ ledger'.nli_results = ledger.nli_results
  <2>1. CASE IngestAndIndex \/ DecomposeFails \/ VerificationFails \/ ErrorSink
    BY <2>1 DEF IngestAndIndex, DecomposeFails, VerificationFails, ErrorSink
  <2>2. CASE GenerateQuestions
    BY <1>1, <2>2 DEF GenerateQuestions, GenerateInto, GenerationFails,
       record_probe_questions, LedgerType
  <2>3. CASE Retrieve
    BY <1>1, <2>3 DEF Retrieve, RetrieveInto, RetrievalFails, LedgerType,
       record_retrieval_queries, record_retrieved_evidence
  <2>4. CASE Fuse
    BY <1>1, <2>4 DEF Fuse, FuseInto, record_fused_evidence, LedgerType
  <2>5. CASE Verdict
    BY <1>1, <2>5 DEF Verdict, Concluded, record_classification,
       set_final_verdict, LedgerType
  <2>6. QED
    BY <2>1, <2>2, <2>3, <2>4, <2>5
<1>4. QED
  BY <1>1, <1>2, <1>3, HiddenStep, FailedStep

(* The run keeps VerdictService's promise: it fails without an answer or   *)
(* answers with a verdict that its own findings about its own claims       *)
(* justify (ThresholdRuleEngine's rules, LangGraphPipeline.run's contract).*)
THEOREM PipelineImplementsService == Spec => ImplementsVerdictService
<1>1. PipelineInv /\ [Next]_vars => [Service!Next]_(Service!vars)
  <2> SUFFICES ASSUME PipelineInv, [Next]_vars
               PROVE  Service!Next \/ UNCHANGED Service!vars
    OBVIOUS
  <2>1. ASSUME NEW claims \in Decompositions, DecomposeInto(claims)
        PROVE  Service!Next
    BY <2>1, DecomposeRefines DEF Service!Next
  <2>2. ASSUME NEW judged \in [ledger.fused_evidence -> NLILabel \X Score],
               VerifyInto(judged)
        PROVE  Service!Next
    BY <2>2, VerifyRefines DEF Service!Next
  <2>3. CASE Finish
    BY <2>3, FinishRefines DEF Service!Next
  <2>4. CASE UNCHANGED vars
    BY <2>4 DEF vars, Service!vars
  <2>5. QED
    BY <2>1, <2>2, <2>3, <2>4, OtherStepsRefine
       DEF Next, DecomposeClaim, VerifyNLI, Service!Next
<1>2. QED
  BY <1>1, InitRefines, PipelineInvariant, PTL DEF Spec, ImplementsVerdictService, Service!Spec

-----------------------------------------------------------------------------
(* The imperative runner beside the graph. *)

(* While neither has failed, the runner's locals and ledger are the graph's*)
(* context and channel; the runner ends when the graph leaves its nodes,   *)
(* with a return for a verdict and a raise for a failure or a crash.       *)
RunnerInv ==
  /\ runner_outcome \in {"running", "returned", "raised"}
  /\ runner_outcome = "running" <=> node \in Working
  /\ runner_outcome = "running" =>
       /\ retrievers = run_context
       /\ atomic_claims = ledger.atomic_claims
       /\ all_questions = ledger.probe_questions
       /\ runner_ledger = ledger
  /\ runner_outcome = "returned" =>
       /\ node = "END" /\ ~Failed /\ outcome # "crashed"
       /\ runner_ledger = ledger
  /\ runner_outcome = "raised" => Failed \/ outcome = "crashed"
  /\ node = "ingest_and_index" => control.current_stage = "INGESTION"

(* The runner moves only when a node does: beside it the graph runs as     *)
(* alone.                                                                  *)
LEMMA RunnerRunsTheGraph == RunnerSpec => Spec
<1>1. RunnerInit => Init
  BY DEF RunnerInit
<1>2. [RunnerNext]_<<vars, runner_vars>> => [Next]_vars
  BY DEF RunnerNext, Next, BothIngest, BothDecompose, BothAsk, BothRetrieve, BothFuse,
         BothVerify, BothConclude, GraphEnds, DecomposeClaim, GenerateQuestions,
         Retrieve, Fuse, VerifyNLI
<1>3. QED
  BY <1>1, <1>2, PTL DEF RunnerSpec, Spec

(* A node that raised takes the runner with it. *)
LEMMA BothRaise ==
  ASSUME PipelineInv, node \in Working, RunnerRaises,
         NEW stage \in FailingStage, NEW next \in Working,
         ErrorBoundary(stage), Edge(next)
  PROVE  RunnerInv'
<1>1. /\ node' \in {"error_sink", "END"}
      /\ Failed' \/ outcome' = "crashed"
  BY BoundaryRoutes DEF PipelineInv
<1>2. runner_outcome' = "raised"
  BY DEF RunnerRaises
<1>3. QED
  BY <1>1, <1>2 DEF RunnerInv, Working, AfterDecomposition

(* A node that succeeded and the stage beside it leave the same behind. *)
LEMMA BothSucceed ==
  ASSUME PipelineInv, RunnerInv, node \in Working,
         NEW stage \in PipelineStage \ {"ERROR"},
         NEW next \in Working \ {"ingest_and_index"},
         Advance(stage), Edge(next),
         runner_outcome' = runner_outcome,
         retrievers' = run_context',
         atomic_claims' = ledger'.atomic_claims,
         all_questions' = ledger'.probe_questions,
         runner_ledger' = ledger'
  PROVE  RunnerInv'
<1>1. node' = next
  BY AdvanceRoutes DEF PipelineInv
<1>2. QED
  BY <1>1 DEF RunnerInv, Working, AfterDecomposition

(* The imperative runner keeps in step with the graph.                     *)
LEMMA RunnerKeepsInv ==
  ASSUME PipelineInv, PipelineInv', RunnerInv, [RunnerNext]_<<vars, runner_vars>>
  PROVE  RunnerInv'
<1> DEFINE InStep == /\ runner_outcome = "running"
                     /\ retrievers = run_context
                     /\ atomic_claims = ledger.atomic_claims
                     /\ all_questions = ledger.probe_questions
                     /\ runner_ledger = ledger
<1>1. node \in Working => InStep
  BY DEF RunnerInv
<1>2. ledger \in LedgerType
  BY DEF PipelineInv, TypeOK
<1>3. CASE BothIngest
  <2>1. node \in Working /\ IngestAndIndex
    BY <1>3 DEF BothIngest, IngestAndIndex, Running, Working
  <2>2. CASE Advance("CLAIM_DECOMPOSITION") /\ run_context' = {"SEMANTIC"} \union
                          IF variant.use_bm25 THEN {"LEXICAL"} ELSE {}
    <3>1. control'.current_stage = "CLAIM_DECOMPOSITION"
      BY <2>2 DEF Advance, PipelineInv, TypeOK, ControlState
    <3>2. RunnerIngests
      BY <1>3, <3>1 DEF BothIngest
    <3>3. QED
      BY <1>1, <2>1, <2>2, <3>2, BothSucceed
         DEF RunnerIngests, IngestAndIndex, Working, PipelineStage
  <2>3. CASE ErrorBoundary("INGESTION")
    <3>1. control'.current_stage # "CLAIM_DECOMPOSITION"
      <4>1. control.current_stage # "CLAIM_DECOMPOSITION"
        BY <2>1 DEF RunnerInv, IngestAndIndex, Running
      <4>2. QED
        BY <2>3, <4>1 DEF ErrorBoundary
    <3>2. RunnerRaises
      BY <1>3, <3>1 DEF BothIngest
    <3>3. QED
      BY <2>1, <2>3, <3>2, BothRaise DEF IngestAndIndex, Working, FailingStage
  <2>4. QED
    BY <2>1, <2>2, <2>3 DEF IngestAndIndex
<1>4. CASE BothDecompose
  <2>1. CASE DecomposeFails /\ RunnerRaises
    BY <2>1, BothRaise DEF DecomposeFails, Running, Working, AfterDecomposition,
                           FailingStage
  <2>2. ASSUME NEW claims \in Decompositions,
               DecomposeInto(claims), RunnerDecomposes(claims)
        PROVE  RunnerInv'
    <3>1. node \in Working /\ ledger = EmptyLedger
      BY <2>2 DEF PipelineInv, Reached, DecomposeInto, Running, Working
    <3>2. /\ ledger'.atomic_claims = claims
          /\ ledger'.probe_questions = ledger.probe_questions
      BY <2>2, <3>1 DEF DecomposeInto, record_atomic_claims, EmptyLedger
    <3>3. /\ runner_outcome' = runner_outcome /\ retrievers' = run_context'
          /\ atomic_claims' = ledger'.atomic_claims
          /\ all_questions' = ledger'.probe_questions
          /\ runner_ledger' = ledger'
      BY <1>1, <2>2, <3>1, <3>2 DEF DecomposeInto, RunnerDecomposes
    <3>4. QED
      BY <2>2, <3>1, <3>3, BothSucceed
         DEF DecomposeInto, Working, AfterDecomposition, PipelineStage
  <2>3. QED
    BY <1>4, <2>1, <2>2 DEF BothDecompose
<1>5. CASE BothAsk
  <2>1. CASE GenerationFails /\ RunnerRaises
    BY <2>1, BothRaise DEF GenerationFails, Running, Working, AfterDecomposition,
                           FailingStage
  <2>2. ASSUME NEW questions \in GeneratedQuestions(ledger.atomic_claims),
               GenerateInto(questions), RunnerAsks(questions)
        PROVE  RunnerInv'
    <3>1. node \in Working
      BY <2>2 DEF GenerateInto, Running, Working, AfterDecomposition
    <3>2. /\ ledger'.probe_questions = questions
          /\ ledger'.atomic_claims = ledger.atomic_claims
      BY <1>2, <2>2 DEF GenerateInto, MayRecordProbeQuestions, record_probe_questions,
                        LedgerType
    <3>3. /\ runner_outcome' = runner_outcome /\ retrievers' = run_context'
          /\ atomic_claims' = ledger'.atomic_claims
          /\ all_questions' = ledger'.probe_questions
          /\ runner_ledger' = ledger'
      BY <1>1, <2>2, <3>1, <3>2 DEF GenerateInto, RunnerAsks
    <3>4. QED
      BY <2>2, <3>1, <3>3, BothSucceed
         DEF GenerateInto, Working, AfterDecomposition, PipelineStage
  <2>3. QED
    BY <1>5, <2>1, <2>2 DEF BothAsk
<1>6. CASE BothRetrieve
  <2>1. CASE RetrievalFails /\ RunnerRaises
    BY <2>1, BothRaise DEF RetrievalFails, Running, Working, AfterDecomposition,
                           FailingStage
  <2>2. ASSUME NEW returned \in [Queries \X run_context -> TopKChunks],
               RetrieveInto(returned), RunnerRetrieves(returned)
        PROVE  RunnerInv'
    <3>1. node \in Working
      BY <2>2 DEF RetrieveInto, Running, Working, AfterDecomposition
    <3>2. RunnerQueries = Queries
      BY <1>1, <3>1 DEF RunnerQueries, Queries
    <3>3. [call \in RunnerQueries \X retrievers |-> returned[call]] = returned
      BY <1>1, <3>1, <3>2
    <3>4. /\ ledger' = record_retrieved_evidence(
                         record_retrieval_queries(ledger, Queries), Stamped(returned))
          /\ runner_ledger' = ledger'
      BY <1>1, <2>2, <3>1, <3>2, <3>3 DEF RetrieveInto, RunnerRetrieves
    <3>5. /\ ledger'.atomic_claims = ledger.atomic_claims
          /\ ledger'.probe_questions = ledger.probe_questions
      BY <1>2, <3>4 DEF record_retrieved_evidence, record_retrieval_queries, LedgerType
    <3>6. /\ runner_outcome' = runner_outcome /\ retrievers' = run_context'
          /\ atomic_claims' = ledger'.atomic_claims
          /\ all_questions' = ledger'.probe_questions
      BY <1>1, <2>2, <3>1, <3>5 DEF RetrieveInto, RunnerRetrieves, locals
    <3>7. QED
      BY <2>2, <3>1, <3>4, <3>6, BothSucceed
         DEF RetrieveInto, Working, AfterDecomposition, PipelineStage
  <2>3. QED
    BY <1>6, <2>1, <2>2 DEF BothRetrieve
<1>7. CASE BothFuse
  <2>1. PICK fused \in Fusions(ledger.retrieved_evidence) :
          FuseInto(fused) /\ RunnerFuses(fused)
    BY <1>7 DEF BothFuse
  <2>2. node \in Working
    BY <2>1 DEF FuseInto, Running, Working, AfterDecomposition
  <2>3. /\ ledger'.atomic_claims = ledger.atomic_claims
        /\ ledger'.probe_questions = ledger.probe_questions
    BY <1>2, <2>1 DEF FuseInto, record_fused_evidence, LedgerType
  <2>4. /\ runner_outcome' = runner_outcome /\ retrievers' = run_context'
        /\ atomic_claims' = ledger'.atomic_claims
        /\ all_questions' = ledger'.probe_questions
        /\ runner_ledger' = ledger'
    BY <1>1, <2>1, <2>2, <2>3 DEF FuseInto, RunnerFuses, locals
  <2>5. QED
    BY <2>1, <2>2, <2>4, BothSucceed
       DEF FuseInto, Working, AfterDecomposition, PipelineStage
<1>8. CASE BothVerify
  <2>1. CASE VerificationFails /\ RunnerRaises
    BY <2>1, BothRaise DEF VerificationFails, Running, Working, AfterDecomposition,
                           FailingStage
  <2>2. ASSUME NEW judged \in [ledger.fused_evidence -> NLILabel \X Score],
               VerifyInto(judged), RunnerVerifies(judged)
        PROVE  RunnerInv'
    <3>1. node \in Working
      BY <2>2 DEF VerifyInto, Running, Working, AfterDecomposition
    <3>2. /\ ledger'.atomic_claims = ledger.atomic_claims
          /\ ledger'.probe_questions = ledger.probe_questions
      BY <1>2, <2>2 DEF VerifyInto, record_nli_results, LedgerType
    <3>3. /\ runner_outcome' = runner_outcome /\ retrievers' = run_context'
          /\ atomic_claims' = ledger'.atomic_claims
          /\ all_questions' = ledger'.probe_questions
          /\ runner_ledger' = ledger'
      BY <1>1, <2>2, <3>1, <3>2 DEF VerifyInto, RunnerVerifies, locals
    <3>4. QED
      BY <2>2, <3>1, <3>3, BothSucceed
         DEF VerifyInto, Working, AfterDecomposition, PipelineStage
  <2>3. QED
    BY <1>8, <2>1, <2>2 DEF BothVerify
<1>9. CASE BothConclude
  <2>1. /\ node \in Working /\ node' = "END" /\ outcome' = "running" /\ ~Failed'
    BY <1>9 DEF PipelineInv, TypeOK, ControlState, BothConclude, Verdict, Advance,
                Running, Working, AfterDecomposition, Failed
  <2>2. runner_ledger' = ledger'
    BY <1>1, <1>9, <2>1 DEF BothConclude, Verdict, RunnerConcludes, Concluded
  <2>3. runner_outcome' = "returned"
    BY <1>9 DEF BothConclude, RunnerConcludes
  <2>4. QED
    BY <2>1, <2>2, <2>3 DEF RunnerInv, Working, AfterDecomposition
<1>10. CASE GraphEnds
  <2>1. UNCHANGED <<ledger, control, runner_ledger, runner_outcome>>
    BY <1>10 DEF GraphEnds, ErrorSink, Finish, runner_vars
  <2>2. /\ node \in {"error_sink", "END"} /\ node' = "END" /\ outcome = "running"
        /\ outcome' # "crashed"
    BY <1>10 DEF GraphEnds, ErrorSink, Finish, Running
  <2>3. QED
    BY <2>1, <2>2 DEF RunnerInv, Working, AfterDecomposition, Failed
<1>11. CASE UNCHANGED <<vars, runner_vars>>
  BY <1>11 DEF RunnerInv, vars, runner_vars, Failed
<1>12. QED
  BY <1>3, <1>4, <1>5, <1>6, <1>7, <1>8, <1>9, <1>10, <1>11 DEF RunnerNext

(* Every state of the two runs side by side has both invariants.           *)
LEMMA RunnerInvariant == RunnerSpec => [](PipelineInv /\ RunnerInv)
<1>1. RunnerInit => RunnerInv
  BY DEF RunnerInit, Init, RunnerInv, EmptyLedger, Working, Failed
<1>2. PipelineInv /\ PipelineInv' /\ RunnerInv /\ [RunnerNext]_<<vars, runner_vars>>
        => RunnerInv'
  BY RunnerKeepsInv
<1>3. QED
  BY <1>1, <1>2, RunnerRunsTheGraph, PipelineInvariant, PTL DEF RunnerSpec

(* Type correctness of the runner's state. *)
THEOREM RunnerTypeCorrect == RunnerSpec => []RunnerTypeOK
<1> DEFINE Locals == /\ retrievers \subseteq Source
                     /\ atomic_claims \subseteq Claim
                     /\ all_questions \subseteq ProbeQuestion(Claim, Question)
<1>1. RunnerInit => Locals
  BY DEF RunnerInit
<1>2. RunnerInv /\ PipelineInv' /\ RunnerInv' /\ Locals /\ [RunnerNext]_<<vars, runner_vars>>
        => Locals'
  <2> SUFFICES ASSUME RunnerInv, PipelineInv', RunnerInv', Locals,
                      [RunnerNext]_<<vars, runner_vars>>
               PROVE  Locals'
    OBVIOUS
  <2>1. CASE runner_outcome' = "running"
    BY <2>1 DEF RunnerInv, PipelineInv, TypeOK, LedgerType
  <2>2. CASE runner_outcome' # "running"
    <3>1. UNCHANGED locals
      <4>1. CASE node \in Working
        <5>1. runner_outcome' # runner_outcome
          BY <2>2, <4>1 DEF RunnerInv
        <5>2. QED
          BY <5>1 DEF RunnerNext, BothIngest, BothDecompose, BothAsk, BothRetrieve,
             BothFuse, BothVerify, BothConclude, GraphEnds, RunnerIngests,
             RunnerDecomposes, RunnerAsks, RunnerRetrieves, RunnerFuses,
             RunnerVerifies, RunnerConcludes, RunnerRaises, runner_vars
      <4>2. CASE node \notin Working
        <5>1. GraphEnds \/ UNCHANGED <<vars, runner_vars>>
          BY <4>2 DEF Working, AfterDecomposition, RunnerNext, BothIngest, BothDecompose,
             BothAsk, BothRetrieve, BothFuse, BothVerify, BothConclude, IngestAndIndex,
             DecomposeInto, DecomposeFails, GenerateInto, GenerationFails, RetrieveInto,
             RetrievalFails, FuseInto, VerifyInto, VerificationFails, Verdict, Running
        <5>2. QED
          BY <5>1 DEF GraphEnds, runner_vars, locals
      <4>3. QED
        BY <4>1, <4>2
    <3>2. QED
      BY <3>1 DEF locals
  <2>3. QED
    BY <2>1, <2>2
<1>3. PipelineInv /\ RunnerInv /\ Locals => RunnerTypeOK
  BY DEF PipelineInv, RunnerInv, RunnerTypeOK
<1>4. QED
  BY <1>1, <1>2, <1>3, RunnerInvariant, PTL DEF RunnerSpec

(* The two pipelines agree: the graph returns a ledger exactly when the    *)
(* runner does, the same one; a failed graph run is a runner that raised.  *)
THEOREM GraphAndRunnerAlwaysAgree == RunnerSpec => []GraphAndRunnerAgree
<1>1. PipelineInv /\ RunnerInv => GraphAndRunnerAgree
  BY DEF PipelineInv, TypeOK, Node, Routed, RunnerInv, GraphAndRunnerAgree, Working,
         AfterDecomposition
<1>2. QED
  BY <1>1, RunnerInvariant, PTL

(* What holds of the graph alone holds of it beside the runner.            *)
THEOREM RunnerKeepsGraphProperties ==
  RunnerSpec => /\ [](EvidenceServesItsClaim /\ TraceAgreesWithVerdict)
                /\ []PartialLedgerOfFailure
                /\ ImplementsVerdictService
  BY RunnerRunsTheGraph, EvidenceAlwaysServes, TraceAlwaysAgrees,
     FailureLeavesPartialLedger, PipelineImplementsService, PTL
=============================================================================
