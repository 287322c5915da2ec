--------------------------- MODULE ImperativeRunner ---------------------------
(***************************************************************************)
(* PipelineRunner.run() of lncvs.evaluation beside LangGraphPipeline.run():*)
(* the same service calls in the same order, made without a graph.  The    *)
(* evaluation harness takes either of the two, so they have to agree.      *)
(*                                                                         *)
(* Both run here on the same narrative, claim and variant, one stage of    *)
(* the runner with each node of the graph, and every model, index and      *)
(* client gives both the same answer or raises for both.  What differs is  *)
(* the code: the runner keeps claims and questions in locals where the     *)
(* graph reads them back from its ledger channel, and it has no boundary,  *)
(* so an exception leaves run() and takes the ledger with it.              *)
(***************************************************************************)
EXTENDS VerificationPipeline

VARIABLES
  retrievers,      \* the local list of retrievers
  atomic_claims,   \* the local list of claims
  all_questions,   \* the local list of questions
  runner_ledger,   \* the ledger the runner's service wraps
  runner_outcome   \* how run() ended, or "running"

locals == <<retrievers, atomic_claims, all_questions>>
runner_vars == <<retrievers, atomic_claims, all_questions, runner_ledger,
                 runner_outcome>>

RunnerTypeOK ==
  /\ TypeOK
  /\ retrievers \subseteq Source
  /\ atomic_claims \subseteq Claim
  /\ all_questions \subseteq ProbeQuestion(Claim, Question)
  /\ runner_outcome \in {"running", "returned", "raised"}

RunnerInit ==
  /\ Init
  /\ retrievers = {}
  /\ atomic_claims = {}
  /\ all_questions = {}
  /\ runner_ledger = EmptyLedger
  /\ runner_outcome = "running"

(* A call raised: nothing catches the exception before the caller does.    *)
RunnerRaises ==
  /\ runner_outcome' = "raised"
  /\ UNCHANGED <<locals, runner_ledger>>

RunnerIngests ==
  /\ retrievers' = {"SEMANTIC"} \union IF variant.use_bm25 THEN {"LEXICAL"} ELSE {}
  /\ UNCHANGED <<atomic_claims, all_questions, runner_ledger, runner_outcome>>

RunnerDecomposes(claims) ==
  /\ MayRecordAtomicClaims(runner_ledger)
  /\ atomic_claims' = claims
  /\ runner_ledger' = record_atomic_claims(runner_ledger, ParentId, claims)
  /\ UNCHANGED <<retrievers, all_questions, runner_outcome>>

RunnerAsks(questions) ==
  /\ MayRecordProbeQuestions(runner_ledger, questions)
  /\ all_questions' = questions
  /\ runner_ledger' = record_probe_questions(runner_ledger, questions)
  /\ UNCHANGED <<retrievers, atomic_claims, runner_outcome>>

(* Mutant: the questions' queries are not built. *)
RunnerQueriesOfClaims == BuildRetrievalQueries(atomic_claims, {})

RunnerQueries == BuildRetrievalQueries(atomic_claims, all_questions)

(* The graph's retrieval answers cover the runner's calls when the queries *)
(* and retrievers of the two are the same.                                 *)
RunnerRetrieves(returned) ==
  LET queried == record_retrieval_queries(runner_ledger, RunnerQueries)
      answers == [call \in RunnerQueries \X retrievers |-> returned[call]]
  IN  /\ MayRecordRetrievalQueries(runner_ledger, RunnerQueries)
      /\ MayRecordRetrievedEvidence(queried, Stamped(answers))
      /\ runner_ledger' = record_retrieved_evidence(queried, Stamped(answers))
      /\ UNCHANGED <<locals, runner_outcome>>

RunnerFuses(fused) ==
  /\ MayRecordFusedEvidence(runner_ledger, fused)
  /\ runner_ledger' = record_fused_evidence(runner_ledger, fused)
  /\ UNCHANGED <<locals, runner_outcome>>

RunnerVerifies(judged) ==
  LET results == Judgements(FusedFor(runner_ledger.fused_evidence,
                                     atomic_claims), judged)
  IN  /\ MayRecordNLIResults(runner_ledger, results)
      /\ runner_ledger' = record_nli_results(runner_ledger, results)
      /\ UNCHANGED <<locals, runner_outcome>>

RunnerConcludes ==
  /\ Concluded(atomic_claims, runner_ledger, runner_ledger')
  /\ runner_outcome' = "returned"
  /\ UNCHANGED locals

-----------------------------------------------------------------------------
(* One node and the stage beside it, on the same answers. *)

BothIngest ==
  /\ IngestAndIndex
  /\ IF control'.current_stage = "CLAIM_DECOMPOSITION" THEN RunnerIngests
     ELSE RunnerRaises

BothDecompose ==
  \/ \E claims \in Decompositions :
       DecomposeInto(claims) /\ RunnerDecomposes(claims)
  \/ DecomposeFails /\ RunnerRaises

BothAsk ==
  \/ \E questions \in GeneratedQuestions(ledger.atomic_claims) :
       GenerateInto(questions) /\ RunnerAsks(questions)
  \/ GenerationFails /\ RunnerRaises

BothRetrieve ==
  \/ \E returned \in [Queries \X run_context -> TopKChunks] :
       RetrieveInto(returned) /\ RunnerRetrieves(returned)
  \/ RetrievalFails /\ RunnerRaises

(* Fusion and the model are functions of the evidence, which is the same   *)
(* for both.                                                               *)
BothFuse ==
  \E fused \in Fusions(ledger.retrieved_evidence) :
    FuseInto(fused) /\ RunnerFuses(fused)

BothVerify ==
  \/ \E judged \in [ledger.fused_evidence -> NLILabel \X Score] :
       VerifyInto(judged) /\ RunnerVerifies(judged)
  \/ VerificationFails /\ RunnerRaises

BothConclude == Verdict /\ RunnerConcludes

GraphEnds == (ErrorSink \/ Finish) /\ UNCHANGED runner_vars

RunnerNext ==
  \/ BothIngest \/ BothDecompose \/ BothAsk \/ BothRetrieve
  \/ BothFuse \/ BothVerify \/ BothConclude \/ GraphEnds

RunnerSpec == RunnerInit /\ [][RunnerNext]_<<vars, runner_vars>>

(* Each run is one call on one thread: while it can go on, it does. *)
RunnerFairSpec == RunnerSpec /\ WF_<<vars, runner_vars>>(RunnerNext)

-----------------------------------------------------------------------------
(* The harness may be given either: the graph returns a ledger exactly     *)
(* when the runner does, audit log and verdict included, and where the     *)
(* graph records an error and raises, the runner has raised               *)
(* (PipelineRunner.run against LangGraphPipeline.run).                     *)
GraphAndRunnerAgree ==
  /\ outcome = "returned" =>
       runner_outcome = "returned" /\ runner_ledger = ledger
  /\ outcome \in {"raised", "crashed"} => runner_outcome = "raised"
  /\ runner_outcome = "returned" => control.errors = <<>>
=============================================================================
