-------------------------- MODULE EvaluationHarness --------------------------
(***************************************************************************)
(* EvaluationHarness of lncvs.evaluation: run_ablation() evaluates a gold  *)
(* dataset under several ablation variants, example by example, and        *)
(* compares their accuracy.  Reports and ledgers may be written to files   *)
(* that outlive the process; a crash may cut a file being written.         *)
(*                                                                         *)
(* The runner is any LedgerProducer: a run of one example under one        *)
(* variant's settings and one pipeline configuration gives the same ledger *)
(* whenever it is repeated, or raises.  Of a ledger only what the harness  *)
(* reads is kept: the verdict, the fused records and the cited chunks.     *)
(* A ratio is a pair <<numerator, denominator>>; latency is left out.      *)
(***************************************************************************)
EXTENDS Integers, FiniteSets, Sequences, SequencesExt

CONSTANTS
  None,
  examples,      \* the dataset: a sequence of gold examples
  Settings,      \* what a variant switches on and off
  PipelineConfig,\* thresholds, chunking, top_k: injected into the runner
  LedgerBody,    \* the ledgers a run may end with
  VariantLists,  \* the lists run_ablation may be called with
  k_cutoffs,     \* EvaluationConfig.k_cutoffs
  MaxSessions    \* bound on the calls of run_ablation

Verdict == {"CONSISTENT", "CONTRADICTORY", "INSUFFICIENT_EVIDENCE"}

(* The dataset and the variants of a call are lists.  An example with gold *)
(* needs a cutoff: RetrievalMetrics is refused without one.                *)
ASSUME HarnessAssumption ==
  /\ examples # <<>> /\ examples \in Seq(ToSet(examples))
  /\ \A variants \in VariantLists : variants \in Seq(ToSet(variants))
  /\ \A e \in ToSet(examples) :
       /\ e.expected_verdict \in Verdict
       /\ IsFiniteSet(e.gold)
       /\ e.gold # {} => k_cutoffs # {}
  /\ k_cutoffs \subseteq Nat \ {0}
  /\ None \notin LedgerBody

(* A ledger has a verdict, and finitely many fused records.  Chunk ids are *)
(* numbers, for their order, and so are scores.                            *)
ASSUME LedgerAssumption ==
  \A body \in LedgerBody :
    /\ body.verdict \in Verdict
    /\ body.cited \in Seq(ToSet(body.cited))
    /\ IsFiniteSet(body.fused_evidence)
    /\ \A f \in body.fused_evidence : f.chunk_id \in Nat /\ f.rrf_score \in Nat

RetrievalMetrics ==
  [mrr : Int \X Int, cutoffs : [k_cutoffs -> [recall : Int \X Int, precision : Int \X Int]]]

(* An absent metric is no metric. *)
ASSUME AbsenceAssumption == None \notin RetrievalMetrics /\ None \notin Int \X Int

VARIABLES
  produced,      \* the ledger of every (example, settings, configuration) run
  session,       \* the arguments of the running call, or None
  reports,       \* the reports of the variants already evaluated
  results,       \* the example results of the variant being evaluated
  deltas,        \* the contribution deltas of the last call that returned
  ledger_files,  \* the ledgers on disk, by file name
  report_files,  \* the reports on disk, by run id
  sessions       \* calls made

memory == <<session, reports, results, deltas>>
files  == <<ledger_files, report_files>>
vars   == <<produced, memory, files, sessions>>

-----------------------------------------------------------------------------
(* Metrics. *)

Ratio(n, d) == IF d = 0 THEN <<0, 1>> ELSE <<n, d>>

Same(p, q) == p[1] * q[2] = q[1] * p[2]

AtMost(p, q) == p[1] * q[2] <= q[1] * p[2]

Plus(p, q) == <<p[1] * q[2] + q[1] * p[2], p[2] * q[2]>>

Minus(p, q) == <<p[1] * q[2] - q[1] * p[2], p[2] * q[2]>>

Mean(ratios) ==
  LET total == FoldFunction(Plus, <<0, 1>>, ratios)
  IN  <<total[1], total[2] * Cardinality(DOMAIN ratios)>>

(* pairs of an expected and a predicted verdict *)
Count(pairs, gold, predicted) ==
  Cardinality({i \in DOMAIN pairs : pairs[i][1] \in gold /\ pairs[i][2] \in predicted})

(* Mutant: recall counts the predictions, not the gold. *)
PerClassByPrediction(pairs, v) ==
  LET hits == Count(pairs, {v}, {v})
  IN  [precision |-> Ratio(hits, Count(pairs, Verdict, {v})),
       recall    |-> Ratio(hits, Count(pairs, Verdict, {v})),
       support   |-> Count(pairs, {v}, Verdict)]

PerClass(pairs, v) ==
  LET hits == Count(pairs, {v}, {v})
  IN  [precision |-> Ratio(hits, Count(pairs, Verdict, {v})),
       recall    |-> Ratio(hits, Count(pairs, {v}, Verdict)),
       support   |-> Count(pairs, {v}, Verdict)]

compute_verdict_metrics(pairs) ==
  LET per_class == [v \in Verdict |-> PerClass(pairs, v)]
      contradictory == per_class["CONTRADICTORY"]
  IN  [accuracy  |-> Ratio(Cardinality({i \in DOMAIN pairs :
                                           pairs[i][1] = pairs[i][2]}), Len(pairs)),
       per_class |-> per_class,
       confusion |-> [cell \in {c \in Verdict \X Verdict :
                                  Count(pairs, {c[1]}, {c[2]}) > 0} |->
                        Count(pairs, {cell[1]}, {cell[2]})],
       contradiction_detection_rate |->
         IF contradictory.support > 0 THEN contradictory.recall ELSE None]

(* The fused records of all claims pooled, best score first, ties by id,   *)
(* each chunk where it first comes.                                        *)
Ranked(fused) ==
  LET chunk_ids == {f.chunk_id : f \in fused}
      best(k) == Max({f.rrf_score : f \in {g \in fused : g.chunk_id = k}})
      before(k) == {j \in chunk_ids : best(j) > best(k) \/ (best(j) = best(k) /\ j < k)}
  IN  [place \in 1..Cardinality(chunk_ids) |->
         CHOOSE k \in chunk_ids : Cardinality(before(k)) = place - 1]

Hits(chunk_ids, gold) == Cardinality({i \in DOMAIN chunk_ids : chunk_ids[i] \in gold})

(* No gold, no metric: never a zero. *)
compute_retrieval_metrics(ledger, gold) ==
  IF gold = {} THEN None
  ELSE LET ranked == Ranked(ledger.fused_evidence)
           found == {i \in DOMAIN ranked : ranked[i] \in gold}
           top(k) == SubSeq(ranked, 1, IF k < Len(ranked) THEN k ELSE Len(ranked))
       IN  [mrr     |-> IF found = {} THEN <<0, 1>>
                        ELSE <<1, CHOOSE i \in found : \A j \in found : i <= j>>,
            cutoffs |-> [k \in k_cutoffs |->
                           [recall    |-> Ratio(Hits(top(k), gold), Cardinality(gold)),
                            precision |-> Ratio(Hits(top(k), gold), Len(top(k)))]]]

compute_citation_metrics(ledger, gold) ==
  IF ledger.cited = <<>> THEN None
  ELSE [cited_count |-> Len(ledger.cited), grounded_count |-> Hits(ledger.cited, gold)]

Present(metrics) == {i \in DOMAIN metrics : metrics[i] # None}

AverageRetrieval(metrics) ==
  LET present == Present(metrics)
  IN  IF present = {} \/ k_cutoffs = {} THEN None
      ELSE [mrr     |-> Mean([i \in present |-> metrics[i].mrr]),
            cutoffs |-> [k \in k_cutoffs |->
              [recall    |-> Mean([i \in present |-> metrics[i].cutoffs[k].recall]),
               precision |-> Mean([i \in present |-> metrics[i].cutoffs[k].precision])]]]

(* Counts are pooled over the examples, not averaged. *)
AverageCitation(metrics) ==
  LET present == Present(metrics)
  IN  IF present = {} THEN None
      ELSE [cited_count    |-> SumFunction([i \in present |-> metrics[i].cited_count]),
            grounded_count |-> SumFunction([i \in present |-> metrics[i].grounded_count])]

-----------------------------------------------------------------------------
Init ==
  /\ produced = <<>>
  /\ session = None
  /\ reports = <<>>
  /\ results = <<>>
  /\ deltas = None
  /\ ledger_files = <<>>
  /\ report_files = <<>>
  /\ sessions = 0

variant == session.variants[Len(reports) + 1]
example == examples[Len(results) + 1]

Evaluating == session # None /\ Len(reports) < Len(session.variants)

(* The file a path names, with every other file as it was. *)
Put(on_disk, path, content) ==
  [p \in DOMAIN on_disk \union {path} |-> IF p = path THEN content ELSE on_disk[p]]

(* run_ablation demands a variant named "full" before it evaluates any.    *)
RunAblation(variants, config, persist) ==
  /\ session = None
  /\ sessions < MaxSessions
  /\ sessions' = sessions + 1
  /\ deltas' = None
  /\ reports' = <<>> /\ results' = <<>>
  /\ session' = IF \E v \in ToSet(variants) : v.name = "full"
                THEN [variants |-> variants, config |-> config, persist |-> persist]
                ELSE None
  /\ UNCHANGED <<produced, files>>

(* The configuration of the pipeline and the seed are in neither the run   *)
(* id nor any provenance field the harness fills.                          *)
RunId(v) == <<"run", v.settings>>

LedgerPath(e, v, body) == <<e.example_id, v.name, body>>

ResultOf(e, body, path) ==
  [example_id        |-> e.example_id,
   predicted_verdict |-> body.verdict,
   expected_verdict  |-> e.expected_verdict,
   correct           |-> body.verdict = e.expected_verdict,
   retrieval         |-> compute_retrieval_metrics(body, e.gold),
   citation          |-> compute_citation_metrics(body, e.gold),
   ledger_fingerprint |-> body,
   ledger_path       |-> path]

ThisRun == <<example.example_id, variant.settings, session.config>>

(* What the runner may answer: the ledger it gave before, or any.          *)
Answers == IF ThisRun \in DOMAIN produced THEN {produced[ThisRun]} ELSE LedgerBody

(* One example: the runner's ledger, its metrics, and the ledger file. *)
EvaluateExample ==
  /\ Evaluating
  /\ Len(results) < Len(examples)
  /\ \E body \in Answers :
       LET path == IF session.persist THEN LedgerPath(example, variant, body) ELSE None
       IN  /\ produced' = Put(produced, ThisRun, body)
           /\ results' = Append(results, ResultOf(example, body, path))
           /\ ledger_files' = IF session.persist THEN Put(ledger_files, path, body)
                              ELSE ledger_files
  /\ UNCHANGED <<session, reports, deltas, report_files, sessions>>

(* The runner raised, or returned a ledger without a verdict: nothing      *)
(* catches it, and the reports of the variants before are lost with it.    *)
ExampleFails ==
  /\ Evaluating
  /\ Len(results) < Len(examples)
  /\ session' = None
  /\ reports' = <<>> /\ results' = <<>>
  /\ UNCHANGED <<produced, deltas, files, sessions>>

Field(name) == [i \in DOMAIN results |-> results[i][name]]

ReportOf(v) ==
  [run_id          |-> RunId(v),
   variant_name    |-> v.name,
   verdict         |-> compute_verdict_metrics(
                         [i \in DOMAIN results |-> <<results[i].expected_verdict,
                                                     results[i].predicted_verdict>>]),
   retrieval       |-> AverageRetrieval(Field("retrieval")),
   citation        |-> AverageCitation(Field("citation")),
   example_results |-> results,
   example_count   |-> Len(results)]

(* Mutant: the report is written after every example. *)
FinishVariantEarly ==
  /\ Evaluating
  /\ results # <<>>
  /\ reports' = Append(reports, ReportOf(variant))
  /\ results' = <<>>
  /\ report_files' = IF session.persist
                     THEN Put(report_files, RunId(variant), ReportOf(variant))
                     ELSE report_files
  /\ UNCHANGED <<produced, session, deltas, ledger_files, sessions>>

FinishVariant ==
  /\ Evaluating
  /\ Len(results) = Len(examples)
  /\ reports' = Append(reports, ReportOf(variant))
  /\ results' = <<>>
  /\ report_files' = IF session.persist
                     THEN Put(report_files, RunId(variant), ReportOf(variant))
                     ELSE report_files
  /\ UNCHANGED <<produced, session, deltas, ledger_files, sessions>>

AblatedVariantName == [QUESTION_GENERATION |-> "no_question_generation",
                       BM25 |-> "no_bm25", RRF |-> "no_rrf"]

Named(name) == {i \in DOMAIN reports : reports[i].variant_name = name}

First(indices) == CHOOSE i \in indices : \A j \in indices : i <= j

(* Mutant: the first report is taken for the full one. *)
FirstIsFull == reports[1]

FullReport == reports[First(Named("full"))]

(* A component whose variant was not evaluated has no delta. *)
FinishAblation ==
  /\ session # None
  /\ Len(reports) = Len(session.variants)
  /\ deltas' = [component \in {c \in DOMAIN AblatedVariantName :
                                 Named(AblatedVariantName[c]) # {}} |->
                  Minus(FullReport.verdict.accuracy,
                        reports[First(Named(AblatedVariantName[component]))]
                          .verdict.accuracy)]
  /\ session' = None
  /\ UNCHANGED <<produced, reports, results, files, sessions>>

Dies ==
  /\ session # None
  /\ session' = None
  /\ reports' = <<>> /\ results' = <<>> /\ deltas' = None
  /\ UNCHANGED sessions

Crash == Dies /\ UNCHANGED <<produced, files>>

(* The process dies while it writes a file.  The file is opened for        *)
(* writing, and so emptied, before the text is written.                    *)
CrashInLedgerFile ==
  /\ Dies
  /\ Evaluating /\ session.persist /\ Len(results) < Len(examples)
  /\ \E body \in Answers :
       /\ produced' = Put(produced, ThisRun, body)
       /\ ledger_files' = Put(ledger_files, LedgerPath(example, variant, body), None)
  /\ UNCHANGED report_files

CrashInReportFile ==
  /\ Dies
  /\ Evaluating /\ session.persist /\ Len(results) = Len(examples)
  /\ report_files' = Put(report_files, RunId(variant), None)
  /\ UNCHANGED <<produced, ledger_files>>

Next ==
  \/ \E variants \in VariantLists, config \in PipelineConfig, persist \in BOOLEAN :
       RunAblation(variants, config, persist)
  \/ EvaluateExample \/ ExampleFails
  \/ FinishVariant \/ FinishAblation
  \/ Crash \/ CrashInLedgerFile \/ CrashInReportFile

Spec == Init /\ [][Next]_vars

-----------------------------------------------------------------------------
Readable == {report_files[r] : r \in DOMAIN report_files} \ {None}

Finished(report) ==
  /\ report.example_count = Len(examples)
  /\ [i \in DOMAIN report.example_results |-> report.example_results[i].example_id]
       = [i \in DOMAIN examples |-> examples[i].example_id]

(* Whatever fails or crashes, a report that can be read from disk is of    *)
(* the whole dataset in its order, and each of its results leads to a file *)
(* that is either cut short or holds the very ledger the result was        *)
(* computed from (evaluate_variant, save_report, save_ledger).             *)
SavedReportsAreBacked ==
  \A report \in Readable :
    /\ Finished(report)
    /\ \A i \in DOMAIN report.example_results :
         LET result == report.example_results[i]
         IN  /\ result.ledger_path \in DOMAIN ledger_files
             /\ ledger_files[result.ledger_path] \in {None, result.ledger_fingerprint}

Errors(report) ==
  Cardinality({i \in DOMAIN report.example_results :
    report.example_results[i].predicted_verdict
      # report.example_results[i].expected_verdict})

(* The delta of a component is the share of examples its variant gets      *)
(* wrong beyond those the full pipeline gets wrong, in whatever order the  *)
(* variants were evaluated (run_ablation).                                 *)
DeltasCompareWithFull ==
  deltas # None =>
    \A component \in DOMAIN deltas :
      \E full, ablated \in ToSet(reports) :
        /\ full.variant_name = "full"
        /\ ablated.variant_name = AblatedVariantName[component]
        /\ Same(deltas[component],
                <<Errors(ablated) - Errors(full), Len(examples)>>)

(* The cells of the confusion matrix, against the other verdict metrics.   *)
CellsAddUp(figures, count) ==
  LET cells == figures.confusion
      row(v) == {c \in DOMAIN cells : c[1] = v}
      total(S) == SumFunctionOnSet(cells, S)
  IN  /\ total(DOMAIN cells) = count
      /\ Same(figures.accuracy, <<total({c \in DOMAIN cells : c[1] = c[2]}), count>>)
      /\ \A v \in Verdict :
           /\ figures.per_class[v].support = total(row(v))
           /\ Same(figures.per_class[v].recall,
                   Ratio(total(row(v) \intersect {<<v, v>>}), total(row(v))))
      /\ figures.contradiction_detection_rate = None <=> row("CONTRADICTORY") = {}

(* The figures at the cutoffs of one example.                             *)
RankedWithin(metrics) ==
  \A k, l \in k_cutoffs :
    /\ k <= l => AtMost(metrics.cutoffs[k].recall, metrics.cutoffs[l].recall)
    /\ AtMost(metrics.cutoffs[l].recall, <<1, 1>>)
    /\ AtMost(metrics.cutoffs[l].precision, <<1, 1>>)

(* The metrics of a report, computed apart, agree with one another and     *)
(* with the results: the cells of the confusion matrix account for every   *)
(* example, its diagonal gives the accuracy and its rows the recalls; a    *)
(* recall at a cutoff never exceeds that at a larger one and counts a gold *)
(* chunk once; a mean lies within its values; absence is never a zero      *)
(* (evaluation/metrics, _average_retrieval, _average_citation).            *)
MetricsAddUp ==
  \A r \in ToSet(reports) :
    LET retrievals == {x.retrieval : x \in ToSet(r.example_results)} \ {None}
    IN  /\ CellsAddUp(r.verdict, r.example_count)
        /\ \A metrics \in retrievals : RankedWithin(metrics)
        /\ (r.retrieval = None) <=> (retrievals = {})
        /\ r.retrieval # None =>
             \E low, high \in retrievals :
               AtMost(low.mrr, r.retrieval.mrr) /\ AtMost(r.retrieval.mrr, high.mrr)
        /\ r.citation # None => r.citation.grounded_count <= r.citation.cited_count
=============================================================================
