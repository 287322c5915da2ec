--------------------------- MODULE ThresholdSweep ---------------------------
(***************************************************************************)
(* Re-judging one checkpointed row under other thresholds.                 *)
(*                                                                         *)
(* scripts/evaluate_dataset.py rebuilds a ledger from the row's recorded   *)
(* atomic_claim_ids and nli_results and evaluates the real rule engine for *)
(* every threshold of the sweep; scripts/sweep_thresholds.py does the same *)
(* offline with its own copy of the rules, verdict_for_row.  The NLI       *)
(* results never change during a sweep; only the configuration does.       *)
(***************************************************************************)
EXTENDS RuleEngine

CONSTANTS
  Claim,    \* identifiers of the row's atomic claims
  Chunk,    \* identifiers of the narrative's chunks
  Score     \* the scores and thresholds in play

ASSUME ScoreAssumption == Score \subseteq Nat

VARIABLES
  claims,       \* record["atomic_claim_ids"] of the row being judged
  nli_results,  \* record["nli_results"] of the row being judged
  config,       \* the RuleEngineConfig of the evaluation just made
  verdict       \* what engine.evaluate(ledger) returned for it

sweep_vars == <<claims, nli_results, config, verdict>>

Config == RuleEngineConfig(Score)

(* Mutant: rule 2 is tried before rule 1. *)
UnresolvedFirst(results, claim_ids, c_thresh, e_thresh) ==
  LET Passes(c, label, bound) ==
        \E r \in results : /\ r.atomic_claim_id = c
                           /\ r.label = label
                           /\ r.score >= bound
  IN  IF \E c \in claim_ids : ~Passes(c, "CONTRADICTION", c_thresh)
                             /\ ~Passes(c, "ENTAILMENT", e_thresh)
      THEN "INSUFFICIENT_EVIDENCE"
      ELSE IF \E c \in claim_ids : Passes(c, "CONTRADICTION", c_thresh)
      THEN "CONTRADICTORY" ELSE "CONSISTENT"

(* sweep_thresholds.verdict_for_row: the copy of the rules that takes two  *)
(* thresholds and no consistency policy.                                   *)
VerdictForRow(results, claim_ids, c_thresh, e_thresh) ==
  LET Passes(c, label, bound) ==
        \E r \in results : /\ r.atomic_claim_id = c
                           /\ r.label = label
                           /\ r.score >= bound
      contradicted(c) == Passes(c, "CONTRADICTION", c_thresh)
      unresolved(c)   == /\ ~contradicted(c)
                         /\ ~Passes(c, "ENTAILMENT", e_thresh)
  IN  IF \E c \in claim_ids : contradicted(c) THEN "CONTRADICTORY"
      ELSE IF \E c \in claim_ids : unresolved(c) THEN "INSUFFICIENT_EVIDENCE"
      ELSE "CONSISTENT"

TypeOK ==
  /\ claims \in (SUBSET Claim) \ {{}}
  /\ nli_results \subseteq NLIResult(claims, Chunk, Score)
  /\ config \in Config
  /\ verdict \in FinalVerdict(claims)

(* A run that completed: at least one claim, and at most one NLI result    *)
(* per (claim, chunk), as verification makes one per fused record.         *)
RowResults(claim_ids) ==
  UNION {
    {{[atomic_claim_id |-> p[1], evidence_chunk_id |-> p[2],
       label |-> outcome[p][1], score |-> outcome[p][2]] : p \in verified} :
     outcome \in [verified -> NLILabel \X Score]} :
    verified \in SUBSET (claim_ids \X Chunk)}

ReconstructLedger ==
  /\ claims \in (SUBSET Claim) \ {{}}
  /\ nli_results \in RowResults(claims)

SweepInit ==
  /\ ReconstructLedger
  /\ config \in Config
  /\ verdict = Evaluate(nli_results, claims, config)

(* One iteration of the sweep: a fresh engine over the same recorded row.  *)
Reevaluate ==
  /\ CanEvaluate(claims)
  /\ config' \in Config
  /\ verdict' = Evaluate(nli_results, claims, config')
  /\ UNCHANGED <<claims, nli_results>>

SweepNext == Reevaluate

SweepSpec == SweepInit /\ [][SweepNext]_sweep_vars

-----------------------------------------------------------------------------
(* A verdict is CONTRADICTORY exactly when some claim of the row has a     *)
(* contradiction at or above the threshold, whatever entailments the same  *)
(* claim has and however many claims are unresolved (rule 1 before rule 2, *)
(* contradiction dominating support in classify()).                        *)
ContradictionDominates ==
  verdict.verdict = "CONTRADICTORY" <=>
    \E r \in nli_results : /\ r.label = "CONTRADICTION"
                           /\ r.score >= config.contradiction_threshold

(* The trace that record_classification stores and the verdict agree: the  *)
(* claims with contradiction records are the contradicted ids, the         *)
(* unsupported claims are the unresolved ids, and every claim is traced in *)
(* exactly one of the three lists.                                         *)
TraceAgreesWithVerdict ==
  LET traced(R) == {r.atomic_claim_id : r \in R}
      contradicted == traced(Contradictions(nli_results, claims, config))
      supported    == traced(SupportingEvidence(nli_results, claims, config))
      unsupported  == UnsupportedClaims(nli_results, claims, config)
  IN  /\ contradicted = verdict.contradicted_claim_ids
      /\ unsupported = verdict.unresolved_claim_ids
      /\ contradicted \union supported \union unsupported = claims
      /\ contradicted \intersect supported = {}
      /\ (contradicted \union supported) \intersect unsupported = {}

(* Raising the contradiction threshold alone can clear a contradiction but *)
(* never create one, and it never shrinks what is left unresolved: the     *)
(* reading the sweep's table of thresholds relies on.                      *)
RaisingContradictionThresholdNeverCondemns ==
  [][/\ config'.contradiction_threshold >= config.contradiction_threshold
     /\ config'.entailment_threshold = config.entailment_threshold
     => /\ verdict'.contradicted_claim_ids \subseteq verdict.contradicted_claim_ids
        /\ verdict.unresolved_claim_ids \subseteq verdict'.unresolved_claim_ids]_sweep_vars

(* The entailment threshold and the consistency policy never decide whether*)
(* a row is CONTRADICTORY, nor which claims are: holding the contradiction *)
(* threshold fixed holds the contradictions fixed.                         *)
PolicyNeverTouchesContradictions ==
  [][config'.contradiction_threshold = config.contradiction_threshold
     => verdict'.contradicted_claim_ids = verdict.contradicted_claim_ids]_sweep_vars

(* Relaxing consistency_requires_entailment with equal thresholds changes  *)
(* one thing only: INSUFFICIENT_EVIDENCE becomes CONSISTENT, with the same *)
(* unresolved claims still recorded for the audit.                         *)
LenientOnlyClearsInsufficient ==
  [][/\ config' = [config EXCEPT !.consistency_requires_entailment = FALSE]
     => /\ verdict'.unresolved_claim_ids = verdict.unresolved_claim_ids
        /\ \/ verdict'.verdict = verdict.verdict
           \/ /\ verdict.verdict = "INSUFFICIENT_EVIDENCE"
              /\ verdict'.verdict = "CONSISTENT"]_sweep_vars

(* Under the strict policy the offline sweep's copy of the rules gives the *)
(* verdict the engine gives.                                               *)
SweepMatchesStrictEngine ==
  config.consistency_requires_entailment =>
    VerdictForRow(nli_results, claims, config.contradiction_threshold,
                  config.entailment_threshold) = verdict.verdict
=============================================================================
