----------------------------- MODULE RuleEngine -----------------------------
(***************************************************************************)
(* The deterministic verdict logic of lncvs.rules: classify() turns the    *)
(* NLI results of a ledger into one status per atomic claim plus the trace *)
(* records, and ThresholdRuleEngine.evaluate() turns the statuses into a   *)
(* FinalVerdict.                                                           *)
(*                                                                         *)
(* An NLI result is a record [atomic_claim_id, evidence_chunk_id, label,   *)
(* score]; scores and thresholds are only ever compared, so they are       *)
(* natural numbers here.  Lists of results, claims and trace records are   *)
(* sets: no rule of the engine depends on their order.                     *)
(***************************************************************************)
EXTENDS Integers

NLILabel == {"ENTAILMENT", "CONTRADICTION", "NEUTRAL"}

VerdictEnum == {"CONSISTENT", "CONTRADICTORY", "INSUFFICIENT_EVIDENCE"}

ClaimStatus == {"CONTRADICTED", "SUPPORTED", "UNRESOLVED"}

NLIResult(Claim, Chunk, Score) ==
  [atomic_claim_id : Claim, evidence_chunk_id : Chunk,
   label : NLILabel, score : Score]

Trace(Claim, Chunk, Score) ==
  [atomic_claim_id : Claim, evidence_chunk_id : Chunk, nli_score : Score]

RuleEngineConfig(Score) ==
  [contradiction_threshold : Score, entailment_threshold : Score,
   consistency_requires_entailment : BOOLEAN]

FiredRule ==
  {"rule_1_contradiction", "rule_2_unresolved",
   "rule_3_all_supported", "rule_3_no_contradiction"}

FinalVerdict(Claim) ==
  [verdict : VerdictEnum, fired_rule : FiredRule,
   contradicted_claim_ids : SUBSET Claim, unresolved_claim_ids : SUBSET Claim]

-----------------------------------------------------------------------------
(* classify() *)

(* Mutant: the comparison inverted. *)
ContradictingBelow(nli_results, c, config) ==
  {r \in nli_results : /\ r.atomic_claim_id = c
                       /\ r.label = "CONTRADICTION"
                       /\ r.score < config.contradiction_threshold}

Contradicting(nli_results, c, config) ==
  {r \in nli_results : /\ r.atomic_claim_id = c
                       /\ r.label = "CONTRADICTION"
                       /\ r.score >= config.contradiction_threshold}

Entailing(nli_results, c, config) ==
  {r \in nli_results : /\ r.atomic_claim_id = c
                       /\ r.label = "ENTAILMENT"
                       /\ r.score >= config.entailment_threshold}

(* Mutant: support is looked at first. *)
SupportFirst(nli_results, c, config) ==
  CASE Entailing(nli_results, c, config) # {} -> "SUPPORTED"
    [] /\ Entailing(nli_results, c, config) = {}
       /\ Contradicting(nli_results, c, config) # {} -> "CONTRADICTED"
    [] OTHER -> "UNRESOLVED"

Status(nli_results, c, config) ==
  CASE Contradicting(nli_results, c, config) # {} -> "CONTRADICTED"
    [] /\ Contradicting(nli_results, c, config) = {}
       /\ Entailing(nli_results, c, config) # {}  -> "SUPPORTED"
    [] OTHER                                      -> "UNRESOLVED"

ClaimsWith(status, nli_results, claim_ids, config) ==
  {c \in claim_ids : Status(nli_results, c, config) = status}

(* A Contradiction or SupportingEvidence record: the deciding result,      *)
(* without its label.                                                      *)
TraceRecord(r) ==
  [atomic_claim_id |-> r.atomic_claim_id,
   evidence_chunk_id |-> r.evidence_chunk_id, nli_score |-> r.score]

(* Only the results that decided a claim's status are traced: the          *)
(* entailing results of a CONTRADICTED claim are dropped.                  *)
Contradictions(nli_results, claim_ids, config) ==
  {TraceRecord(r) : r \in UNION {Contradicting(nli_results, c, config) :
     c \in ClaimsWith("CONTRADICTED", nli_results, claim_ids, config)}}

SupportingEvidence(nli_results, claim_ids, config) ==
  {TraceRecord(r) : r \in UNION {Entailing(nli_results, c, config) :
     c \in ClaimsWith("SUPPORTED", nli_results, claim_ids, config)}}

(* Mutant: a contradicted claim without support is unsupported too. *)
EveryUnentailed(nli_results, claim_ids, config) ==
  {c \in claim_ids : Entailing(nli_results, c, config) = {}}

UnsupportedClaims(nli_results, claim_ids, config) ==
  ClaimsWith("UNRESOLVED", nli_results, claim_ids, config)

-----------------------------------------------------------------------------
(* ThresholdRuleEngine.evaluate(): the rules in the order they are tried.  *)

CanEvaluate(claim_ids) == claim_ids # {}

Evaluate(nli_results, claim_ids, config) ==
  LET contradicted == ClaimsWith("CONTRADICTED", nli_results, claim_ids, config)
      unresolved   == ClaimsWith("UNRESOLVED", nli_results, claim_ids, config)
      Final(v, rule, ids) == [verdict |-> v, fired_rule |-> rule,
                               contradicted_claim_ids |-> ids,
                               unresolved_claim_ids |-> unresolved]
  IN  IF contradicted # {}
      THEN Final("CONTRADICTORY", "rule_1_contradiction", contradicted)
      ELSE IF unresolved # {} /\ config.consistency_requires_entailment
      THEN Final("INSUFFICIENT_EVIDENCE", "rule_2_unresolved", {})
      ELSE IF unresolved = {}
      THEN Final("CONSISTENT", "rule_3_all_supported", {})
      ELSE Final("CONSISTENT", "rule_3_no_contradiction", {})
=============================================================================
