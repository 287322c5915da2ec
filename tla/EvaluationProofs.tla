--------------------------- MODULE EvaluationProofs ---------------------------
(***************************************************************************)
(* Proofs about the two ways a run is judged afterwards.  The first part   *)
(* is about RuleEngine and ThresholdSweep, for every set of claims, chunks *)
(* and scores: what a verdict says about the NLI results it was computed   *)
(* from, and how it moves with the configuration.  The second part is      *)
(* about EvaluationHarness, for every dataset, every list of variants,     *)
(* whatever the runner answers, any number of sessions over one directory, *)
(* and crashes anywhere: what a saved report points to is on disk, a       *)
(* contribution is measured against the full variant, and the metrics of a *)
(* report agree with one another and with its results.                     *)
(***************************************************************************)
EXTENDS ThresholdSweep, EvaluationHarness, FiniteSetTheorems, WellFoundedInduction, TLAPS

-----------------------------------------------------------------------------
(* What the rules return, for any results, claims and configuration.       *)

(* What one claim's status means.                                          *)
LEMMA StatusMeaning ==
  ASSUME NEW found, NEW c, NEW cfg
  PROVE  /\ Status(found, c, cfg) = "CONTRADICTED"
              <=> Contradicting(found, c, cfg) # {}
         /\ Status(found, c, cfg) = "SUPPORTED"
              <=> /\ Contradicting(found, c, cfg) = {}
                  /\ Entailing(found, c, cfg) # {}
         /\ Status(found, c, cfg) = "UNRESOLVED"
              <=> /\ Contradicting(found, c, cfg) = {}
                  /\ Entailing(found, c, cfg) = {}
  BY DEF Status

(* What evaluate() returns, in terms of the statuses of the claims.        *)
LEMMA EvaluateMeaning ==
  ASSUME NEW found, NEW ids, NEW S, NEW cfg \in RuleEngineConfig(S)
  PROVE  LET v == Evaluate(found, ids, cfg)
             contradicted == ClaimsWith("CONTRADICTED", found, ids, cfg)
             unresolved   == ClaimsWith("UNRESOLVED", found, ids, cfg)
         IN  /\ v \in FinalVerdict(ids)
             /\ v.contradicted_claim_ids = contradicted
             /\ v.unresolved_claim_ids = unresolved
             /\ v.verdict = "CONTRADICTORY" <=> contradicted # {}
             /\ v.verdict = "INSUFFICIENT_EVIDENCE"
                  <=> /\ contradicted = {}
                      /\ unresolved # {}
                      /\ cfg.consistency_requires_entailment
  BY DEF Evaluate, ClaimsWith, FinalVerdict, VerdictEnum, FiredRule, RuleEngineConfig

(* classify() puts every claim into exactly one of its three lists.        *)
LEMMA StatusesPartition ==
  ASSUME NEW found, NEW ids, NEW cfg
  PROVE  LET contradicted == ClaimsWith("CONTRADICTED", found, ids, cfg)
             supported    == ClaimsWith("SUPPORTED", found, ids, cfg)
             unresolved   == ClaimsWith("UNRESOLVED", found, ids, cfg)
         IN  /\ contradicted \union supported \union unresolved = ids
             /\ contradicted \intersect supported = {}
             /\ (contradicted \union supported) \intersect unresolved = {}
  BY DEF ClaimsWith, Status

(* The contradictions name exactly the contradicted claims, and the        *)
(* supporting records exactly the supported ones.                          *)
LEMMA TracedClaims ==
  ASSUME NEW found, NEW ids, NEW cfg
  PROVE  /\ {r.atomic_claim_id : r \in Contradictions(found, ids, cfg)}
              = ClaimsWith("CONTRADICTED", found, ids, cfg)
         /\ {r.atomic_claim_id : r \in SupportingEvidence(found, ids, cfg)}
              = ClaimsWith("SUPPORTED", found, ids, cfg)
<1>1. \A c : \A r \in Contradicting(found, c, cfg) : TraceRecord(r).atomic_claim_id = c
  BY DEF Contradicting, TraceRecord
<1>2. \A c : \A r \in Entailing(found, c, cfg) : TraceRecord(r).atomic_claim_id = c
  BY DEF Entailing, TraceRecord
<1>3. \A c \in ClaimsWith("CONTRADICTED", found, ids, cfg) :
        Contradicting(found, c, cfg) # {}
  BY StatusMeaning DEF ClaimsWith
<1>4. \A c \in ClaimsWith("SUPPORTED", found, ids, cfg) :
        Entailing(found, c, cfg) # {}
  BY StatusMeaning DEF ClaimsWith
<1>5. {r.atomic_claim_id : r \in Contradictions(found, ids, cfg)}
        = ClaimsWith("CONTRADICTED", found, ids, cfg)
  BY <1>1, <1>3 DEF Contradictions
<1>6. {r.atomic_claim_id : r \in SupportingEvidence(found, ids, cfg)}
        = ClaimsWith("SUPPORTED", found, ids, cfg)
  BY <1>2, <1>4 DEF SupportingEvidence
<1>7. QED
  BY <1>5, <1>6

-----------------------------------------------------------------------------
(* The state at any time: a reconstructed row and the engine's answer to   *)
(* the configuration in force.                                             *)
SweepInv ==
  /\ claims \in (SUBSET Claim) \ {{}}
  /\ nli_results \subseteq NLIResult(claims, Chunk, Score)
  /\ config \in Config
  /\ verdict = Evaluate(nli_results, claims, config)

(* What a cached row holds are results of its claims.                      *)
LEMMA RowResultsTyped ==
  ASSUME NEW ids, NEW found \in RowResults(ids)
  PROVE  found \subseteq NLIResult(ids, Chunk, Score)
<1>1. PICK verified \in SUBSET (ids \X Chunk) :
        \E outcome \in [verified -> NLILabel \X Score] :
          found = {[atomic_claim_id |-> p[1], evidence_chunk_id |-> p[2],
                      label |-> outcome[p][1], score |-> outcome[p][2]] : p \in verified}
  BY DEF RowResults
<1>2. PICK outcome \in [verified -> NLILabel \X Score] :
        found = {[atomic_claim_id |-> p[1], evidence_chunk_id |-> p[2],
                    label |-> outcome[p][1], score |-> outcome[p][2]] : p \in verified}
  BY <1>1
<1>3. \A p \in verified : /\ p[1] \in ids /\ p[2] \in Chunk
                          /\ outcome[p][1] \in NLILabel /\ outcome[p][2] \in Score
  OBVIOUS
<1>4. QED
  BY <1>2, <1>3 DEF NLIResult

(* Every state of a sweep has SweepInv.                                    *)
LEMMA SweepInvInductive == SweepSpec => []SweepInv
<1>1. SweepInit => SweepInv
  BY RowResultsTyped DEF SweepInit, ReconstructLedger, SweepInv
<1>2. SweepInv /\ [SweepNext]_sweep_vars => SweepInv'
  BY DEF SweepInv, SweepNext, Reevaluate, sweep_vars
<1>3. QED
  BY <1>1, <1>2, PTL DEF SweepSpec

(* Type correctness.                                                       *)
THEOREM SweepTypeCorrect == SweepSpec => []TypeOK
<1>1. SweepInv => TypeOK
  BY EvaluateMeaning DEF SweepInv, TypeOK, Config
<1>2. QED
  BY <1>1, SweepInvInductive, PTL

(* Rule 1 comes first: a verdict is CONTRADICTORY exactly when some result *)
(* of the row contradicts its claim at or above the threshold.             *)
THEOREM ContradictionAlwaysDominates == SweepSpec => []ContradictionDominates
<1>1. SweepInv => ContradictionDominates
  <2> SUFFICES ASSUME SweepInv PROVE ContradictionDominates
    OBVIOUS
  <2>1. verdict.verdict = "CONTRADICTORY"
          <=> \E c \in claims : Contradicting(nli_results, c, config) # {}
    BY EvaluateMeaning, StatusMeaning DEF SweepInv, ClaimsWith, Config
  <2>2. \A r \in nli_results : r.atomic_claim_id \in claims
    BY DEF SweepInv, NLIResult
  <2>3. QED
    BY <2>1, <2>2 DEF ContradictionDominates, Contradicting
<1>2. QED
  BY <1>1, SweepInvInductive, PTL

(* The offline copy of the rules and the engine agree under the strict     *)
(* policy, on every row and every pair of thresholds.                      *)
THEOREM StrictSweepMatches == SweepSpec => []SweepMatchesStrictEngine
<1>1. SweepInv => SweepMatchesStrictEngine
  <2> SUFFICES ASSUME SweepInv, config.consistency_requires_entailment
               PROVE  VerdictForRow(nli_results, claims, config.contradiction_threshold,
                                    config.entailment_threshold) = verdict.verdict
    BY DEF SweepMatchesStrictEngine
  <2> DEFINE contradicted == ClaimsWith("CONTRADICTED", nli_results, claims, config)
             unresolved   == ClaimsWith("UNRESOLVED", nli_results, claims, config)
  <2>1. contradicted # {}
          <=> \E c \in claims : \E r \in nli_results :
                /\ r.atomic_claim_id = c /\ r.label = "CONTRADICTION"
                /\ r.score >= config.contradiction_threshold
    BY StatusMeaning DEF ClaimsWith, Contradicting
  <2>2. unresolved # {}
          <=> \E c \in claims :
                /\ ~ \E r \in nli_results :
                      /\ r.atomic_claim_id = c /\ r.label = "CONTRADICTION"
                      /\ r.score >= config.contradiction_threshold
                /\ ~ \E r \in nli_results :
                      /\ r.atomic_claim_id = c /\ r.label = "ENTAILMENT"
                      /\ r.score >= config.entailment_threshold
    BY StatusMeaning DEF ClaimsWith, Contradicting, Entailing
  <2>3. verdict.verdict = IF contradicted # {} THEN "CONTRADICTORY"
                          ELSE IF unresolved # {} THEN "INSUFFICIENT_EVIDENCE"
                          ELSE "CONSISTENT"
    BY DEF SweepInv, Evaluate
  <2> HIDE DEF contradicted, unresolved
  <2>4. QED
    BY <2>1, <2>2, <2>3 DEF VerdictForRow
<1>2. QED
  BY <1>1, SweepInvInductive, PTL

(* The trace agrees with the verdict: the traced claims are the contradicted*)
(* ones, the unsupported ones are the unresolved ones, and every claim is  *)
(* traced in exactly one list.                                             *)
THEOREM TraceAlwaysAgrees == SweepSpec => []TraceAgreesWithVerdict
<1>1. SweepInv => TraceAgreesWithVerdict
  <2> SUFFICES ASSUME SweepInv PROVE TraceAgreesWithVerdict
    OBVIOUS
  <2> DEFINE C == ClaimsWith("CONTRADICTED", nli_results, claims, config)
             S == ClaimsWith("SUPPORTED", nli_results, claims, config)
             U == ClaimsWith("UNRESOLVED", nli_results, claims, config)
  <2>1. verdict.contradicted_claim_ids = C /\ verdict.unresolved_claim_ids = U
    BY EvaluateMeaning DEF SweepInv, Config
  <2>2. /\ C \union S \union U = claims
        /\ C \intersect S = {}
        /\ (C \union S) \intersect U = {}
    BY StatusesPartition
  <2> HIDE DEF C, S, U
  <2>3. /\ {r.atomic_claim_id : r \in Contradictions(nli_results, claims, config)} = C
        /\ {r.atomic_claim_id : r \in SupportingEvidence(nli_results, claims, config)} = S
        /\ UnsupportedClaims(nli_results, claims, config) = U
    BY TracedClaims DEF UnsupportedClaims, C, S, U
  <2>4. QED
    BY <2>1, <2>2, <2>3 DEF TraceAgreesWithVerdict
<1>2. QED
  BY <1>1, SweepInvInductive, PTL

-----------------------------------------------------------------------------
(* How the verdict moves from one configuration to the next.               *)
LEMMA SameRow ==
  SweepInv /\ [SweepNext]_sweep_vars =>
    /\ SweepInv'
    /\ claims' = claims /\ nli_results' = nli_results
    /\ verdict'.contradicted_claim_ids = ClaimsWith("CONTRADICTED", nli_results, claims, config')
    /\ verdict'.unresolved_claim_ids = ClaimsWith("UNRESOLVED", nli_results, claims, config')
    /\ verdict.contradicted_claim_ids = ClaimsWith("CONTRADICTED", nli_results, claims, config)
    /\ verdict.unresolved_claim_ids = ClaimsWith("UNRESOLVED", nli_results, claims, config)
<1> SUFFICES ASSUME SweepInv, [SweepNext]_sweep_vars
             PROVE  /\ SweepInv'
                    /\ claims' = claims /\ nli_results' = nli_results
                    /\ verdict'.contradicted_claim_ids = ClaimsWith("CONTRADICTED", nli_results, claims, config')
                    /\ verdict'.unresolved_claim_ids = ClaimsWith("UNRESOLVED", nli_results, claims, config')
                    /\ verdict.contradicted_claim_ids = ClaimsWith("CONTRADICTED", nli_results, claims, config)
                    /\ verdict.unresolved_claim_ids = ClaimsWith("UNRESOLVED", nli_results, claims, config)
  OBVIOUS
<1>1. SweepInv' /\ claims' = claims /\ nli_results' = nli_results
  BY DEF SweepInv, SweepNext, Reevaluate, sweep_vars
<1>2. /\ config' \in Config /\ verdict' = Evaluate(nli_results, claims, config')
      /\ config \in Config /\ verdict = Evaluate(nli_results, claims, config)
  BY <1>1 DEF SweepInv
<1>3. QED
  BY <1>1, <1>2, EvaluateMeaning DEF Config

(* Raising the contradiction threshold never contradicts another claim and *)
(* never resolves one.                                                     *)
THEOREM RaisingNeverCondemns == SweepSpec => RaisingContradictionThresholdNeverCondemns
<1> DEFINE Raised ==
      /\ config'.contradiction_threshold >= config.contradiction_threshold
      /\ config'.entailment_threshold = config.entailment_threshold
      => /\ verdict'.contradicted_claim_ids \subseteq verdict.contradicted_claim_ids
         /\ verdict.unresolved_claim_ids \subseteq verdict'.unresolved_claim_ids
<1>1. SweepInv /\ [SweepNext]_sweep_vars => [Raised]_sweep_vars
  <2> SUFFICES ASSUME SweepInv, [SweepNext]_sweep_vars,
                      config'.contradiction_threshold >= config.contradiction_threshold,
                      config'.entailment_threshold = config.entailment_threshold
               PROVE  /\ verdict'.contradicted_claim_ids \subseteq verdict.contradicted_claim_ids
                      /\ verdict.unresolved_claim_ids \subseteq verdict'.unresolved_claim_ids
    OBVIOUS
  <2>1. /\ config.contradiction_threshold \in Nat /\ config'.contradiction_threshold \in Nat
        /\ \A r \in nli_results : r.score \in Nat
    BY SameRow, ScoreAssumption DEF SweepInv, Config, RuleEngineConfig, NLIResult
  <2>2. \A c : /\ Contradicting(nli_results, c, config') \subseteq Contradicting(nli_results, c, config)
               /\ Entailing(nli_results, c, config') = Entailing(nli_results, c, config)
    BY <2>1 DEF Contradicting, Entailing
  <2>3. /\ ClaimsWith("CONTRADICTED", nli_results, claims, config')
             \subseteq ClaimsWith("CONTRADICTED", nli_results, claims, config)
        /\ ClaimsWith("UNRESOLVED", nli_results, claims, config)
             \subseteq ClaimsWith("UNRESOLVED", nli_results, claims, config')
    BY <2>2, StatusMeaning DEF ClaimsWith
  <2>4. QED
    BY <2>3, SameRow
<1>2. QED
  BY <1>1, SweepInvInductive, PTL DEF SweepSpec, RaisingContradictionThresholdNeverCondemns

(* Neither the entailment threshold nor the policy touches contradictions. *)
THEOREM PolicyKeepsContradictions == SweepSpec => PolicyNeverTouchesContradictions
<1> DEFINE Held == config'.contradiction_threshold = config.contradiction_threshold
                   => verdict'.contradicted_claim_ids = verdict.contradicted_claim_ids
<1>1. SweepInv /\ [SweepNext]_sweep_vars => [Held]_sweep_vars
  <2> SUFFICES ASSUME SweepInv, [SweepNext]_sweep_vars,
                      config'.contradiction_threshold = config.contradiction_threshold
               PROVE  verdict'.contradicted_claim_ids = verdict.contradicted_claim_ids
    OBVIOUS
  <2>1. \A c : Contradicting(nli_results, c, config') = Contradicting(nli_results, c, config)
    BY DEF Contradicting
  <2>2. ClaimsWith("CONTRADICTED", nli_results, claims, config')
          = ClaimsWith("CONTRADICTED", nli_results, claims, config)
    BY <2>1, StatusMeaning DEF ClaimsWith
  <2>3. QED
    BY <2>2, SameRow
<1>2. QED
  BY <1>1, SweepInvInductive, PTL DEF SweepSpec, PolicyNeverTouchesContradictions

(* The lenient policy clears INSUFFICIENT_EVIDENCE and nothing else.       *)
THEOREM LenientOnlyClears == SweepSpec => LenientOnlyClearsInsufficient
<1> DEFINE Cleared ==
      config' = [config EXCEPT !.consistency_requires_entailment = FALSE]
      => /\ verdict'.unresolved_claim_ids = verdict.unresolved_claim_ids
         /\ \/ verdict'.verdict = verdict.verdict
            \/ /\ verdict.verdict = "INSUFFICIENT_EVIDENCE"
               /\ verdict'.verdict = "CONSISTENT"
<1>1. SweepInv /\ [SweepNext]_sweep_vars => [Cleared]_sweep_vars
  <2> SUFFICES ASSUME SweepInv, [SweepNext]_sweep_vars,
                      config' = [config EXCEPT !.consistency_requires_entailment = FALSE]
               PROVE  /\ verdict'.unresolved_claim_ids = verdict.unresolved_claim_ids
                      /\ \/ verdict'.verdict = verdict.verdict
                         \/ /\ verdict.verdict = "INSUFFICIENT_EVIDENCE"
                            /\ verdict'.verdict = "CONSISTENT"
    OBVIOUS
  <2>1. /\ config'.contradiction_threshold = config.contradiction_threshold
        /\ config'.entailment_threshold = config.entailment_threshold
        /\ config'.consistency_requires_entailment = FALSE
    BY DEF SweepInv, Config, RuleEngineConfig
  <2>2. \A c : Status(nli_results, c, config') = Status(nli_results, c, config)
    BY <2>1 DEF Status, Contradicting, Entailing
  <2>3. \A s : ClaimsWith(s, nli_results, claims, config') = ClaimsWith(s, nli_results, claims, config)
    BY <2>2 DEF ClaimsWith
  <2>4. /\ verdict = Evaluate(nli_results, claims, config)
        /\ verdict' = Evaluate(nli_results, claims, config')
    BY SameRow DEF SweepInv
  <2>5. verdict'.unresolved_claim_ids = verdict.unresolved_claim_ids
    BY <2>3, SameRow
  <2>6. \/ verdict'.verdict = verdict.verdict
        \/ /\ verdict.verdict = "INSUFFICIENT_EVIDENCE"
           /\ verdict'.verdict = "CONSISTENT"
    BY <2>1, <2>3, <2>4 DEF Evaluate
  <2>7. QED
    BY <2>5, <2>6
<1>2. QED
  BY <1>1, SweepInvInductive, PTL DEF SweepSpec, LenientOnlyClearsInsufficient

-----------------------------------------------------------------------------
(* The harness. *)

(* The path of a ledger file ends with the ledger it is written for.       *)
OwnLedgers ==
  \A path \in DOMAIN ledger_files : ledger_files[path] \in {None, path[3]}

(* Results whose ledgers have been written, or begun to be.                *)
Backed(list) ==
  \A i \in DOMAIN list :
    /\ list[i].ledger_path \in DOMAIN ledger_files
    /\ list[i].ledger_path[3] = list[i].ledger_fingerprint

(* The results of the variant are those of the first examples, in order.   *)
InOrder ==
  /\ results \in Seq(ToSet(results))
  /\ Len(results) <= Len(examples)
  /\ \A i \in 1..Len(results) : results[i].example_id = examples[i].example_id
  /\ session # None /\ session.persist => Backed(results)

(* A running call has compared nothing, has a full variant among its       *)
(* variants, and has evaluated the first of them, in order.                *)
InCall ==
  session # None =>
    /\ deltas = None
    /\ session.variants \in Seq(ToSet(session.variants))
    /\ \E v \in ToSet(session.variants) : v.name = "full"
    /\ Len(reports) <= Len(session.variants)
    /\ \A i \in 1..Len(reports) : reports[i].variant_name = session.variants[i].name

(* The accuracy of a report is the share of examples without an error.     *)
Scored(report) ==
  /\ Errors(report) \in Nat
  /\ report.verdict.accuracy = <<Len(examples) - Errors(report), Len(examples)>>

AllScored ==
  /\ reports \in Seq(ToSet(reports))
  /\ \A i \in 1..Len(reports) : Scored(reports[i])

Saved ==
  \A run \in DOMAIN report_files :
    report_files[run] # None =>
      /\ Finished(report_files[run])
      /\ Backed(report_files[run].example_results)

HarnessInv ==
  OwnLedgers /\ InOrder /\ InCall /\ AllScored /\ Saved /\ DeltasCompareWithFull
-----------------------------------------------------------------------------
(* A set of numbers that is not empty has a first one.                     *)
LEMMA FirstIsIn ==
  ASSUME NEW S, S \subseteq Nat, S # {}
  PROVE  First(S) \in S /\ \A m \in S : First(S) <= m
  <1>1. PICK x \in S : \A y \in S : ~ <<y, x>> \in OpToRel(<, Nat)
    BY NatLessThanWellFounded, WFMin, Zenon
  <1>2. \A y, z \in Nat : y < z => <<y, z>> \in OpToRel(<, Nat)
    BY Zenon DEF OpToRel
  <1>3. \A y \in S : ~ y < x
    BY <1>1, <1>2, Zenon
  <1>4. \A y \in S : x <= y
    BY <1>3
  <1> QED
    BY <1>4 DEF First

(* The members of a sequence.                                              *)
LEMMA Members ==
  ASSUME NEW s, s \in Seq(ToSet(s))
  PROVE  /\ Len(s) \in Nat /\ DOMAIN s = 1..Len(s)
         /\ \A x : x \in ToSet(s) <=> \E i \in 1..Len(s) : x = s[i]
  BY DEF ToSet

(* Appending leaves the members where they were.                           *)
LEMMA Appended ==
  ASSUME NEW s, s \in Seq(ToSet(s)), NEW x
  PROVE  /\ Append(s, x) \in Seq(ToSet(Append(s, x)))
         /\ Len(Append(s, x)) = Len(s) + 1
         /\ \A i \in 1..Len(s) : Append(s, x)[i] = s[i]
         /\ Append(s, x)[Len(s) + 1] = x
  <1> DEFINE t == Append(s, x)
  <1>1. s \in Seq(ToSet(s) \union {x}) /\ t \in Seq(ToSet(s) \union {x})
    OBVIOUS
  <1>2. Len(t) = Len(s) + 1 /\ Len(s) \in Nat /\ DOMAIN t = 1..Len(t) /\ DOMAIN s = 1..Len(s)
    BY <1>1
  <1>3. (\A i \in 1..Len(s) : t[i] = s[i]) /\ t[Len(s) + 1] = x
    BY <1>1
  <1>4. t \in Seq(ToSet(t))
    <2> HIDE DEF t
    <2> QED
      BY <1>1, <1>2 DEF ToSet
  <1> QED
    BY <1>2, <1>3, <1>4

(* What there is before anything was evaluated.                            *)
LEMMA NothingYet == <<>> \in Seq(ToSet(<<>>)) /\ Len(<<>>) = 0 /\ DOMAIN <<>> = {}
  BY DEF ToSet

-----------------------------------------------------------------------------
(* Accuracy. *)

Wrong(list) ==
  {i \in DOMAIN list : list[i].predicted_verdict # list[i].expected_verdict}
Right(list) ==
  {i \in DOMAIN list : list[i].expected_verdict = list[i].predicted_verdict}

(* Every result is right or wrong, and not both.                           *)
LEMMA RightOrWrong ==
  ASSUME NEW list, list \in Seq(ToSet(list))
  PROVE  /\ Cardinality(Wrong(list)) \in Nat
         /\ Cardinality(Right(list)) = Len(list) - Cardinality(Wrong(list))
  <1>1. Len(list) \in Nat /\ DOMAIN list = 1..Len(list)
    BY Members
  <1>2. IsFiniteSet(1..Len(list)) /\ Cardinality(1..Len(list)) = Len(list)
    BY <1>1, FS_Interval
  <1>3. /\ Wrong(list) \in SUBSET (1..Len(list)) /\ Right(list) \in SUBSET (1..Len(list))
        /\ Wrong(list) \union Right(list) = 1..Len(list)
        /\ Wrong(list) \intersect Right(list) = {}
    BY <1>1 DEF Wrong, Right
  <1>4. IsFiniteSet(Wrong(list)) /\ IsFiniteSet(Right(list))
    BY <1>2, <1>3, FS_Subset
  <1>5. Cardinality(Wrong(list)) \in Nat /\ Cardinality(Right(list)) \in Nat
    BY <1>4, FS_CardinalityType
  <1>6. Cardinality(Wrong(list) \union Right(list))
          = Cardinality(Wrong(list)) + Cardinality(Right(list))
              - Cardinality(Wrong(list) \intersect Right(list))
    BY <1>4, FS_Union
  <1>7. Len(list) = Cardinality(Wrong(list)) + Cardinality(Right(list)) - 0
    BY <1>2, <1>3, <1>6, FS_EmptySet
  <1> QED
    BY <1>1, <1>5, <1>7

(* compute_verdict_metrics: the accuracy is the share of pairs that agree. *)
LEMMA AccuracyOfPairs ==
  ASSUME NEW pairs
  PROVE  compute_verdict_metrics(pairs).accuracy
           = Ratio(Cardinality({i \in DOMAIN pairs : pairs[i][1] = pairs[i][2]}), Len(pairs))
  BY DEF compute_verdict_metrics

(* A report of as many results as there are examples is scored.            *)
LEMMA ReportScored ==
  ASSUME InOrder, Len(results) = Len(examples), NEW v
  PROVE  Scored(ReportOf(v))
  <1> DEFINE pair(i) == <<results[i].expected_verdict, results[i].predicted_verdict>>
             pairs == [i \in DOMAIN results |-> pair(i)]
  <1>1. /\ results \in Seq(ToSet(results))
        /\ Len(results) \in Nat /\ DOMAIN results = 1..Len(results)
    BY Members DEF InOrder
  <1>2. Len(examples) \in Nat /\ Len(examples) # 0
    BY HarnessAssumption
  <1>3. Len(pairs) = Len(results)
    <2>1. pairs \in Seq({pair(i) : i \in DOMAIN results})
      BY <1>1
    <2>2. DOMAIN pairs = 1..Len(results)
      BY <1>1
    <2> HIDE DEF pairs
    <2> QED
      BY <1>1, <2>1, <2>2
  <1>4. {i \in DOMAIN pairs : pairs[i][1] = pairs[i][2]} = Right(results)
    BY DEF Right
  <1>5. ReportOf(v).verdict = compute_verdict_metrics(pairs)
        /\ ReportOf(v).example_results = results
    BY DEF ReportOf
  <1> HIDE DEF pairs
  <1>6. ReportOf(v).verdict.accuracy = Ratio(Cardinality(Right(results)), Len(examples))
    BY <1>3, <1>4, <1>5, AccuracyOfPairs
  <1>7. Errors(ReportOf(v)) = Cardinality(Wrong(results))
    BY <1>5 DEF Errors, Wrong
  <1> QED
    BY <1>1, <1>2, <1>6, <1>7, RightOrWrong DEF Scored, Ratio

(* The difference of two accuracies is the difference of the errors.       *)
LEMMA DifferenceOfAccuracies ==
  ASSUME NEW n \in Nat, NEW e \in Nat, NEW f \in Nat
  PROVE  Same(Minus(<<n - e, n>>, <<n - f, n>>), <<f - e, n>>)
  <1>1. Minus(<<n - e, n>>, <<n - f, n>>) = <<(n - e) * n - (n - f) * n, n * n>>
    BY DEF Minus
  <1>2. (n - e) * n - (n - f) * n = (f - e) * n
    OBVIOUS
  <1>3. ((f - e) * n) * n = (f - e) * (n * n)
    OBVIOUS
  <1> QED
    BY <1>1, <1>2, <1>3 DEF Same

-----------------------------------------------------------------------------
(* The files. *)

(* A ledger is written whole or cut short under its own path, and the      *)
(* reports still lead to the files they led to.                            *)
LEMMA LedgerWritten ==
  ASSUME OwnLedgers, Saved, NEW e, NEW v, NEW body, NEW content \in {None, body},
         ledger_files' = Put(ledger_files, LedgerPath(e, v, body), content),
         report_files' = report_files
  PROVE  /\ OwnLedgers' /\ Saved'
         /\ DOMAIN ledger_files' = DOMAIN ledger_files \union {LedgerPath(e, v, body)}
  <1> DEFINE path == LedgerPath(e, v, body)
  <1>1. path[3] = body
    BY DEF LedgerPath
  <1> HIDE DEF path
  <1>2. /\ DOMAIN ledger_files' = DOMAIN ledger_files \union {path}
        /\ ledger_files'[path] = content
        /\ \A p \in DOMAIN ledger_files : p # path => ledger_files'[p] = ledger_files[p]
    BY DEF Put, path
  <1>3. OwnLedgers'
    BY <1>1, <1>2 DEF OwnLedgers
  <1>4. Saved'
    BY <1>2 DEF Saved, Finished, Backed
  <1> QED
    BY <1>2, <1>3, <1>4 DEF path

(* A report that is whole and backed, or cut short, joins those on disk.   *)
LEMMA ReportWritten ==
  ASSUME OwnLedgers, Saved, NEW run, NEW report,
         report # None => Finished(report) /\ Backed(report.example_results),
         report_files' = Put(report_files, run, report),
         ledger_files' = ledger_files
  PROVE  OwnLedgers' /\ Saved'
  <1>1. /\ DOMAIN report_files' = DOMAIN report_files \union {run}
        /\ report_files'[run] = report
        /\ \A r \in DOMAIN report_files : r # run => report_files'[r] = report_files[r]
    BY DEF Put
  <1>2. OwnLedgers'
    BY DEF OwnLedgers
  <1>3. Saved'
    BY <1>1 DEF Saved, Finished, Backed
  <1> QED
    BY <1>2, <1>3

(* Nothing was written.                                                    *)
LEMMA FilesUntouched ==
  ASSUME OwnLedgers, Saved, UNCHANGED files
  PROVE  OwnLedgers' /\ Saved'
  BY DEF files, OwnLedgers, Saved, Finished, Backed

-----------------------------------------------------------------------------
(* The steps. *)

(* A call that ends without a comparison keeps nothing but the files.      *)
LEMMA EndKeeps ==
  ASSUME HarnessInv, session' = None, reports' = <<>>, results' = <<>>, deltas' = None,
         OwnLedgers', Saved'
  PROVE  HarnessInv'
  <1>1. Len(examples) \in Nat
    BY HarnessAssumption
  <1>2. InOrder' /\ InCall' /\ AllScored'
    BY <1>1, NothingYet DEF InOrder, InCall, AllScored
  <1>3. DeltasCompareWithFull'
    BY DEF DeltasCompareWithFull
  <1> QED
    BY <1>2, <1>3 DEF HarnessInv

(* The call is refused, or begins with nothing evaluated.                  *)
LEMMA RunAblationKeeps ==
  ASSUME HarnessInv, NEW variants \in VariantLists, NEW chosen, NEW persist,
         RunAblation(variants, chosen, persist)
  PROVE  HarnessInv'
  <1>1. /\ reports' = <<>> /\ results' = <<>> /\ deltas' = None
        /\ UNCHANGED files
    BY DEF RunAblation
  <1>2. OwnLedgers' /\ Saved'
    BY <1>1, FilesUntouched DEF HarnessInv
  <1>3. CASE session' = None
    BY <1>1, <1>2, <1>3, EndKeeps
  <1>4. CASE session' # None
    <2>1. /\ \E v \in ToSet(variants) : v.name = "full"
          /\ session' = [variants |-> variants, config |-> chosen, persist |-> persist]
      BY <1>4 DEF RunAblation
    <2>2. variants \in Seq(ToSet(variants)) /\ Len(variants) \in Nat /\ Len(examples) \in Nat
      BY HarnessAssumption
    <2>3. session'.variants = variants
      BY <2>1
    <2>4. InCall'
      BY <1>1, <2>1, <2>2, <2>3, NothingYet DEF InCall
    <2>5. InOrder' /\ AllScored'
      BY <1>1, <2>2, NothingYet DEF InOrder, AllScored, Backed
    <2>6. DeltasCompareWithFull'
      BY <1>1 DEF DeltasCompareWithFull
    <2> QED
      BY <1>2, <2>4, <2>5, <2>6 DEF HarnessInv
  <1> QED
    BY <1>3, <1>4

(* One more example, with its ledger on disk if the call persists.         *)
LEMMA EvaluateExampleKeeps ==
  ASSUME HarnessInv, EvaluateExample
  PROVE  HarnessInv'
  <1>1. /\ session # None /\ session' = session /\ deltas' = deltas /\ reports' = reports
        /\ report_files' = report_files /\ Len(results) < Len(examples)
    BY DEF EvaluateExample, Evaluating
  <1>2. PICK body \in Answers :
          LET path == IF session.persist THEN LedgerPath(example, variant, body) ELSE None
          IN  /\ results' = Append(results, ResultOf(example, body, path))
              /\ ledger_files' = IF session.persist THEN Put(ledger_files, path, body)
                                 ELSE ledger_files
    BY DEF EvaluateExample
  <1> DEFINE path == IF session.persist THEN LedgerPath(example, variant, body) ELSE None
             result == ResultOf(example, body, path)
  <1>3. /\ result.example_id = examples[Len(results) + 1].example_id
        /\ result.ledger_fingerprint = body /\ result.ledger_path = path
    BY DEF ResultOf, example
  <1>4. /\ OwnLedgers' /\ Saved'
        /\ DOMAIN ledger_files \subseteq DOMAIN ledger_files'
        /\ session.persist => path \in DOMAIN ledger_files' /\ path[3] = body
    <2>1. CASE session.persist
      <3>1. ledger_files' = Put(ledger_files, LedgerPath(example, variant, body), body)
        BY <1>2, <2>1
      <3>2. LedgerPath(example, variant, body)[3] = body
        BY DEF LedgerPath
      <3> QED
        BY <1>1, <2>1, <3>1, <3>2, LedgerWritten DEF HarnessInv
    <2>2. CASE ~session.persist
      BY <1>1, <1>2, <2>2, FilesUntouched DEF HarnessInv, files
    <2> QED
      BY <2>1, <2>2
  <1>5. results' = Append(results, result)
    BY <1>2
  <1> HIDE DEF path, result
  <1>6. /\ results \in Seq(ToSet(results)) /\ Len(results) \in Nat /\ Len(examples) \in Nat
        /\ DOMAIN results = 1..Len(results)
    BY HarnessAssumption, Members DEF HarnessInv, InOrder
  <1>7. /\ results' \in Seq(ToSet(results')) /\ Len(results') = Len(results) + 1
        /\ DOMAIN results' = 1..(Len(results) + 1)
        /\ \A i \in 1..Len(results) : results'[i] = results[i]
        /\ results'[Len(results) + 1] = result
    BY <1>5, <1>6, Appended, Members
  <1>8. \A i \in 1..(Len(results) + 1) : i \in 1..Len(results) \/ i = Len(results) + 1
    BY <1>6
  <1>9. session.persist => Backed(results)'
    BY <1>1, <1>3, <1>4, <1>6, <1>7, <1>8 DEF HarnessInv, InOrder, Backed
  <1>10. InOrder'
    BY <1>1, <1>3, <1>6, <1>7, <1>8, <1>9 DEF HarnessInv, InOrder
  <1>11. InCall' /\ AllScored' /\ DeltasCompareWithFull'
    BY <1>1 DEF HarnessInv, InCall, AllScored, DeltasCompareWithFull
  <1> QED
    BY <1>4, <1>10, <1>11 DEF HarnessInv

(* The report of a variant is of the whole dataset, on disk and in memory. *)
LEMMA FinishVariantKeeps ==
  ASSUME HarnessInv, FinishVariant
  PROVE  HarnessInv'
  <1> DEFINE report == ReportOf(variant)
  <1>1. /\ session # None /\ session' = session /\ deltas' = deltas /\ results' = <<>>
        /\ ledger_files' = ledger_files /\ reports' = Append(reports, report)
        /\ Len(results) = Len(examples) /\ Len(reports) < Len(session.variants)
    BY DEF FinishVariant, Evaluating
  <1>2. /\ report.example_results = results /\ report.example_count = Len(results)
        /\ report.variant_name = session.variants[Len(reports) + 1].name
    BY DEF ReportOf, variant
  <1>3. Scored(report)
    BY <1>1, ReportScored DEF HarnessInv
  <1>4. Finished(report)
    <2>1. DOMAIN results = 1..Len(results) /\ DOMAIN examples = 1..Len(examples)
      BY Members, HarnessAssumption DEF HarnessInv, InOrder
    <2>2. \A i \in DOMAIN results : results[i].example_id = examples[i].example_id
      BY <2>1 DEF HarnessInv, InOrder
    <2> QED
      BY <1>1, <1>2, <2>1, <2>2 DEF Finished
  <1>5. session.persist => Backed(report.example_results)
    BY <1>1, <1>2 DEF HarnessInv, InOrder
  <1>6. OwnLedgers' /\ Saved'
    <2>1. CASE session.persist
      <3>1. report_files' = Put(report_files, RunId(variant), report)
        BY <2>1 DEF FinishVariant
      <3> HIDE DEF report
      <3> QED
        BY <1>1, <1>4, <1>5, <2>1, <3>1, ReportWritten DEF HarnessInv
    <2>2. CASE ~session.persist
      BY <1>1, <2>2, FilesUntouched DEF HarnessInv, FinishVariant, files
    <2> QED
      BY <2>1, <2>2
  <1> HIDE DEF report
  <1>7. /\ reports \in Seq(ToSet(reports)) /\ Len(reports) \in Nat
        /\ Len(session.variants) \in Nat /\ Len(examples) \in Nat
    BY <1>1, Members, HarnessAssumption DEF HarnessInv, AllScored, InCall
  <1>8. /\ reports' \in Seq(ToSet(reports')) /\ Len(reports') = Len(reports) + 1
        /\ \A i \in 1..Len(reports) : reports'[i] = reports[i]
        /\ reports'[Len(reports) + 1] = report
    BY <1>1, <1>7, Appended
  <1>9. \A i \in 1..(Len(reports) + 1) : i \in 1..Len(reports) \/ i = Len(reports) + 1
    BY <1>7
  <1>10. AllScored'
    BY <1>3, <1>8, <1>9 DEF HarnessInv, AllScored, Scored
  <1>11. InCall'
    BY <1>1, <1>2, <1>7, <1>8, <1>9 DEF HarnessInv, InCall
  <1>12. InOrder'
    BY <1>1, <1>7, NothingYet DEF InOrder, Backed
  <1>13. DeltasCompareWithFull'
    BY <1>1 DEF HarnessInv, InCall, DeltasCompareWithFull
  <1> QED
    BY <1>6, <1>10, <1>11, <1>12, <1>13 DEF HarnessInv

(* contribution_deltas: the reports compared are those of the two names.   *)
LEMMA FinishAblationKeeps ==
  ASSUME HarnessInv, FinishAblation
  PROVE  HarnessInv'
  <1>1. /\ session # None /\ session' = None /\ reports' = reports /\ results' = results
        /\ UNCHANGED files /\ Len(reports) = Len(session.variants)
    BY DEF FinishAblation
  <1>2. /\ reports \in Seq(ToSet(reports)) /\ Len(reports) \in Nat
        /\ DOMAIN reports = 1..Len(reports)
        /\ \A x : x \in ToSet(reports) <=> \E i \in 1..Len(reports) : x = reports[i]
    BY Members DEF HarnessInv, AllScored
  <1>3. \A name : Named(name) # {} =>
          /\ reports[First(Named(name))] \in ToSet(reports)
          /\ reports[First(Named(name))].variant_name = name
          /\ Scored(reports[First(Named(name))])
    <2> SUFFICES ASSUME NEW name, Named(name) # {}
                 PROVE  /\ reports[First(Named(name))] \in ToSet(reports)
                        /\ reports[First(Named(name))].variant_name = name
                        /\ Scored(reports[First(Named(name))])
      OBVIOUS
    <2>1. Named(name) \subseteq Nat
      BY <1>2 DEF Named
    <2>2. First(Named(name)) \in Named(name)
      BY <2>1, FirstIsIn
    <2>3. First(Named(name)) \in 1..Len(reports)
          /\ reports[First(Named(name))].variant_name = name
      BY <1>2, <2>2 DEF Named
    <2> QED
      BY <1>2, <2>3 DEF HarnessInv, AllScored
  <1>4. Named("full") # {}
    <2>1. PICK v \in ToSet(session.variants) : v.name = "full"
      BY <1>1 DEF HarnessInv, InCall
    <2>2. PICK i \in 1..Len(session.variants) : v = session.variants[i]
      BY <1>1, <2>1, Members DEF HarnessInv, InCall
    <2>3. reports[i].variant_name = "full"
      BY <1>1, <2>1, <2>2 DEF HarnessInv, InCall
    <2> QED
      BY <1>1, <1>2, <2>2, <2>3 DEF Named
  <1>5. Len(examples) \in Nat
    BY HarnessAssumption
  <1>6. DeltasCompareWithFull'
    <2> SUFFICES ASSUME NEW component \in DOMAIN deltas'
                 PROVE  \E full, ablated \in ToSet(reports) :
                          /\ full.variant_name = "full"
                          /\ ablated.variant_name = AblatedVariantName[component]
                          /\ Same(deltas'[component],
                                  <<Errors(ablated) - Errors(full), Len(examples)>>)
      BY <1>1, Zenon DEF DeltasCompareWithFull
    <2> DEFINE name == AblatedVariantName[component]
               ablated == reports[First(Named(name))]
    <2>1. Named(name) # {}
          /\ deltas'[component] = Minus(FullReport.verdict.accuracy, ablated.verdict.accuracy)
      BY DEF FinishAblation
    <2>2. /\ FullReport \in ToSet(reports) /\ FullReport.variant_name = "full"
          /\ Scored(FullReport)
      BY <1>3, <1>4 DEF FullReport
    <2>3. ablated \in ToSet(reports) /\ ablated.variant_name = name /\ Scored(ablated)
      BY <1>3, <2>1
    <2> HIDE DEF ablated, name
    <2>4. Same(deltas'[component],
               <<Errors(ablated) - Errors(FullReport), Len(examples)>>)
      BY <1>5, <2>1, <2>2, <2>3, DifferenceOfAccuracies DEF Scored
    <2> QED
      BY <2>2, <2>3, <2>4 DEF name
  <1>7. OwnLedgers' /\ Saved'
    BY <1>1, FilesUntouched DEF HarnessInv
  <1>8. InOrder' /\ InCall' /\ AllScored'
    BY <1>1 DEF HarnessInv, InOrder, InCall, AllScored
  <1> QED
    BY <1>6, <1>7, <1>8 DEF HarnessInv

(* A call that fails or dies, between two steps or within a write.         *)
LEMMA FailureKeeps ==
  ASSUME HarnessInv, ExampleFails \/ Crash \/ CrashInLedgerFile \/ CrashInReportFile
  PROVE  HarnessInv'
  <1>1. session # None /\ session' = None /\ reports' = <<>> /\ results' = <<>>
    BY DEF ExampleFails, Evaluating, Crash, CrashInLedgerFile, CrashInReportFile, Dies
  <1>2. deltas' = None
    BY <1>1 DEF HarnessInv, InCall, ExampleFails, Crash, CrashInLedgerFile,
                CrashInReportFile, Dies
  <1>3. OwnLedgers' /\ Saved'
    <2>1. CASE ExampleFails \/ Crash
      BY <2>1, FilesUntouched DEF HarnessInv, ExampleFails, Crash
    <2>2. CASE CrashInLedgerFile
      <3>1. PICK body \in Answers :
              ledger_files' = Put(ledger_files, LedgerPath(example, variant, body), None)
        BY <2>2 DEF CrashInLedgerFile
      <3>2. report_files' = report_files
        BY <2>2 DEF CrashInLedgerFile
      <3> QED
        BY <3>1, <3>2, LedgerWritten DEF HarnessInv
    <2>3. CASE CrashInReportFile
      BY <2>3, ReportWritten DEF HarnessInv, CrashInReportFile
    <2> QED
      BY <2>1, <2>2, <2>3
  <1> QED
    BY <1>1, <1>2, <1>3, EndKeeps

(* Every reachable state has HarnessInv.                                   *)
THEOREM HarnessInvariant == Spec => []HarnessInv
  <1>1. Init => HarnessInv
    <2> SUFFICES ASSUME Init PROVE HarnessInv
      OBVIOUS
    <2>1. Len(examples) \in Nat
      BY HarnessAssumption
    <2>2. OwnLedgers /\ Saved
      BY NothingYet DEF Init, OwnLedgers, Saved
    <2>3. InOrder /\ InCall /\ AllScored
      BY <2>1, NothingYet DEF Init, InOrder, InCall, AllScored
    <2>4. DeltasCompareWithFull
      BY DEF Init, DeltasCompareWithFull
    <2> QED
      BY <2>2, <2>3, <2>4 DEF HarnessInv
  <1>2. HarnessInv /\ [Next]_vars => HarnessInv'
    <2> SUFFICES ASSUME HarnessInv, [Next]_vars PROVE HarnessInv'
      OBVIOUS
    <2>1. CASE \E variants \in VariantLists, chosen \in PipelineConfig, persist \in BOOLEAN :
                 RunAblation(variants, chosen, persist)
      BY <2>1, RunAblationKeeps
    <2>2. CASE EvaluateExample
      BY <2>2, EvaluateExampleKeeps
    <2>3. CASE FinishVariant
      BY <2>3, FinishVariantKeeps
    <2>4. CASE FinishAblation
      BY <2>4, FinishAblationKeeps
    <2>5. CASE ExampleFails \/ Crash \/ CrashInLedgerFile \/ CrashInReportFile
      BY <2>5, FailureKeeps
    <2>6. CASE UNCHANGED vars
      <3>1. UNCHANGED <<session, reports, results, deltas, ledger_files, report_files>>
        BY <2>6 DEF vars, memory, files
      <3>2. OwnLedgers' /\ Saved'
        BY <3>1, FilesUntouched DEF HarnessInv, files
      <3>3. InOrder' /\ InCall' /\ AllScored'
        BY <3>1 DEF HarnessInv, InOrder, InCall, AllScored, Backed
      <3>4. DeltasCompareWithFull'
        BY <3>1 DEF HarnessInv, DeltasCompareWithFull
      <3> QED
        BY <3>2, <3>3, <3>4 DEF HarnessInv
    <2> QED
      BY <2>1, <2>2, <2>3, <2>4, <2>5, <2>6 DEF Next
  <1> QED
    BY <1>1, <1>2, PTL DEF Spec

(* evaluate_variant, save_report, save_ledger: whatever failed or crashed, *)
(* a report that can be read is of the whole dataset, and its results lead *)
(* to the ledgers they were computed from.                                 *)
THEOREM SavedReportsAlwaysBacked == Spec => []SavedReportsAreBacked
  <1>1. HarnessInv => SavedReportsAreBacked
    <2> SUFFICES ASSUME HarnessInv, NEW report \in Readable
                 PROVE  /\ Finished(report)
                        /\ \A i \in DOMAIN report.example_results :
                             LET result == report.example_results[i]
                             IN  /\ result.ledger_path \in DOMAIN ledger_files
                                 /\ ledger_files[result.ledger_path]
                                      \in {None, result.ledger_fingerprint}
      BY DEF SavedReportsAreBacked
    <2>1. Finished(report) /\ Backed(report.example_results)
      BY DEF HarnessInv, Saved, Readable
    <2> QED
      BY <2>1 DEF HarnessInv, OwnLedgers, Backed
  <1> QED
    BY <1>1, HarnessInvariant, PTL

(* run_ablation: a contribution is the difference to the full variant, in  *)
(* whatever order the variants were evaluated.                             *)
THEOREM DeltasAlwaysCompare == Spec => []DeltasCompareWithFull
  <1>1. HarnessInv => DeltasCompareWithFull
    BY DEF HarnessInv
  <1> QED
    BY <1>1, HarnessInvariant, PTL

-----------------------------------------------------------------------------
(* Sums over finite sets. *)

(* What the folds take from a set first. *)
One(s) == CHOOSE x \in s : TRUE

(* What holds of a set whenever it holds of the set without any one of its *)
(* elements, holds of every finite set.                                    *)
LEMMA SubsetInduction ==
  ASSUME NEW S, IsFiniteSet(S), NEW good,
         \A s \in SUBSET S : (\A x \in s : s \ {x} \in good) => s \in good
  PROVE  S \in good
  <1> DEFINE bad == {n \in Nat : \E s \in SUBSET S : Cardinality(s) = n /\ s \notin good}
             least == First(bad)
  <1>1. \A s \in SUBSET S : IsFiniteSet(s) /\ Cardinality(s) \in Nat
    BY FS_Subset, FS_CardinalityType
  <1>2. SUFFICES ASSUME bad # {} PROVE FALSE
    BY <1>1
  <1>3. bad \subseteq Nat
    OBVIOUS
  <1>4. least \in bad /\ \A n \in bad : least <= n
    BY <1>2, <1>3, FirstIsIn, Zenon
  <1>5. PICK s \in SUBSET S : Cardinality(s) = least /\ s \notin good
    BY <1>4
  <1> HIDE DEF least
  <1>6. PICK x \in s : s \ {x} \notin good
    BY <1>5
  <1>7. /\ Cardinality(s) \in Nat /\ Cardinality(s \ {x}) = Cardinality(s) - 1
        /\ Cardinality(s \ {x}) \in Nat
    BY <1>1, <1>6, FS_RemoveElement
  <1>8. Cardinality(s \ {x}) \in bad
    BY <1>6, <1>7
  <1> HIDE DEF bad
  <1>9. least <= Cardinality(s \ {x})
    BY <1>4, <1>8
  <1> QED
    BY <1>5, <1>7, <1>9

(* g is the fold of the steps over all subsets of S. *)
FoldOver(S, V, base, step, g) ==
  /\ g \in [SUBSET S -> V]
  /\ g[{}] = base
  /\ \A s \in SUBSET S : s # {} => g[s] = step[<<One(s), g[s \ {One(s)}]>>]

(* A fold over a finite set exists.                                        *)
LEMMA FoldExists ==
  ASSUME NEW S, IsFiniteSet(S), NEW V, NEW base \in V, NEW step \in [S \X V -> V]
  PROVE  \E g : FoldOver(S, V, base, step, g)
  <1> DEFINE upto(n) == {s \in SUBSET S : Cardinality(s) <= n}
             folds(n, g) ==
               /\ g \in [upto(n) -> V]
               /\ g[{}] = base
               /\ \A s \in upto(n) : s # {} => g[s] = step[<<One(s), g[s \ {One(s)}]>>]
             bad == {n \in Nat : ~ \E g : folds(n, g)}
             least == First(bad)
  <1>1. \A s \in SUBSET S : IsFiniteSet(s) /\ Cardinality(s) \in Nat
    BY FS_Subset, FS_CardinalityType
  <1>2. \A s : s # {} => One(s) \in s
    BY DEF One
  <1>3. ASSUME NEW n \in Nat, NEW s \in upto(n + 1), s # {}
        PROVE  s \ {One(s)} \in upto(n) /\ One(s) \in S
    <2>1. One(s) \in s
      BY <1>2, <1>3
    <2>2. Cardinality(s \ {One(s)}) = Cardinality(s) - 1 /\ Cardinality(s) \in Nat
      BY <1>1, <2>1, FS_RemoveElement
    <2> QED
      BY <2>1, <2>2
  <1>4. {} \in upto(0) /\ \A s \in upto(0) : s = {}
    <2>1. \A s \in SUBSET S : Cardinality(s) <= 0 => s = {}
      BY <1>1, FS_EmptySet
    <2> QED
      BY <2>1, FS_EmptySet
  <1>5. \E g : folds(0, g)
    <2> DEFINE g == [s \in upto(0) |-> base]
    <2>1. folds(0, g)
      BY <1>4
    <2> QED
      BY <2>1
  <1>6. ASSUME NEW n \in Nat, NEW g, folds(n, g)
        PROVE  \E h : folds(n + 1, h)
    <2> DEFINE h == [s \in upto(n + 1) |->
                       IF s \in upto(n) THEN g[s] ELSE step[<<One(s), g[s \ {One(s)}]>>]]
    <2>1. \A s \in upto(n + 1) : s \notin upto(n) => s # {}
      BY FS_EmptySet
    <2>2. upto(n) \subseteq upto(n + 1) /\ {} \in upto(n)
      <3>1. \A s \in SUBSET S : Cardinality(s) <= n => Cardinality(s) <= n + 1
        BY <1>1
      <3> QED
        BY <3>1, FS_EmptySet
    <2> HIDE DEF upto
    <2>3. \A s \in upto(n + 1) : s \notin upto(n) =>
            h[s] = step[<<One(s), g[s \ {One(s)}]>>] /\ h[s] \in V
      BY <1>3, <1>6, <2>1
    <2>4. \A s \in upto(n) : h[s] = g[s]
      BY <2>2
    <2>5. h \in [upto(n + 1) -> V]
      BY <1>6, <2>3
    <2>6. \A s \in upto(n + 1) : s # {} => h[s] = step[<<One(s), h[s \ {One(s)}]>>]
      BY <1>3, <1>6, <2>3, <2>4
    <2> HIDE DEF h
    <2>7. folds(n + 1, h)
      BY <1>6, <2>2, <2>4, <2>5, <2>6
    <2> QED
      BY <2>7
  <1>7. ASSUME bad # {} PROVE FALSE
    <2>1. bad \subseteq Nat
      OBVIOUS
    <2>2. least \in bad /\ \A n \in bad : least <= n
      BY <1>7, <2>1, FirstIsIn, Zenon
    <2> HIDE DEF least, folds
    <2>3. least \in Nat /\ least # 0
      BY <1>5, <2>2
    <2>4. least - 1 \in Nat /\ least - 1 \notin bad /\ (least - 1) + 1 = least
      BY <2>2, <2>3
    <2>5. \E g : folds(least - 1, g)
      BY <2>4
    <2>6. \E h : folds(least, h)
      BY <1>6, <2>4, <2>5
    <2> QED
      BY <2>2, <2>6
  <1>8. PICK g : folds(Cardinality(S), g)
    BY <1>1, <1>7
  <1>9. upto(Cardinality(S)) = SUBSET S
    BY FS_Subset
  <1> QED
    BY <1>8, <1>9 DEF FoldOver

(* A sum, as the fold goes through it.                                     *)
LEMMA SumUnfolds ==
  ASSUME NEW S, IsFiniteSet(S), NEW f, \A x \in S : f[x] \in Nat
  PROVE  \E g \in [SUBSET S -> Nat] :
           /\ g[{}] = 0
           /\ \A s \in SUBSET S : s # {} => g[s] = f[One(s)] + g[s \ {One(s)}]
           /\ g[S] = SumFunctionOnSet(f, S)
  <1> DEFINE step == [p \in S \X Nat |-> f[p[1]] + p[2]]
             body(g) == [s \in SUBSET S |->
                           IF s = {} THEN 0 ELSE f[One(s)] + g[s \ {One(s)}]]
             iter == CHOOSE g : g = body(g)
  <1>1. step \in [S \X Nat -> Nat]
    OBVIOUS
  <1>2. \A s \in SUBSET S : s # {} => One(s) \in S /\ s \ {One(s)} \in SUBSET S
    BY DEF One
  <1>3. PICK g : FoldOver(S, Nat, 0, step, g)
    <2>1. 0 \in Nat
      OBVIOUS
    <2> HIDE DEF step
    <2> QED
      BY <1>1, <2>1, FoldExists
  <1>4. /\ g \in [SUBSET S -> Nat] /\ g[{}] = 0
        /\ \A s \in SUBSET S : s # {} => g[s] = f[One(s)] + g[s \ {One(s)}]
    BY <1>2, <1>3 DEF FoldOver
  <1>5. g = body(g)
    BY <1>4
  <1>6. iter = body(iter)
    BY <1>5
  <1>7. SumFunctionOnSet(f, S) = iter[S]
    BY DEF SumFunctionOnSet, FoldFunctionOnSet, MapThenFoldSet, One
  <1> HIDE DEF iter
  <1> DEFINE good == {s \in SUBSET S : iter[s] = g[s]}
  <1>8. \A s \in SUBSET S : (\A x \in s : s \ {x} \in good) => s \in good
    <2> SUFFICES ASSUME NEW s \in SUBSET S, \A x \in s : s \ {x} \in good
                 PROVE  iter[s] = g[s]
      OBVIOUS
    <2>1. CASE s = {}
      BY <1>4, <1>6, <2>1
    <2>2. CASE s # {}
      <3>1. One(s) \in s
        BY <2>2 DEF One
      <3>2. iter[s \ {One(s)}] = g[s \ {One(s)}]
        BY <3>1
      <3> QED
        BY <1>4, <1>6, <2>2, <3>2
    <2> QED
      BY <2>1, <2>2
  <1>9. S \in good
    BY <1>8, SubsetInduction, Zenon
  <1> QED
    BY <1>4, <1>7, <1>9

(* Of two sums over one set, that with the lesser summands is no greater.  *)
LEMMA SumsCompare ==
  ASSUME NEW S, IsFiniteSet(S), NEW e, NEW f,
         \A x \in S : e[x] \in Nat /\ f[x] \in Nat /\ e[x] <= f[x]
  PROVE  SumFunctionOnSet(e, S) <= SumFunctionOnSet(f, S)
  <1>1. PICK g \in [SUBSET S -> Nat] :
          /\ g[{}] = 0
          /\ \A s \in SUBSET S : s # {} => g[s] = e[One(s)] + g[s \ {One(s)}]
          /\ g[S] = SumFunctionOnSet(e, S)
    BY SumUnfolds
  <1>2. PICK h \in [SUBSET S -> Nat] :
          /\ h[{}] = 0
          /\ \A s \in SUBSET S : s # {} => h[s] = f[One(s)] + h[s \ {One(s)}]
          /\ h[S] = SumFunctionOnSet(f, S)
    BY SumUnfolds
  <1> DEFINE good == {s \in SUBSET S : g[s] <= h[s]}
  <1>3. \A s \in SUBSET S : (\A x \in s : s \ {x} \in good) => s \in good
    <2> SUFFICES ASSUME NEW s \in SUBSET S, \A x \in s : s \ {x} \in good
                 PROVE  g[s] <= h[s]
      OBVIOUS
    <2>1. CASE s = {}
      BY <1>1, <1>2, <2>1
    <2>2. CASE s # {}
      <3>1. One(s) \in s
        BY <2>2 DEF One
      <3>2. /\ g[s \ {One(s)}] <= h[s \ {One(s)}]
            /\ g[s \ {One(s)}] \in Nat /\ h[s \ {One(s)}] \in Nat
        BY <3>1
      <3>3. e[One(s)] \in Nat /\ f[One(s)] \in Nat /\ e[One(s)] <= f[One(s)]
        BY <3>1
      <3>4. g[s] = e[One(s)] + g[s \ {One(s)}] /\ h[s] = f[One(s)] + h[s \ {One(s)}]
        BY <1>1, <1>2, <2>2
      <3> QED
        BY <3>2, <3>3, <3>4
    <2> QED
      BY <2>1, <2>2
  <1>4. S \in good
    BY <1>3, SubsetInduction, Zenon
  <1> QED
    BY <1>1, <1>2, <1>4

OfKind(I, kind, x)   == {i \in I : kind[i] = x}
OfKinds(I, kind, S) == {i \in I : kind[i] \in S}

(* The counts of the kinds, summed up over some kinds, count what is of    *)
(* one of them.                                                            *)
LEMMA SumOfKinds ==
  ASSUME NEW S, IsFiniteSet(S), NEW I, IsFiniteSet(I), NEW kind, NEW f,
         \A x \in S : f[x] = Cardinality(OfKind(I, kind, x))
  PROVE  SumFunctionOnSet(f, S) = Cardinality(OfKinds(I, kind, S))
  <1> DEFINE of(s) == OfKinds(I, kind, s)
             just(x) == OfKind(I, kind, x)
  <1>1. /\ \A s : IsFiniteSet(of(s)) /\ Cardinality(of(s)) \in Nat
        /\ \A x : IsFiniteSet(just(x)) /\ Cardinality(just(x)) \in Nat
    <2>1. \A J \in SUBSET I : IsFiniteSet(J) /\ Cardinality(J) \in Nat
      BY FS_Subset, FS_CardinalityType
    <2> QED
      BY <2>1 DEF OfKind, OfKinds
  <1>2. PICK g \in [SUBSET S -> Nat] :
          /\ g[{}] = 0
          /\ \A s \in SUBSET S : s # {} => g[s] = f[One(s)] + g[s \ {One(s)}]
          /\ g[S] = SumFunctionOnSet(f, S)
    <2>1. \A x \in S : f[x] \in Nat
      BY <1>1
    <2> QED
      BY <2>1, SumUnfolds, Zenon
  <1> DEFINE good == {s \in SUBSET S : g[s] = Cardinality(of(s))}
  <1>3. \A s \in SUBSET S : (\A x \in s : s \ {x} \in good) => s \in good
    <2> SUFFICES ASSUME NEW s \in SUBSET S, \A x \in s : s \ {x} \in good
                 PROVE  g[s] = Cardinality(of(s))
      OBVIOUS
    <2>1. CASE s = {}
      <3>1. of(s) = {}
        BY <2>1 DEF OfKinds
      <3> QED
        BY <1>2, <2>1, <3>1, FS_EmptySet
    <2>2. CASE s # {}
      <3> DEFINE x == One(s)
                 rest == s \ {x}
      <3>1. x \in s
        BY <2>2 DEF One
      <3> HIDE DEF x
      <3>2. g[rest] = Cardinality(of(rest)) /\ f[x] = Cardinality(just(x))
        BY <3>1
      <3>3. of(s) = just(x) \union of(rest) /\ just(x) \intersect of(rest) = {}
        BY <3>1 DEF OfKind, OfKinds
      <3> HIDE DEF of, just, rest
      <3>4. Cardinality(of(s)) = Cardinality(just(x)) + Cardinality(of(rest)) - 0
        BY <1>1, <3>3, FS_Union, FS_EmptySet
      <3>5. g[s] = f[x] + g[rest]
        BY <1>2, <2>2 DEF x, rest
      <3> QED
        BY <1>1, <3>2, <3>4, <3>5
    <2> QED
      BY <2>1, <2>2
  <1>4. S \in good
    <2> HIDE DEF of
    <2> QED
      BY <1>3, SubsetInduction, Zenon
  <1> QED
    BY <1>2, <1>4

-----------------------------------------------------------------------------
(* Ratios. *)

(* What Ratio returns: a share with a denominator that is not zero.        *)
Share == Nat \X (Nat \ {0})

(* The sum of ratios, as the fold goes through it.                         *)
LEMMA PlusUnfolds ==
  ASSUME NEW S, IsFiniteSet(S), NEW f, \A x \in S : f[x] \in Share
  PROVE  \E g \in [SUBSET S -> Share] :
           /\ g[{}] = <<0, 1>>
           /\ \A s \in SUBSET S : s # {} => g[s] = Plus(f[One(s)], g[s \ {One(s)}])
           /\ g[S] = FoldFunctionOnSet(Plus, <<0, 1>>, f, S)
  <1> DEFINE step == [p \in S \X Share |-> Plus(f[p[1]], p[2])]
             body(g) == [s \in SUBSET S |->
                           IF s = {} THEN <<0, 1>> ELSE Plus(f[One(s)], g[s \ {One(s)}])]
             iter == CHOOSE g : g = body(g)
  <1>1. step \in [S \X Share -> Share]
    <2>1. ASSUME NEW p \in Share, NEW q \in Share
          PROVE  Plus(p, q) \in Share
      <3>1. /\ p[1] \in Nat /\ p[2] \in Nat /\ p[2] # 0
            /\ q[1] \in Nat /\ q[2] \in Nat /\ q[2] # 0
        BY <2>1 DEF Share
      <3>2. /\ p[1] * q[2] \in Nat /\ q[1] * p[2] \in Nat
            /\ p[2] * q[2] \in Nat /\ p[2] * q[2] # 0
        BY <3>1
      <3>3. p[1] * q[2] + q[1] * p[2] \in Nat
        BY <3>2
      <3> QED
        BY <3>2, <3>3 DEF Plus, Share
    <2> HIDE DEF step
    <2>2. \A p \in S \X Share : Plus(f[p[1]], p[2]) \in Share
      BY <2>1
    <2> QED
      BY <2>2 DEF step
  <1>2. \A s \in SUBSET S : s # {} => One(s) \in S /\ s \ {One(s)} \in SUBSET S
    BY DEF One
  <1>3. PICK g : FoldOver(S, Share, <<0, 1>>, step, g)
    <2>1. <<0, 1>> \in Share
      BY DEF Share
    <2> HIDE DEF step
    <2> QED
      BY <1>1, <2>1, FoldExists
  <1>4. /\ g \in [SUBSET S -> Share] /\ g[{}] = <<0, 1>>
        /\ \A s \in SUBSET S : s # {} => g[s] = Plus(f[One(s)], g[s \ {One(s)}])
    BY <1>2, <1>3 DEF FoldOver
  <1>5. g = body(g)
    BY <1>4
  <1>6. iter = body(iter)
    BY <1>5
  <1>7. FoldFunctionOnSet(Plus, <<0, 1>>, f, S) = iter[S]
    BY DEF FoldFunctionOnSet, MapThenFoldSet, One
  <1> HIDE DEF iter
  <1> DEFINE good == {s \in SUBSET S : iter[s] = g[s]}
  <1>8. \A s \in SUBSET S : (\A x \in s : s \ {x} \in good) => s \in good
    <2> SUFFICES ASSUME NEW s \in SUBSET S, \A x \in s : s \ {x} \in good
                 PROVE  iter[s] = g[s]
      OBVIOUS
    <2>1. CASE s = {}
      BY <1>4, <1>6, <2>1
    <2>2. CASE s # {}
      <3>1. One(s) \in s
        BY <2>2 DEF One
      <3>2. iter[s \ {One(s)}] = g[s \ {One(s)}]
        BY <3>1
      <3> QED
        BY <1>4, <1>6, <2>2, <3>2
    <2> QED
      BY <2>1, <2>2
  <1>9. S \in good
    BY <1>8, SubsetInduction, Zenon
  <1> QED
    BY <1>4, <1>7, <1>9

(* Multiplying by a positive number keeps the order, and so does dividing. *)
LEMMA Scaling ==
  ASSUME NEW x \in Int, NEW y \in Int, NEW k \in Nat, k # 0
  PROVE  x <= y <=> x * k <= y * k
  <1>1. x <= y => x * k <= y * k
    OBVIOUS
  <1>2. x > y => x * k > y * k
    OBVIOUS
  <1> QED
    BY <1>1, <1>2

(* If l/m is at most the mean of n numbers with the sum a/b, then it or    *)
(* c/d is at most the mean of these numbers and c/d.                       *)
LEMMA MeanOfOneMore ==
  ASSUME NEW a \in Int, NEW b \in Nat, b # 0, NEW n \in Nat, n # 0,
         NEW c \in Int, NEW d \in Nat, d # 0,
         NEW l \in Int, NEW m \in Nat, m # 0,
         l * (b * n) <= a * m
  PROVE  \/ l * ((d * b) * (n + 1)) <= (c * b + a * d) * m
         \/ c * ((d * b) * (n + 1)) <= (c * b + a * d) * d
  <1>1. /\ b * n \in Nat /\ b * n # 0 /\ l * (b * n) \in Int /\ a * m \in Int
        /\ l * d \in Int /\ c * m \in Int /\ a * d \in Int /\ c * (b * n) \in Int
    OBVIOUS
  <1>2. (l * (b * n)) * d <= (a * m) * d
    BY <1>1, Scaling
  <1>3. CASE l * d <= c * m
    <2>1. (l * d) * b <= (c * m) * b
      BY <1>1, <1>3, Scaling
    <2>2. l * ((d * b) * (n + 1)) = (l * (b * n)) * d + (l * d) * b
      OBVIOUS
    <2>3. (c * b + a * d) * m = (c * m) * b + (a * m) * d
      OBVIOUS
    <2> QED
      BY <1>1, <1>2, <2>1, <2>2, <2>3
  <1>4. CASE c * m <= l * d
    <2>1. (c * m) * (b * n) <= (l * d) * (b * n)
      BY <1>1, <1>4, Scaling
    <2>2. (l * d) * (b * n) = (l * (b * n)) * d /\ (a * m) * d = (a * d) * m
      OBVIOUS
    <2>3. (c * m) * (b * n) = (c * (b * n)) * m
      OBVIOUS
    <2>4. (c * (b * n)) * m <= (a * d) * m
      BY <1>1, <1>2, <2>1, <2>2, <2>3
    <2>5. c * (b * n) <= a * d
      BY <1>1, <2>4, Scaling
    <2>6. (c * (b * n)) * d <= (a * d) * d
      BY <1>1, <2>5, Scaling
    <2>7. c * ((d * b) * (n + 1)) = (c * (b * n)) * d + (c * b) * d
      OBVIOUS
    <2>8. (c * b + a * d) * d = (c * b) * d + (a * d) * d
      OBVIOUS
    <2> QED
      BY <1>1, <2>6, <2>7, <2>8
  <1> QED
    BY <1>1, <1>3, <1>4

(* _average_retrieval: a mean lies within the values it is the mean of.    *)
LEMMA MeanMeaning ==
  ASSUME NEW S, IsFiniteSet(S), S # {}, NEW f, DOMAIN f = S, \A x \in S : f[x] \in Share
  PROVE  /\ Mean(f) \in Share
         /\ \E low, high \in S : AtMost(f[low], Mean(f)) /\ AtMost(Mean(f), f[high])
  <1>1. PICK g \in [SUBSET S -> Share] :
          /\ g[{}] = <<0, 1>>
          /\ \A s \in SUBSET S : s # {} => g[s] = Plus(f[One(s)], g[s \ {One(s)}])
          /\ g[S] = FoldFunctionOnSet(Plus, <<0, 1>>, f, S)
    BY PlusUnfolds
  <1>2. \A s \in SUBSET S : IsFiniteSet(s) /\ Cardinality(s) \in Nat
    BY FS_Subset, FS_CardinalityType
  <1>3. /\ \A x \in S : f[x][1] \in Nat /\ f[x][2] \in Nat /\ f[x][2] # 0
        /\ \A s \in SUBSET S : g[s][1] \in Nat /\ g[s][2] \in Nat /\ g[s][2] # 0
    BY DEF Share
  <1> DEFINE below(x, s) == f[x][1] * (g[s][2] * Cardinality(s)) <= g[s][1] * f[x][2]
             above(x, s) == g[s][1] * f[x][2] <= f[x][1] * (g[s][2] * Cardinality(s))
             good == {s \in SUBSET S :
                        s # {} => (\E x \in s : below(x, s)) /\ (\E x \in s : above(x, s))}
  <1>4. \A s \in SUBSET S : (\A x \in s : s \ {x} \in good) => s \in good
    <2> SUFFICES ASSUME NEW s \in SUBSET S, \A x \in s : s \ {x} \in good, s # {}
                 PROVE  (\E x \in s : below(x, s)) /\ (\E x \in s : above(x, s))
      OBVIOUS
    <2> DEFINE x == One(s)
               rest == s \ {x}
    <2>1. x \in s
      BY DEF One
    <2>2. g[s] = Plus(f[x], g[rest])
      BY <1>1
    <2> HIDE DEF x
    <2>3. rest \in SUBSET S /\ rest \in good /\ rest \subseteq s
      BY <2>1
    <2>4. Cardinality(s) = Cardinality(rest) + 1 /\ Cardinality(rest) \in Nat
      BY <1>2, <2>1, FS_RemoveElement
    <2> DEFINE a == g[rest][1]
               b == g[rest][2]
               n == Cardinality(rest)
               c == f[x][1]
               d == f[x][2]
    <2>5. g[s][1] = c * b + a * d /\ g[s][2] = d * b
      BY <2>2 DEF Plus
    <2>6. /\ a \in Nat /\ b \in Nat /\ b # 0 /\ n \in Nat
          /\ c \in Nat /\ d \in Nat /\ d # 0
      BY <1>3, <2>1, <2>3, <2>4
    <2>7. CASE rest = {}
      <3>1. a = 0 /\ b = 1 /\ n = 0
        <4>1. g[rest] = <<0, 1>> /\ Cardinality(rest) = 0
          BY <1>1, <2>7, FS_EmptySet, Zenon
        <4> HIDE DEF rest
        <4> QED
          BY <4>1
      <3> HIDE DEF a, b, n, c, d, rest
      <3>2. c * ((d * b) * (n + 1)) = (c * b + a * d) * d
        BY <2>6, <3>1
      <3>3. below(x, s) /\ above(x, s)
        BY <2>4, <2>5, <2>6, <3>2 DEF c, d, n
      <3> QED
        BY <2>1, <3>3
    <2>8. CASE rest # {}
      <3>1. n # 0
        BY <1>2, <2>3, <2>8, FS_EmptySet
      <3>2. PICK low \in rest : below(low, rest)
        BY <2>3, <2>8
      <3>3. PICK high \in rest : above(high, rest)
        BY <2>3, <2>8
      <3>4. /\ f[low][1] \in Nat /\ f[low][2] \in Nat /\ f[low][2] # 0 /\ low \in s
            /\ f[high][1] \in Nat /\ f[high][2] \in Nat /\ f[high][2] # 0 /\ high \in s
        BY <1>3, <2>3
      <3>5. f[low][1] * (b * n) <= a * f[low][2]
        BY <3>2
      <3>6. a * f[high][2] <= f[high][1] * (b * n)
        BY <3>3
      <3>7. below(low, s) \/ below(x, s)
        <4>1. \/ f[low][1] * ((d * b) * (n + 1)) <= (c * b + a * d) * f[low][2]
              \/ c * ((d * b) * (n + 1)) <= (c * b + a * d) * d
          <5> HIDE DEF a, b, n, c, d
          <5> QED
            BY <2>6, <3>1, <3>4, <3>5, MeanOfOneMore
        <4> QED
          BY <2>4, <2>5, <4>1
      <3>8. above(high, s) \/ above(x, s)
        <4>1. \/ (c * b + a * d) * f[high][2] <= f[high][1] * ((d * b) * (n + 1))
              \/ (c * b + a * d) * d <= c * ((d * b) * (n + 1))
          <5> DEFINE l == f[high][1]
                     m == f[high][2]
          <5> HIDE DEF a, b, n, c, d, l, m
          <5>1. l \in Nat /\ m \in Nat /\ m # 0 /\ a * m <= l * (b * n)
            BY <3>4, <3>6 DEF l, m
          <5>2. (-l) * (b * n) <= (-a) * m /\ -l \in Int /\ -a \in Int /\ -c \in Int
            BY <2>6, <5>1
          <5>3. \/ (-l) * ((d * b) * (n + 1)) <= ((-c) * b + (-a) * d) * m
                \/ (-c) * ((d * b) * (n + 1)) <= ((-c) * b + (-a) * d) * d
            BY <2>6, <3>1, <5>1, <5>2, MeanOfOneMore
          <5>4. /\ (-l) * ((d * b) * (n + 1)) = -(l * ((d * b) * (n + 1)))
                /\ (-c) * ((d * b) * (n + 1)) = -(c * ((d * b) * (n + 1)))
            BY <2>6, <5>1
          <5>5. /\ ((-c) * b + (-a) * d) * m = -((c * b + a * d) * m)
                /\ ((-c) * b + (-a) * d) * d = -((c * b + a * d) * d)
            BY <2>6, <5>1
          <5>6. /\ l * ((d * b) * (n + 1)) \in Int /\ c * ((d * b) * (n + 1)) \in Int
                /\ (c * b + a * d) * m \in Int /\ (c * b + a * d) * d \in Int
            BY <2>6, <5>1
          <5>7. \/ (c * b + a * d) * m <= l * ((d * b) * (n + 1))
                \/ (c * b + a * d) * d <= c * ((d * b) * (n + 1))
            BY <5>3, <5>4, <5>5, <5>6
          <5> QED
            BY <5>7 DEF l, m
        <4> QED
          BY <2>4, <2>5, <4>1
      <3> QED
        BY <2>1, <3>4, <3>7, <3>8
    <2> QED
      BY <2>7, <2>8
  <1>5. S \in good
    <2> HIDE DEF good
    <2> QED
      BY <1>4, SubsetInduction
  <1>6. Mean(f) = <<g[S][1], g[S][2] * Cardinality(S)>>
    BY <1>1 DEF Mean, FoldFunction
  <1>7. Cardinality(S) \in Nat /\ Cardinality(S) # 0
    BY <1>2, FS_EmptySet
  <1>8. g[S][2] * Cardinality(S) \in Nat /\ g[S][2] * Cardinality(S) # 0
    BY <1>3, <1>7
  <1>9. Mean(f) \in Share
    BY <1>3, <1>6, <1>8 DEF Share
  <1>10. PICK low, high \in S : below(low, S) /\ above(high, S)
    BY <1>5
  <1>11. AtMost(f[low], Mean(f)) /\ AtMost(Mean(f), f[high])
    BY <1>6, <1>10 DEF AtMost
  <1> QED
    BY <1>9, <1>11

-----------------------------------------------------------------------------
(* The ranking of the fused chunks. *)

(* A finite set of numbers that is not empty has a greatest one.           *)
LEMMA GreatestIsIn ==
  ASSUME NEW S, IsFiniteSet(S), S \subseteq Nat, S # {}
  PROVE  Max(S) \in S
  <1> DEFINE good == {s \in SUBSET S : s # {} => \E m \in s : \A x \in s : x <= m}
  <1>1. \A s \in SUBSET S : (\A x \in s : s \ {x} \in good) => s \in good
    <2> SUFFICES ASSUME NEW s \in SUBSET S, \A x \in s : s \ {x} \in good, s # {}
                 PROVE  \E m \in s : \A x \in s : x <= m
      OBVIOUS
    <2>1. PICK x \in s : TRUE
      OBVIOUS
    <2>2. CASE s = {x}
      BY <2>2
    <2>3. CASE s # {x}
      <3>1. s \ {x} # {}
        BY <2>3
      <3>2. PICK m \in s \ {x} : \A y \in s \ {x} : y <= m
        BY <2>1, <3>1
      <3>3. CASE m <= x
        <4>1. \A y \in s : y <= x
          BY <2>1, <3>2, <3>3
        <4> QED
          BY <4>1
      <3>4. CASE x <= m
        BY <3>2, <3>4
      <3> QED
        BY <3>3, <3>4
    <2> QED
      BY <2>2, <2>3
  <1>2. S \in good
    <2> HIDE DEF good
    <2> QED
      BY <1>1, SubsetInduction
  <1>3. \E m \in S : \A x \in S : x <= m
    BY <1>2
  <1> QED
    BY <1>3 DEF Max

Ahead(scores, k) ==
  {j \in DOMAIN scores : scores[j] > scores[k] \/ (scores[j] = scores[k] /\ j < k)}

(* Scores of finitely many chunks. *)
Rankable(scores) ==
  /\ IsFiniteSet(DOMAIN scores)
  /\ DOMAIN scores \subseteq Nat
  /\ \A k \in DOMAIN scores : scores[k] \in Nat

(* No two chunks have equally many ahead of them, and none has all.        *)
LEMMA AheadIsOrder ==
  ASSUME NEW scores, Rankable(scores), NEW j \in DOMAIN scores, NEW k \in DOMAIN scores
  PROVE  /\ Cardinality(Ahead(scores, k)) \in 0..(Cardinality(DOMAIN scores) - 1)
         /\ Cardinality(Ahead(scores, j)) = Cardinality(Ahead(scores, k)) => j = k
  <1> DEFINE D == DOMAIN scores
  <1>1. \A n \in D : /\ Ahead(scores, n) \in SUBSET D /\ IsFiniteSet(Ahead(scores, n))
                     /\ Cardinality(Ahead(scores, n)) \in Nat
    <2>1. \A n \in D : Ahead(scores, n) \in SUBSET D
      BY DEF Ahead
    <2> QED
      BY <2>1, FS_Subset, FS_CardinalityType DEF Rankable
  <1>2. ASSUME NEW m \in D, NEW n \in D, m \in Ahead(scores, n)
        PROVE  Cardinality(Ahead(scores, m)) # Cardinality(Ahead(scores, n))
    <2>1. Ahead(scores, m) \in SUBSET Ahead(scores, n) /\ m \notin Ahead(scores, m)
      BY <1>2 DEF Ahead, Rankable
    <2> QED
      BY <1>1, <1>2, <2>1, FS_Subset
  <1>3. j # k => j \in Ahead(scores, k) \/ k \in Ahead(scores, j)
    BY DEF Ahead, Rankable
  <1>4. Cardinality(Ahead(scores, k)) <= Cardinality(D) - 1
    <2>1. k \notin Ahead(scores, k)
      BY DEF Ahead, Rankable
    <2>2. Ahead(scores, k) \in SUBSET D /\ Ahead(scores, k) # D
      BY <1>1, <2>1
    <2>3. /\ Cardinality(Ahead(scores, k)) <= Cardinality(D)
          /\ Cardinality(Ahead(scores, k)) # Cardinality(D)
          /\ Cardinality(D) \in Nat
      BY <2>2, FS_Subset, FS_CardinalityType DEF Rankable
    <2> QED
      BY <1>1, <2>3
  <1>5. Cardinality(D) \in Nat
    BY FS_CardinalityType DEF Rankable
  <1> QED
    BY <1>1, <1>2, <1>3, <1>4, <1>5

(* Every place below the number of chunks is somebody's.                   *)
LEMMA PlacesAreTaken ==
  ASSUME NEW scores, Rankable(scores), NEW n \in 0..(Cardinality(DOMAIN scores) - 1)
  PROVE  \E k \in DOMAIN scores : Cardinality(Ahead(scores, k)) = n
  <1> DEFINE D == DOMAIN scores
             T == 0..(Cardinality(D) - 1)
             place == [k \in D |-> Cardinality(Ahead(scores, k))]
  <1>1. Cardinality(D) \in Nat
    BY FS_CardinalityType DEF Rankable
  <1>2. IsFiniteSet(T) /\ Cardinality(T) = Cardinality(D)
    <2>1. 0 \in Int /\ Cardinality(D) - 1 \in Int
      BY <1>1
    <2>2. /\ IsFiniteSet(T)
          /\ Cardinality(T) = IF 0 > Cardinality(D) - 1 THEN 0 ELSE Cardinality(D) - 1 - 0 + 1
      BY <2>1, FS_Interval
    <2> QED
      BY <1>1, <2>2
  <1>3. place \in Injection(D, T)
    BY AheadIsOrder DEF Injection, IsInjective
  <1>4. place \in Surjection(D, T)
    BY <1>2, <1>3, FS_Injection
  <1> QED
    BY <1>4 DEF Surjection

(* The values of a function with a finite domain are finitely many.        *)
LEMMA ValuesAreFinite ==
  ASSUME NEW S, IsFiniteSet(S), NEW f, DOMAIN f = S, f = [x \in S |-> f[x]]
  PROVE  IsFiniteSet({f[x] : x \in S})
  <1>1. f \in Surjection(S, {f[x] : x \in S})
    BY DEF Surjection
  <1> QED
    BY <1>1, FS_Surjection

(* The fused records of a ledger, and what is known of them. *)
Fusible(fused) ==
  /\ IsFiniteSet(fused)
  /\ \A f \in fused : f.chunk_id \in Nat /\ f.rrf_score \in Nat

(* compute_retrieval_metrics: every chunk is ranked once.                  *)
LEMMA RankedOnce ==
  ASSUME NEW fused, Fusible(fused)
  PROVE  \E n \in Nat :
           /\ Ranked(fused) \in [1..n -> Nat]
           /\ \A p, q \in 1..n : Ranked(fused)[p] = Ranked(fused)[q] => p = q
  <1> DEFINE ids == {f.chunk_id : f \in fused}
             records(k) == {g \in fused : g.chunk_id = k}
             best(k) == Max({f.rrf_score : f \in records(k)})
             scores == [k \in ids |-> best(k)]
             n == Cardinality(ids)
  <1>1. IsFiniteSet(ids) /\ n \in Nat /\ ids \subseteq Nat
    <2> DEFINE id == [f \in fused |-> f.chunk_id]
    <2>1. ids = {id[f] : f \in fused}
      OBVIOUS
    <2>2. IsFiniteSet({id[f] : f \in fused})
      <3>1. DOMAIN id = fused /\ id = [f \in fused |-> id[f]]
        OBVIOUS
      <3> HIDE DEF id
      <3> QED
        BY <3>1, ValuesAreFinite DEF Fusible
    <2> QED
      BY <2>1, <2>2, FS_CardinalityType DEF Fusible
  <1>2. \A k \in ids : best(k) \in Nat
    <2> SUFFICES ASSUME NEW k \in ids PROVE best(k) \in Nat
      OBVIOUS
    <2> DEFINE T == {f.rrf_score : f \in records(k)}
    <2>1. IsFiniteSet(records(k))
      <3>1. records(k) \in SUBSET fused
        OBVIOUS
      <3> QED
        BY <3>1, FS_Subset DEF Fusible
    <2>2. T \subseteq Nat /\ T # {}
      BY DEF Fusible
    <2>3. IsFiniteSet(T)
      <3> DEFINE score == [f \in records(k) |-> f.rrf_score]
      <3> HIDE DEF records
      <3>1. T = {score[f] : f \in records(k)}
        OBVIOUS
      <3>2. DOMAIN score = records(k) /\ score = [f \in records(k) |-> score[f]]
        OBVIOUS
      <3> HIDE DEF score, T
      <3> QED
        BY <2>1, <3>1, <3>2, ValuesAreFinite
    <2> HIDE DEF T
    <2>4. Max(T) \in Nat
      BY <2>2, <2>3, GreatestIsIn
    <2> QED
      BY <2>4 DEF T
  <1>3. Rankable(scores) /\ DOMAIN scores = ids
    <2> HIDE DEF best
    <2> QED
      BY <1>1, <1>2 DEF Rankable
  <1> DEFINE before(k) == {j \in ids : best(j) > best(k) \/ (best(j) = best(k) /\ j < k)}
  <1>4. /\ Ranked(fused) = [place \in 1..n |->
                              CHOOSE k \in ids : Cardinality(before(k)) = place - 1]
        /\ \A k \in ids : before(k) = Ahead(scores, k)
    BY DEF Ranked, Ahead
  <1> HIDE DEF scores, ids, n, before
  <1>5. ASSUME NEW p \in 1..n
        PROVE  Ranked(fused)[p] \in ids /\ Cardinality(Ahead(scores, Ranked(fused)[p])) = p - 1
    <2>1. p - 1 \in 0..(n - 1)
      BY <1>1
    <2>2. \E k \in ids : Cardinality(Ahead(scores, k)) = p - 1
      BY <1>3, <2>1, PlacesAreTaken DEF n
    <2>3. \E k \in ids : Cardinality(before(k)) = p - 1
      BY <1>4, <2>2
    <2>4. Ranked(fused)[p] = CHOOSE k \in ids : Cardinality(before(k)) = p - 1
      BY <1>4
    <2>5. Ranked(fused)[p] \in ids /\ Cardinality(before(Ranked(fused)[p])) = p - 1
      BY <2>3, <2>4
    <2> QED
      BY <1>4, <2>5
  <1>6. \A p, q \in 1..n : Ranked(fused)[p] = Ranked(fused)[q] => p = q
    BY <1>5
  <1>7. Ranked(fused) \in [1..n -> Nat]
    BY <1>1, <1>4, <1>5
  <1> QED
    BY <1>1, <1>6, <1>7

-----------------------------------------------------------------------------
(* The metrics of one example. *)

(* The hits among the first m of a ranking: no more than m, no more than   *)
(* there is gold, and no fewer than among fewer.                           *)
LEMMA HitsBounded ==
  ASSUME NEW n \in Nat, NEW ranked \in [1..n -> Nat],
         \A p, q \in 1..n : ranked[p] = ranked[q] => p = q,
         NEW gold, IsFiniteSet(gold), NEW m \in 0..n, NEW o \in 0..n
  PROVE  LET hits(k) == Hits(SubSeq(ranked, 1, k), gold)
         IN  /\ Len(SubSeq(ranked, 1, m)) = m
             /\ hits(m) \in Nat /\ hits(m) <= m /\ hits(m) <= Cardinality(gold)
             /\ m <= o => hits(m) <= hits(o)
  <1> DEFINE at(k) == {i \in 1..k : ranked[i] \in gold}
             hits(k) == Hits(SubSeq(ranked, 1, k), gold)
  <1>1. ranked \in Seq(Nat) /\ Len(ranked) = n
    OBVIOUS
  <1>2. ASSUME NEW k \in 0..n
        PROVE  /\ Len(SubSeq(ranked, 1, k)) = k
               /\ hits(k) = Cardinality(at(k))
               /\ IsFiniteSet(at(k)) /\ Cardinality(at(k)) \in Nat
               /\ Cardinality(at(k)) <= k
    <2>1. /\ SubSeq(ranked, 1, k) \in Seq(Nat) /\ Len(SubSeq(ranked, 1, k)) = k
          /\ DOMAIN SubSeq(ranked, 1, k) = 1..k
          /\ \A i \in 1..k : SubSeq(ranked, 1, k)[i] = ranked[i]
      BY <1>1
    <2>2. hits(k) = Cardinality(at(k))
      BY <2>1 DEF Hits
    <2>3. IsFiniteSet(1..k) /\ Cardinality(1..k) = k
      BY FS_Interval
    <2>4. at(k) \in SUBSET (1..k)
      OBVIOUS
    <2>5. IsFiniteSet(at(k)) /\ Cardinality(at(k)) <= k
      BY <2>3, <2>4, FS_Subset
    <2> QED
      BY <2>1, <2>2, <2>5, FS_CardinalityType
  <1>3. Cardinality(at(m)) <= Cardinality(gold)
    <2> DEFINE hit == [i \in at(m) |-> ranked[i]]
    <2>1. hit \in Injection(at(m), gold)
      BY DEF Injection, IsInjective
    <2> QED
      BY <2>1, FS_Injection
  <1>4. m <= o => Cardinality(at(m)) <= Cardinality(at(o))
    <2> SUFFICES ASSUME m <= o PROVE Cardinality(at(m)) <= Cardinality(at(o))
      OBVIOUS
    <2>1. at(m) \in SUBSET at(o)
      OBVIOUS
    <2> QED
      BY <1>2, <2>1, FS_Subset
  <1> QED
    BY <1>2, <1>3, <1>4

(* What the metrics of one example are, where there are any. *)
Measurement == [mrr : Share, cutoffs : [k_cutoffs -> [recall : Share, precision : Share]]]

(* A ratio never has a zero below. *)
LEMMA RatioIsShare ==
  ASSUME NEW a \in Nat, NEW b \in Nat
  PROVE  Ratio(a, b) \in Share
  BY DEF Ratio, Share

(* Of two shares of the same, the lesser is that with fewer.               *)
LEMMA SharesCompare ==
  ASSUME NEW a \in Nat, NEW b \in Nat, NEW d \in Nat
  PROVE  /\ a <= b => AtMost(Ratio(a, d), Ratio(b, d))
         /\ a <= d => AtMost(Ratio(a, d), <<1, 1>>)
  <1>1. CASE d = 0
    BY <1>1 DEF Ratio, AtMost
  <1>2. CASE d # 0
    <2>1. Ratio(a, d) = <<a, d>> /\ Ratio(b, d) = <<b, d>>
      BY <1>2 DEF Ratio
    <2>2. a <= b => a * d <= b * d
      BY <1>2, Scaling
    <2> QED
      BY <2>1, <2>2 DEF AtMost
  <1> QED
    BY <1>1, <1>2

(* compute_retrieval_metrics: the figures at the cutoffs are those of one  *)
(* ranking without repetitions.                                            *)
LEMMA RetrievalMeasured ==
  ASSUME NEW body \in LedgerBody, NEW gold, IsFiniteSet(gold),
         compute_retrieval_metrics(body, gold) # None
  PROVE  /\ compute_retrieval_metrics(body, gold) \in Measurement
         /\ RankedWithin(compute_retrieval_metrics(body, gold))
  <1> DEFINE metrics == compute_retrieval_metrics(body, gold)
             ranked == Ranked(body.fused_evidence)
             found == {i \in DOMAIN ranked : ranked[i] \in gold}
             cut(k) == IF k < Len(ranked) THEN k ELSE Len(ranked)
             hits(k) == Hits(SubSeq(ranked, 1, cut(k)), gold)
             length(k) == Len(SubSeq(ranked, 1, cut(k)))
  <1>1. gold # {} /\ Cardinality(gold) \in Nat /\ Cardinality(gold) # 0
    BY FS_CardinalityType, FS_EmptySet DEF compute_retrieval_metrics
  <1>2. PICK n \in Nat : /\ ranked \in [1..n -> Nat]
                         /\ \A p, q \in 1..n : ranked[p] = ranked[q] => p = q
    BY LedgerAssumption, RankedOnce DEF Fusible
  <1>3. Len(ranked) = n /\ DOMAIN ranked = 1..n
    BY <1>2
  <1>4. /\ metrics.mrr = IF found = {} THEN <<0, 1>>
                         ELSE <<1, CHOOSE i \in found : \A j \in found : i <= j>>
        /\ metrics = [mrr |-> metrics.mrr, cutoffs |-> metrics.cutoffs]
        /\ metrics.cutoffs =
             [k \in k_cutoffs |->
                [recall |-> Ratio(hits(k), Cardinality(gold)),
                 precision |-> Ratio(hits(k), length(k))]]
    BY <1>1 DEF compute_retrieval_metrics
  <1> HIDE DEF metrics, ranked
  <1>5. metrics.mrr \in Share
    <2>1. CASE found = {}
      BY <1>4, <2>1 DEF Share
    <2>2. CASE found # {}
      <3>1. found \subseteq Nat /\ \A i \in found : i # 0
        BY <1>3
      <3>2. metrics.mrr = <<1, First(found)>>
        BY <1>4, <2>2 DEF First
      <3> HIDE DEF found
      <3>3. First(found) \in found
        BY <2>2, <3>1, FirstIsIn
      <3>4. First(found) \in Nat /\ First(found) # 0
        BY <3>1, <3>3
      <3> QED
        BY <3>2, <3>4 DEF Share
    <2> QED
      BY <2>1, <2>2
  <1>6. \A k \in k_cutoffs : cut(k) \in 0..n
    BY <1>2, <1>3, HarnessAssumption
  <1>7. \A k \in k_cutoffs :
          /\ length(k) = cut(k)
          /\ hits(k) \in Nat /\ hits(k) <= cut(k) /\ hits(k) <= Cardinality(gold)
    BY <1>2, <1>6, HitsBounded
  <1>8. \A k, l \in k_cutoffs : k <= l => hits(k) <= hits(l)
    <2> SUFFICES ASSUME NEW k \in k_cutoffs, NEW l \in k_cutoffs, k <= l
                 PROVE  hits(k) <= hits(l)
      OBVIOUS
    <2>1. cut(k) <= cut(l)
      BY <1>2, <1>3, HarnessAssumption
    <2> HIDE DEF cut
    <2> QED
      BY <1>2, <1>6, <2>1, HitsBounded
  <1> HIDE DEF cut, hits, length
  <1>9. \A k \in k_cutoffs :
          /\ metrics.cutoffs[k].recall = Ratio(hits(k), Cardinality(gold))
          /\ metrics.cutoffs[k].precision = Ratio(hits(k), length(k))
    BY <1>4
  <1>10. metrics \in Measurement
    <2>1. \A k \in k_cutoffs :
            /\ Ratio(hits(k), Cardinality(gold)) \in Share
            /\ Ratio(hits(k), length(k)) \in Share
      BY <1>1, <1>2, <1>6, <1>7, RatioIsShare
    <2>2. metrics.cutoffs \in [k_cutoffs -> [recall : Share, precision : Share]]
      BY <1>4, <2>1
    <2> QED
      BY <1>4, <1>5, <2>2 DEF Measurement
  <1>11. RankedWithin(metrics)
    <2> SUFFICES ASSUME NEW k \in k_cutoffs, NEW l \in k_cutoffs
                 PROVE  /\ k <= l => AtMost(metrics.cutoffs[k].recall, metrics.cutoffs[l].recall)
                        /\ AtMost(metrics.cutoffs[l].recall, <<1, 1>>)
                        /\ AtMost(metrics.cutoffs[l].precision, <<1, 1>>)
      BY DEF RankedWithin
    <2>1. k <= l => AtMost(metrics.cutoffs[k].recall, metrics.cutoffs[l].recall)
      BY <1>1, <1>7, <1>8, <1>9, SharesCompare
    <2>2. AtMost(metrics.cutoffs[l].recall, <<1, 1>>)
      BY <1>1, <1>7, <1>9, SharesCompare
    <2>3. AtMost(metrics.cutoffs[l].precision, <<1, 1>>)
      <3>1. length(l) \in Nat
        BY <1>2, <1>6, <1>7
      <3> QED
        BY <1>7, <1>9, <3>1, SharesCompare
    <2> QED
      BY <2>1, <2>2, <2>3
  <1> QED
    BY <1>10, <1>11 DEF metrics

(* Citations counted, and those that are gold among them. *)
Counted(metrics) ==
  /\ metrics.cited_count \in Nat
  /\ metrics.grounded_count \in Nat
  /\ metrics.grounded_count <= metrics.cited_count

(* compute_citation_metrics: what is grounded was cited.                   *)
LEMMA CitationsCounted ==
  ASSUME NEW body \in LedgerBody, NEW gold, compute_citation_metrics(body, gold) # None
  PROVE  Counted(compute_citation_metrics(body, gold))
  <1> DEFINE cited == body.cited
             at == {i \in DOMAIN cited : cited[i] \in gold}
  <1>1. Len(cited) \in Nat /\ DOMAIN cited = 1..Len(cited)
    BY LedgerAssumption
  <1>2. IsFiniteSet(1..Len(cited)) /\ Cardinality(1..Len(cited)) = Len(cited)
    BY <1>1, FS_Interval
  <1>3. at \in SUBSET (1..Len(cited))
    BY <1>1
  <1>4. Cardinality(at) \in Nat /\ Cardinality(at) <= Len(cited)
    BY <1>2, <1>3, FS_Subset, FS_CardinalityType
  <1> QED
    BY <1>1, <1>4 DEF Counted, compute_citation_metrics, Hits

-----------------------------------------------------------------------------
(* The metrics of a report. *)

(* The confusion matrix accounts for every pair, and gives accuracy,       *)
(* supports and recalls.                                                   *)
LEMMA CellsOfPairs ==
  ASSUME NEW n \in Nat, n # 0, NEW pairs \in [1..n -> Verdict \X Verdict]
  PROVE  CellsAddUp(compute_verdict_metrics(pairs), n)
  <1> DEFINE figures == compute_verdict_metrics(pairs)
             cells == figures.confusion
             of(c) == {i \in 1..n : pairs[i] = c}
             in(S) == {i \in 1..n : pairs[i] \in S}
             row(v) == {c \in DOMAIN cells : c[1] = v}
  <1>1. IsFiniteSet(1..n) /\ Cardinality(1..n) = n
    BY FS_Interval
  <1>2. \A J \in SUBSET (1..n) :
          /\ IsFiniteSet(J) /\ Cardinality(J) \in Nat
          /\ Cardinality(J) = 0 <=> J = {}
    BY <1>1, FS_Subset, FS_CardinalityType, FS_EmptySet
  <1>3. \A c \in Verdict \X Verdict : Count(pairs, {c[1]}, {c[2]}) = Cardinality(of(c))
    <2> SUFFICES ASSUME NEW c \in Verdict \X Verdict
                 PROVE  Count(pairs, {c[1]}, {c[2]}) = Cardinality(of(c))
      OBVIOUS
    <2>1. {i \in DOMAIN pairs : pairs[i][1] \in {c[1]} /\ pairs[i][2] \in {c[2]}} = of(c)
      OBVIOUS
    <2> QED
      BY <2>1 DEF Count
  <1>4. /\ DOMAIN cells = {c \in Verdict \X Verdict : Count(pairs, {c[1]}, {c[2]}) > 0}
        /\ \A c \in DOMAIN cells : cells[c] = Count(pairs, {c[1]}, {c[2]})
    BY DEF compute_verdict_metrics
  <1>5. \A i \in 1..n : pairs[i] \in DOMAIN cells
    <2> SUFFICES ASSUME NEW i \in 1..n PROVE Cardinality(of(pairs[i])) > 0
      BY <1>3, <1>4
    <2>1. i \in of(pairs[i])
      OBVIOUS
    <2>2. of(pairs[i]) \in SUBSET (1..n) /\ of(pairs[i]) # {}
      BY <2>1
    <2> HIDE DEF of
    <2> QED
      BY <1>2, <2>2
  <1>6. \A S \in SUBSET DOMAIN cells : SumFunctionOnSet(cells, S) = Cardinality(in(S))
    <2> SUFFICES ASSUME NEW S \in SUBSET DOMAIN cells
                 PROVE  SumFunctionOnSet(cells, S) = Cardinality(in(S))
      OBVIOUS
    <2>1. IsFiniteSet(Verdict)
      <3>1. IsFiniteSet({"CONSISTENT"} \union {"CONTRADICTORY"})
        BY FS_Singleton, FS_AddElement
      <3>2. IsFiniteSet(({"CONSISTENT"} \union {"CONTRADICTORY"}) \union {"INSUFFICIENT_EVIDENCE"})
        BY <3>1, FS_AddElement
      <3>3. ({"CONSISTENT"} \union {"CONTRADICTORY"}) \union {"INSUFFICIENT_EVIDENCE"} = Verdict
        BY DEF Verdict
      <3> QED
        BY <3>2, <3>3
    <2>2. IsFiniteSet(Verdict \X Verdict)
      BY <2>1, FS_Product
    <2>3. IsFiniteSet(S)
      BY <1>4, <2>2, FS_Subset
    <2>4. \A c \in S : cells[c] = Cardinality(OfKind(1..n, pairs, c))
      BY <1>3, <1>4 DEF OfKind
    <2> HIDE DEF cells
    <2>5. SumFunctionOnSet(cells, S) = Cardinality(OfKinds(1..n, pairs, S))
      BY <1>1, <2>3, <2>4, SumOfKinds
    <2> QED
      BY <2>5 DEF OfKinds
  <1> HIDE DEF cells
  <1>7. SumFunctionOnSet(cells, DOMAIN cells) = n
    <2>1. in(DOMAIN cells) = 1..n
      BY <1>5
    <2> QED
      BY <1>1, <1>6, <2>1
  <1>8. Same(figures.accuracy,
             <<SumFunctionOnSet(cells, {c \in DOMAIN cells : c[1] = c[2]}), n>>)
    <2>1. in({c \in DOMAIN cells : c[1] = c[2]}) = {i \in DOMAIN pairs : pairs[i][1] = pairs[i][2]}
      BY <1>5
    <2>2. Len(pairs) = n
      OBVIOUS
    <2>3. figures.accuracy
            = <<Cardinality({i \in DOMAIN pairs : pairs[i][1] = pairs[i][2]}), n>>
      BY <2>2, AccuracyOfPairs DEF Ratio
    <2>4. SumFunctionOnSet(cells, {c \in DOMAIN cells : c[1] = c[2]})
            = Cardinality({i \in DOMAIN pairs : pairs[i][1] = pairs[i][2]})
      BY <1>6, <2>1
    <2> QED
      BY <2>3, <2>4 DEF Same
  <1>9. ASSUME NEW v \in Verdict
        PROVE  /\ Count(pairs, {v}, Verdict) = SumFunctionOnSet(cells, row(v))
               /\ Count(pairs, {v}, {v})
                    = SumFunctionOnSet(cells, row(v) \intersect {<<v, v>>})
               /\ Count(pairs, {v}, Verdict) \in Nat
               /\ Count(pairs, {v}, {v}) \in Nat
               /\ Count(pairs, {v}, Verdict) = 0 <=> row(v) = {}
    <2>1. in(row(v)) = {i \in DOMAIN pairs : pairs[i][1] \in {v} /\ pairs[i][2] \in Verdict}
      BY <1>5
    <2>2. in(row(v) \intersect {<<v, v>>})
            = {i \in DOMAIN pairs : pairs[i][1] \in {v} /\ pairs[i][2] \in {v}}
      BY <1>5
    <2>3. /\ Count(pairs, {v}, Verdict) = Cardinality(in(row(v)))
          /\ Count(pairs, {v}, {v}) = Cardinality(in(row(v) \intersect {<<v, v>>}))
      BY <2>1, <2>2 DEF Count
    <2>4. in(row(v)) = {} <=> row(v) = {}
      <3>1. ASSUME NEW c \in row(v)
            PROVE  in(row(v)) # {}
        <4>1. Cardinality(of(c)) > 0
          BY <1>3, <1>4
        <4>2. of(c) # {}
          <5>1. of(c) \in SUBSET (1..n)
            OBVIOUS
          <5> HIDE DEF of
          <5> QED
            BY <1>2, <4>1, <5>1
        <4> QED
          BY <4>2
      <3> QED
        BY <3>1
    <2>5. row(v) \in SUBSET DOMAIN cells /\ row(v) \intersect {<<v, v>>} \in SUBSET DOMAIN cells
      OBVIOUS
    <2> HIDE DEF row
    <2>6. Cardinality(in(row(v))) = 0 <=> in(row(v)) = {}
      BY <1>2, FS_EmptySet
    <2> QED
      BY <1>2, <1>6, <2>3, <2>4, <2>5, <2>6
  <1>10. \A v \in Verdict :
           /\ figures.per_class[v].support = Count(pairs, {v}, Verdict)
           /\ figures.per_class[v].recall
                = Ratio(Count(pairs, {v}, {v}), Count(pairs, {v}, Verdict))
    BY DEF compute_verdict_metrics, PerClass
  <1>11. figures.contradiction_detection_rate
           = IF figures.per_class["CONTRADICTORY"].support > 0
             THEN figures.per_class["CONTRADICTORY"].recall ELSE None
    BY DEF compute_verdict_metrics
  <1>12. figures.contradiction_detection_rate = None <=> row("CONTRADICTORY") = {}
    <2> DEFINE v == "CONTRADICTORY"
    <2>1. v \in Verdict
      BY DEF Verdict
    <2>2. Ratio(Count(pairs, {v}, {v}), Count(pairs, {v}, Verdict)) # None
      <3>1. Ratio(Count(pairs, {v}, {v}), Count(pairs, {v}, Verdict)) \in Share
        BY <1>9, <2>1, RatioIsShare
      <3> QED
        BY <3>1, AbsenceAssumption DEF Share
    <2>3. /\ Count(pairs, {v}, Verdict) \in Nat
          /\ Count(pairs, {v}, Verdict) = 0 <=> row(v) = {}
      BY <1>9, <2>1
    <2>4. figures.contradiction_detection_rate
            = IF Count(pairs, {v}, Verdict) > 0
              THEN Ratio(Count(pairs, {v}, {v}), Count(pairs, {v}, Verdict)) ELSE None
      <3> HIDE DEF figures
      <3> QED
        BY <1>10, <1>11, <2>1
    <2> HIDE DEF row, figures
    <2> QED
      BY <2>2, <2>3, <2>4
  <1> HIDE DEF figures
  <1>13. \A v \in Verdict :
           /\ figures.per_class[v].support = SumFunctionOnSet(cells, row(v))
           /\ Same(figures.per_class[v].recall,
                   Ratio(SumFunctionOnSet(cells, row(v) \intersect {<<v, v>>}),
                         SumFunctionOnSet(cells, row(v))))
    <2> SUFFICES ASSUME NEW v \in Verdict
                 PROVE  /\ figures.per_class[v].support = SumFunctionOnSet(cells, row(v))
                        /\ Same(figures.per_class[v].recall,
                                Ratio(SumFunctionOnSet(cells, row(v) \intersect {<<v, v>>}),
                                      SumFunctionOnSet(cells, row(v))))
      OBVIOUS
    <2>1. figures.per_class[v].support = SumFunctionOnSet(cells, row(v))
      BY <1>9, <1>10
    <2>2. figures.per_class[v].recall
            = Ratio(SumFunctionOnSet(cells, row(v) \intersect {<<v, v>>}),
                    SumFunctionOnSet(cells, row(v)))
      BY <1>9, <1>10
    <2> QED
      BY <2>1, <2>2 DEF Same
  <1> QED
    BY <1>7, <1>8, <1>12, <1>13 DEF CellsAddUp, cells, figures

(* What is known of a result of the variant being evaluated. *)
Measured(result) ==
  /\ result.expected_verdict \in Verdict
  /\ result.predicted_verdict \in Verdict
  /\ result.retrieval # None =>
       /\ result.retrieval \in Measurement /\ RankedWithin(result.retrieval)
       /\ k_cutoffs # {}
  /\ result.citation # None => Counted(result.citation)

(* _average_citation: pooled, what is grounded was cited.                  *)
LEMMA CitationsPooled ==
  ASSUME NEW n \in Nat, NEW list, DOMAIN list = 1..n,
         \A i \in 1..n : list[i] # None => Counted(list[i]),
         AverageCitation(list) # None
  PROVE  AverageCitation(list).grounded_count <= AverageCitation(list).cited_count
  <1> DEFINE present == Present(list)
             cited == [i \in present |-> list[i].cited_count]
             grounded == [i \in present |-> list[i].grounded_count]
  <1>1. present \in SUBSET (1..n) /\ \A i \in present : Counted(list[i])
    BY DEF Present
  <1>2. IsFiniteSet(present)
    BY <1>1, FS_Interval, FS_Subset
  <1>3. AverageCitation(list)
          = [cited_count |-> SumFunction(cited), grounded_count |-> SumFunction(grounded)]
    BY DEF AverageCitation
  <1> HIDE DEF present
  <1>4. \A i \in present :
          grounded[i] \in Nat /\ cited[i] \in Nat /\ grounded[i] <= cited[i]
    BY <1>1 DEF Counted
  <1>5. DOMAIN cited = present /\ DOMAIN grounded = present
    OBVIOUS
  <1> HIDE DEF cited, grounded
  <1>6. SumFunctionOnSet(grounded, present) <= SumFunctionOnSet(cited, present)
    BY <1>2, <1>4, SumsCompare
  <1> QED
    BY <1>3, <1>5, <1>6 DEF SumFunction

(* _average_retrieval: an average of measurements, within them.            *)
LEMMA RetrievalAveraged ==
  ASSUME NEW n \in Nat, NEW list, DOMAIN list = 1..n,
         \A i \in 1..n : list[i] # None => list[i] \in Measurement /\ k_cutoffs # {}
  PROVE  LET average == AverageRetrieval(list)
         IN  /\ average = None <=> \A i \in 1..n : list[i] = None
             /\ average # None =>
                  \E low, high \in 1..n :
                    /\ list[low] # None /\ list[high] # None
                    /\ AtMost(list[low].mrr, average.mrr)
                    /\ AtMost(average.mrr, list[high].mrr)
  <1> DEFINE present == Present(list)
             average == AverageRetrieval(list)
             mrr == [i \in present |-> list[i].mrr]
             recall(k) == [i \in present |-> list[i].cutoffs[k].recall]
             precision(k) == [i \in present |-> list[i].cutoffs[k].precision]
  <1>1. /\ present \in SUBSET (1..n)
        /\ \A i \in 1..n : i \in present <=> list[i] # None
        /\ \A i \in present : list[i] \in Measurement /\ k_cutoffs # {}
    BY DEF Present
  <1>2. IsFiniteSet(present)
    BY <1>1, FS_Interval, FS_Subset
  <1>3. CASE present = {}
    <2>1. average = None
      BY <1>3 DEF AverageRetrieval
    <2> QED
      BY <1>1, <1>3, <2>1
  <1>4. CASE present # {}
    <2>1. average = [mrr |-> Mean(mrr),
                     cutoffs |-> [k \in k_cutoffs |-> [recall |-> Mean(recall(k)),
                                                      precision |-> Mean(precision(k))]]]
      BY <1>1, <1>4 DEF AverageRetrieval
    <2> HIDE DEF present, average
    <2>2. \A i \in present :
            /\ mrr[i] \in Share /\ mrr[i] = list[i].mrr
            /\ \A k \in k_cutoffs : recall(k)[i] \in Share /\ precision(k)[i] \in Share
      BY <1>1 DEF Measurement
    <2>3. DOMAIN mrr = present /\ \A k : DOMAIN recall(k) = present /\ DOMAIN precision(k) = present
      OBVIOUS
    <2> HIDE DEF mrr, recall, precision
    <2>4. /\ Mean(mrr) \in Share
          /\ \E low, high \in present : AtMost(mrr[low], Mean(mrr)) /\ AtMost(Mean(mrr), mrr[high])
      BY <1>2, <1>4, <2>2, <2>3, MeanMeaning
    <2>5. \A k \in k_cutoffs : Mean(recall(k)) \in Share /\ Mean(precision(k)) \in Share
      BY <1>2, <1>4, <2>2, <2>3, MeanMeaning
    <2>6. average # None
      <3>1. Share \subseteq Int \X Int
        BY DEF Share
      <3>2. average \in RetrievalMetrics
        BY <2>1, <2>4, <2>5, <3>1 DEF RetrievalMetrics
      <3> QED
        BY <3>2, AbsenceAssumption
    <2>7. average.mrr = Mean(mrr)
      BY <2>1
    <2>8. PICK low \in present, high \in present :
            AtMost(mrr[low], Mean(mrr)) /\ AtMost(Mean(mrr), mrr[high])
      BY <2>4
    <2>9. /\ low \in 1..n /\ high \in 1..n /\ list[low] # None /\ list[high] # None
          /\ AtMost(list[low].mrr, average.mrr) /\ AtMost(average.mrr, list[high].mrr)
      BY <1>1, <2>2, <2>7, <2>8
    <2> QED
      BY <2>6, <2>9 DEF average
  <1> QED
    BY <1>3, <1>4

AddsUp(r) ==
  LET retrievals == {x.retrieval : x \in ToSet(r.example_results)} \ {None}
  IN  /\ CellsAddUp(r.verdict, r.example_count)
      /\ \A metrics \in retrievals : RankedWithin(metrics)
      /\ (r.retrieval = None) <=> (retrievals = {})
      /\ r.retrieval # None =>
           \E low, high \in retrievals :
             AtMost(low.mrr, r.retrieval.mrr) /\ AtMost(r.retrieval.mrr, high.mrr)
      /\ r.citation # None => r.citation.grounded_count <= r.citation.cited_count

(* EvaluationReport: the metrics of measured results add up.               *)
LEMMA ReportAddsUp ==
  ASSUME InOrder, Len(results) = Len(examples), NEW v,
         \A i \in 1..Len(results) : Measured(results[i])
  PROVE  AddsUp(ReportOf(v))
  <1> DEFINE n == Len(results)
             r == ReportOf(v)
             retrieval == [i \in 1..n |-> results[i].retrieval]
             citation == [i \in 1..n |-> results[i].citation]
             pairs == [i \in 1..n |-> <<results[i].expected_verdict, results[i].predicted_verdict>>]
             retrievals == {x.retrieval : x \in ToSet(results)} \ {None}
  <1>1. /\ n \in Nat /\ n # 0 /\ DOMAIN results = 1..n
        /\ \A x : x \in ToSet(results) <=> \E i \in 1..n : x = results[i]
    <2>1. results \in Seq(ToSet(results))
      BY DEF InOrder
    <2>2. Len(examples) \in Nat /\ Len(examples) # 0
      BY HarnessAssumption
    <2>3. /\ Len(results) \in Nat /\ DOMAIN results = 1..Len(results)
          /\ \A x : x \in ToSet(results) <=> \E i \in 1..Len(results) : x = results[i]
      BY <2>1, Members
    <2> QED
      BY <2>2, <2>3
  <1>2. /\ r.verdict = compute_verdict_metrics(pairs)
        /\ r.retrieval = AverageRetrieval(retrieval)
        /\ r.citation = AverageCitation(citation)
        /\ r.example_results = results /\ r.example_count = n
    BY <1>1 DEF ReportOf, Field
  <1> HIDE DEF r, n
  <1>3. CellsAddUp(r.verdict, r.example_count)
    <2>1. pairs \in [1..n -> Verdict \X Verdict]
      BY DEF Measured, n
    <2> HIDE DEF pairs
    <2> QED
      BY <1>1, <1>2, <2>1, CellsOfPairs
  <1>4. /\ \A i \in 1..n : retrieval[i] # None => retrieval[i] \in retrievals
        /\ \A metrics \in retrievals : \E i \in 1..n : metrics = retrieval[i] /\ metrics # None
    BY <1>1
  <1>5. /\ DOMAIN retrieval = 1..n
        /\ \A i \in 1..n : retrieval[i] # None =>
             retrieval[i] \in Measurement /\ RankedWithin(retrieval[i]) /\ k_cutoffs # {}
    BY DEF Measured, n
  <1>6. DOMAIN citation = 1..n /\ \A i \in 1..n : citation[i] # None => Counted(citation[i])
    BY DEF Measured, n
  <1> HIDE DEF retrieval, citation, retrievals
  <1>7. /\ r.retrieval = None <=> \A i \in 1..n : retrieval[i] = None
        /\ r.retrieval # None =>
             \E low, high \in 1..n :
               /\ retrieval[low] # None /\ retrieval[high] # None
               /\ AtMost(retrieval[low].mrr, r.retrieval.mrr)
               /\ AtMost(r.retrieval.mrr, retrieval[high].mrr)
    <2> DEFINE average == AverageRetrieval(retrieval)
    <2>1. \A i \in 1..n : retrieval[i] # None => retrieval[i] \in Measurement /\ k_cutoffs # {}
      BY <1>5
    <2>2. /\ average = None <=> \A i \in 1..n : retrieval[i] = None
          /\ average # None =>
               \E low, high \in 1..n :
                 /\ retrieval[low] # None /\ retrieval[high] # None
                 /\ AtMost(retrieval[low].mrr, average.mrr)
                 /\ AtMost(average.mrr, retrieval[high].mrr)
      BY <1>1, <1>5, <2>1, RetrievalAveraged
    <2>3. r.retrieval = average
      BY <1>2
    <2> HIDE DEF average
    <2> QED
      BY <2>2, <2>3
  <1>8. \A metrics \in retrievals : RankedWithin(metrics)
    BY <1>4, <1>5
  <1>9. (r.retrieval = None) <=> (retrievals = {})
    BY <1>4, <1>7
  <1>10. r.retrieval # None =>
           \E low, high \in retrievals :
             AtMost(low.mrr, r.retrieval.mrr) /\ AtMost(r.retrieval.mrr, high.mrr)
    BY <1>4, <1>7
  <1>11. r.citation # None => r.citation.grounded_count <= r.citation.cited_count
    BY <1>1, <1>2, <1>6, CitationsPooled
  <1> QED
    BY <1>2, <1>3, <1>8, <1>9, <1>10, <1>11 DEF AddsUp, retrievals, r

-----------------------------------------------------------------------------
(* The runner's ledgers, the results so far and the reports in memory. *)
MetricsInv ==
  /\ \A run \in DOMAIN produced : produced[run] \in LedgerBody
  /\ \A i \in 1..Len(results) : Measured(results[i])
  /\ MetricsAddUp

(* What the runner answers is a ledger, and one more is.                   *)
LEMMA AnswersAreLedgers ==
  ASSUME MetricsInv
  PROVE  /\ Answers \subseteq LedgerBody
         /\ \A run : \A body \in Answers : \A p \in DOMAIN Put(produced, run, body) :
              Put(produced, run, body)[p] \in LedgerBody
  <1>1. Answers \subseteq LedgerBody
    BY DEF MetricsInv, Answers
  <1>2. ASSUME NEW run, NEW body \in LedgerBody, NEW p \in DOMAIN Put(produced, run, body)
        PROVE  Put(produced, run, body)[p] \in LedgerBody
    BY DEF MetricsInv, Put
  <1> QED
    BY <1>1, <1>2

(* The result of one example is measured.                                  *)
LEMMA ResultMeasured ==
  ASSUME NEW e \in ToSet(examples), NEW body \in LedgerBody, NEW path
  PROVE  Measured(ResultOf(e, body, path))
  <1> DEFINE result == ResultOf(e, body, path)
  <1>1. /\ result.expected_verdict = e.expected_verdict
        /\ result.predicted_verdict = body.verdict
        /\ result.retrieval = compute_retrieval_metrics(body, e.gold)
        /\ result.citation = compute_citation_metrics(body, e.gold)
    BY DEF ResultOf
  <1>2. e.expected_verdict \in Verdict /\ IsFiniteSet(e.gold) /\ body.verdict \in Verdict
    BY HarnessAssumption, LedgerAssumption
  <1>3. result.retrieval # None => k_cutoffs # {}
    BY <1>1, HarnessAssumption DEF compute_retrieval_metrics
  <1> HIDE DEF result
  <1> QED
    BY <1>1, <1>2, <1>3, RetrievalMeasured, CitationsCounted DEF Measured, result

(* Every reachable state has MetricsInv.                                   *)
THEOREM MetricsInvariant == Spec => []MetricsInv
  <1>1. Init => MetricsInv
    BY NothingYet DEF Init, MetricsInv, MetricsAddUp, ToSet
  <1>2. HarnessInv /\ MetricsInv /\ [Next]_vars => MetricsInv'
    <2> SUFFICES ASSUME HarnessInv, MetricsInv, [Next]_vars PROVE MetricsInv'
      OBVIOUS
    <2>1. ASSUME reports' = <<>>, results' = <<>>,
                 \A run \in DOMAIN produced' : produced'[run] \in LedgerBody
          PROVE  MetricsInv'
      BY <2>1, NothingYet DEF MetricsInv, MetricsAddUp, ToSet
    <2>2. CASE \E variants \in VariantLists, chosen \in PipelineConfig, persist \in BOOLEAN :
                 RunAblation(variants, chosen, persist)
      BY <2>1, <2>2 DEF MetricsInv, RunAblation
    <2>3. CASE EvaluateExample
      <3> PICK body \in Answers :
            \E path : /\ produced' = Put(produced, ThisRun, body)
                      /\ results' = Append(results, ResultOf(example, body, path))
        BY <2>3 DEF EvaluateExample
      <3>1. PICK path : /\ produced' = Put(produced, ThisRun, body)
                        /\ results' = Append(results, ResultOf(example, body, path))
        OBVIOUS
      <3>2. reports' = reports /\ Len(results) < Len(examples)
        BY <2>3 DEF EvaluateExample
      <3>3. results \in Seq(ToSet(results)) /\ Len(results) \in Nat /\ Len(examples) \in Nat
        BY Members, HarnessAssumption DEF HarnessInv, InOrder
      <3>4. example \in ToSet(examples)
        <4>1. Len(results) + 1 \in 1..Len(examples)
          BY <3>2, <3>3
        <4> QED
          BY <4>1, Members, HarnessAssumption DEF example
      <3>5. Measured(ResultOf(example, body, path))
        BY <3>4, AnswersAreLedgers, ResultMeasured
      <3>6. /\ Len(results') = Len(results) + 1
            /\ \A i \in 1..Len(results) : results'[i] = results[i]
            /\ results'[Len(results) + 1] = ResultOf(example, body, path)
        BY <3>1, <3>3, Appended
      <3>7. \A i \in 1..Len(results') : Measured(results'[i])
        <4>1. \A i \in 1..(Len(results) + 1) : i \in 1..Len(results) \/ i = Len(results) + 1
          BY <3>3
        <4> QED
          BY <3>5, <3>6, <4>1 DEF MetricsInv
      <3>8. MetricsAddUp'
        BY <3>2 DEF MetricsInv, MetricsAddUp
      <3> QED
        BY <3>1, <3>7, <3>8, AnswersAreLedgers DEF MetricsInv
    <2>4. CASE FinishVariant
      <3>1. /\ reports' = Append(reports, ReportOf(variant)) /\ results' = <<>>
            /\ produced' = produced /\ Len(results) = Len(examples)
        BY <2>4 DEF FinishVariant
      <3>2. AddsUp(ReportOf(variant))
        BY <3>1, ReportAddsUp DEF HarnessInv, MetricsInv
      <3>3. reports \in Seq(ToSet(reports)) /\ Len(reports) \in Nat
        BY Members DEF HarnessInv, AllScored
      <3>4. \A r \in ToSet(reports') : r \in ToSet(reports) \/ r = ReportOf(variant)
        <4>1. /\ reports' \in Seq(ToSet(reports')) /\ Len(reports') = Len(reports) + 1
              /\ \A i \in 1..Len(reports) : reports'[i] = reports[i]
              /\ reports'[Len(reports) + 1] = ReportOf(variant)
          BY <3>1, <3>3, Appended
        <4> SUFFICES ASSUME NEW r \in ToSet(reports')
                     PROVE  r \in ToSet(reports) \/ r = ReportOf(variant)
          OBVIOUS
        <4>2. PICK i \in 1..Len(reports') : r = reports'[i]
          BY <4>1, Members
        <4>3. i \in 1..Len(reports) \/ i = Len(reports) + 1
          BY <3>3, <4>1, <4>2
        <4>4. CASE i \in 1..Len(reports)
          BY <3>3, <4>1, <4>2, <4>4, Members
        <4>5. CASE i = Len(reports) + 1
          BY <4>1, <4>2, <4>5
        <4> QED
          BY <4>3, <4>4, <4>5
      <3>5. \A r \in ToSet(reports) : AddsUp(r)
        BY DEF MetricsInv, MetricsAddUp, AddsUp
      <3>6. \A r \in ToSet(reports') : AddsUp(r)
        BY <3>2, <3>4, <3>5
      <3>7. MetricsAddUp'
        BY <3>6 DEF MetricsAddUp, AddsUp
      <3> QED
        BY <3>1, <3>7, NothingYet DEF MetricsInv
    <2>5. CASE FinishAblation
      <3>1. UNCHANGED <<produced, results, reports>>
        BY <2>5 DEF FinishAblation
      <3> QED
        BY <3>1 DEF MetricsInv, MetricsAddUp
    <2>6. CASE ExampleFails \/ Crash \/ CrashInReportFile
      BY <2>1, <2>6 DEF MetricsInv, ExampleFails, Crash, CrashInReportFile, Dies
    <2>7. CASE CrashInLedgerFile
      BY <2>1, <2>7, AnswersAreLedgers DEF CrashInLedgerFile, Dies
    <2>8. CASE UNCHANGED vars
      <3>1. UNCHANGED <<produced, results, reports>>
        BY <2>8 DEF vars, memory
      <3> QED
        BY <3>1 DEF MetricsInv, MetricsAddUp
    <2> QED
      BY <2>2, <2>3, <2>4, <2>5, <2>6, <2>7, <2>8 DEF Next
  <1> QED
    BY <1>1, <1>2, HarnessInvariant, PTL DEF Spec

(* compute_verdict_metrics, compute_retrieval_metrics, _average_retrieval, *)
(* _average_citation: the metrics of a report agree with one another and   *)
(* with its results, whatever ledgers they were computed from.             *)
THEOREM MetricsAlwaysAddUp == Spec => []MetricsAddUp
  <1>1. MetricsInv => MetricsAddUp
    BY DEF MetricsInv
  <1> QED
    BY <1>1, MetricsInvariant, PTL
=============================================================================
