----------------------- MODULE MCVerificationPipeline -----------------------
EXTENDS ImperativeRunner

CONSTANT RequireEntailment   \* the consistency policy of the instance

(* Scores 0 and 1 with both thresholds at 1: a result below, and one that  *)
(* passes.                                                                 *)
MCRuleConfig ==
  [contradiction_threshold |-> 1, entailment_threshold |-> 1,
   consistency_requires_entailment |-> RequireEntailment]
=============================================================================
